----------------------- MODULE WorkLedgerOutcomeProofs -----------------------
(***************************************************************************)
(* Outcomes are final and reported truthfully; sessions have one turn;     *)
(* slots stay within limits; parked attempts keep theirs; every item lives *)
(* one life.  Everything here rests on the fence of WorkLedgerProofs.      *)
(***************************************************************************)
EXTENDS WorkLedgerProofs

LEMMA OutcomeStep ==
  ASSUME TypeOK, Fence, [Next]_vars
  PROVE  KeepsOutcomes
<1> USE WorkAssumption, LimitsAssumption
<1> USE DEF KeepsOutcomes, Terminal
<1>1. ASSUME NEW w \in Work, AcceptTx(w)
      PROVE  KeepsOutcomes
  BY <1>1 DEF TypeOK, AcceptTx, SetState, outcomeVars
<1>2. ASSUME NEW w \in Work, RequestCancel(w)
      PROVE  KeepsOutcomes
  BY <1>2 DEF TypeOK, RequestCancel, Cancellable, SetState, outcomeVars
<1>3. ASSUME NEW mine \in Kinds, ClaimNothing(mine)
      PROVE  KeepsOutcomes
  BY <1>3 DEF ClaimNothing, FailWork, Candidates, AfterExpiry, Claimable, outcomeVars
<1>4. ASSUME NEW mine \in Kinds, NEW r \in RunId, Claim(mine, r)
      PROVE  KeepsOutcomes
  <2>1. PICK w \in Candidates(mine), failed \in SUBSET Candidates(mine) :
          /\ state' = [FailWork(AfterExpiry, failed) EXCEPT ![w] = "starting"]
          /\ StartAttempt(w, r, "planned")
    BY <1>4 DEF Claim
  <2>2. \A v \in Candidates(mine) : v \in Work /\ state[v] \in Claimable
    BY DEF Candidates, AfterExpiry, Claimable
  <2> QED
    BY <1>4, <2>1, <2>2
       DEF TypeOK, Claim, StartAttempt, FailWork, AfterExpiry, Claimable, outcomeVars
<1>5. ASSUME NEW w \in Work, NEW r \in RunId, NEW g \in Generations, Worker(w, r, g)
      PROVE  KeepsOutcomes
  <2>1. CASE MarkStarting(w, r, g) \/ MarkRuntimeRequested(w, r, g)
    BY <2>1 DEF MarkStarting, MarkRuntimeRequested, itemVars, outcomeVars
  <2>2. CASE StartRunning(w, r, g)
    BY <2>2 DEF TypeOK, StartRunning, Bound, SetState, Fence, OpenIsCurrent, Executing, outcomeVars
  <2>3. ASSUME NEW to \in Targets, NEW why \in {"plain", "stopped", "retained"},
               Transition(w, r, g, to, why)
        PROVE  KeepsOutcomes
    <3>1. r \in open /\ runStatus[r] = "unset" /\ state[w] \notin Terminal
      BY <2>3 DEF Transition, Bound, Fence, OpenIsCurrent
    <3>2. \A v \in Work \ {w} : state'[v] = state[v]
      BY <2>3 DEF TypeOK, Transition, SetState
    <3>3. \A s \in RunId \ {r} : runStatus'[s] = runStatus[s]
      BY <2>3 DEF TypeOK, Transition, EndAttempt
    <3> QED
      BY <2>3, <3>1, <3>2, <3>3 DEF Transition
  <2>4. CASE Defer(w, r, g)
    BY <2>4 DEF TypeOK, Defer, SetState, EndAttempt
  <2>5. ASSUME NEW x \in Outputs, StageRunResult(w, r, g, x)
        PROVE  KeepsOutcomes
    BY <2>5 DEF StageRunResult, itemVars
  <2> QED
    BY <1>5, <2>1, <2>2, <2>3, <2>4, <2>5 DEF Worker
<1>6. ASSUME NEW r \in RunId, NEW g \in Generations, Heartbeat(r, g)
      PROVE  KeepsOutcomes
  BY <1>6 DEF Heartbeat, itemVars, outcomeVars
<1>7. CASE RecoverExpiredLeases
  BY <1>7 DEF RecoverExpiredLeases, Expired, Live, Fence, OpenIsCurrent
<1>8. ASSUME NEW w \in Work, NEW g \in Generations, NEW to \in States, Resolve(w, g, to)
      PROVE  KeepsOutcomes
  BY <1>8 DEF TypeOK, Resolve, SetState, Unsettled
<1>9. ASSUME NEW w \in HostChat, NEW r \in RunId, BeginHostChat(w, r)
      PROVE  KeepsOutcomes
  BY <1>9 DEF TypeOK, BeginHostChat, StartAttempt, SetState, outcomeVars
<1>10. ASSUME NEW r \in RunId, Chatter(r)
       PROVE  KeepsOutcomes
  <2>1. ASSUME NEW step \in {"request", "started", "heartbeat"}, HostChatPhase(r, step)
        PROVE  KeepsOutcomes
    <3>1. CASE MarkRuntimeRequested(owner[r], r, gen[r])
      BY <3>1 DEF MarkRuntimeRequested, itemVars, outcomeVars
    <3>2. CASE StartRunning(owner[r], r, gen[r])
      BY <3>2 DEF TypeOK, StartRunning, Bound, SetState, Fence, OpenIsCurrent, Executing,
                  outcomeVars
    <3>3. CASE Heartbeat(r, gen[r])
      BY <3>3 DEF Heartbeat, itemVars, outcomeVars
    <3> QED
      BY <2>1, <3>1, <3>2, <3>3 DEF HostChatPhase
  <2>2. ASSUME NEW status \in Verdicts, NEW exit \in Outputs,
               NEW creation \in {"requested", "refused"},
               FinishHostChat(r, status, exit, creation)
        PROVE  KeepsOutcomes
    <3>1. r \in open /\ runStatus[r] = "unset" /\ state[owner[r]] \notin Terminal
      BY <2>2 DEF FinishHostChat, Bound, Fence, OpenIsCurrent, Executing
    <3>2. \A v \in Work \ {owner[r]} : state'[v] = state[v]
      BY ZenonT(60), <2>2 DEF TypeOK, FinishHostChat, UnknownOutcome, SetState
    <3>3. \A s \in RunId \ {r} : runStatus'[s] = runStatus[s]
      BY <2>2 DEF TypeOK, FinishHostChat, UnknownOutcome, EndAttempt
    <3> QED
      BY <2>2, <3>1, <3>2, <3>3 DEF FinishHostChat
  <2> QED
    BY <1>10, <2>1, <2>2 DEF Chatter
<1>11. ASSUME NEW r \in RunId, NEW x \in Outputs \cap Exits, NEW ok \in BOOLEAN,
              RecoverRetainedResult(r, x, ok)
       PROVE  KeepsOutcomes
  BY <1>11 DEF TypeOK, RecoverRetainedResult, Settleable, SetState
<1>12. ASSUME NEW r \in RunId, DeliverRun(r) \/ MarkRunProjected(r)
       PROVE  KeepsOutcomes
  BY <1>12 DEF DeliverRun, MarkRunProjected, itemVars, outcomeVars
<1>13. CASE Clock
  BY <1>13 DEF Clock, LeaseLapse, BecomeEligible, DeadlinePass, LegacyRun, itemVars, outcomeVars
<1>14. CASE UNCHANGED vars
  BY <1>14 DEF vars, itemVars, outcomeVars
<1> QED
  BY <1>1, <1>2, <1>3, <1>4, <1>5, <1>6, <1>7, <1>8, <1>9, <1>10, <1>11, <1>12, <1>13, <1>14
     DEF Next

\* No sequence of late reports, recoveries, captures, resolutions and cancels
\* moves a settled item or rewrites a status that was reported.
THEOREM OutcomesFinal == Spec => OutcomesAreFinal
<1>1. TypeOK /\ Fence /\ [Next]_vars => [KeepsOutcomes]_vars
  BY OutcomeStep
<1> QED
  BY <1>1, TypeCorrect, FenceHolds, PTL DEF Spec, OutcomesAreFinal

-----------------------------------------------------------------------------
(***************************************************************************)
(* What a step may do to one attempt row: rows keep their identity, and a  *)
(* new verdict is the one its item just settled on.                        *)
(***************************************************************************)
RowsKeepIdentity ==
  \A r \in RunId : phase[r] # "none" => owner'[r] = owner[r] /\ gen'[r] = gen[r]

SameIdentities == UNCHANGED <<generation, owner, gen>>

VerdictIsTheWorks(r) ==
  /\ owner[r] \in Work /\ gen[r] = generation[owner[r]] /\ SameIdentities
  /\ runStatus'[r] = "COMPLETED" => state'[owner[r]] = "succeeded"
  /\ runStatus'[r] = "CANCELLED" => state'[owner[r]] = "cancelled"

TruthfulStep ==
  /\ RowsKeepIdentity
  /\ \A r \in RunId : runStatus'[r] # runStatus[r] => VerdictIsTheWorks(r)

LEMMA StatusOfState ==
  ASSUME NEW to
  PROVE  /\ RunStatusForState(to) = "COMPLETED" => to = "succeeded"
         /\ RunStatusForState(to) = "CANCELLED" => to = "cancelled"
BY DEF RunStatusForState

LEMMA StatusOfResolution ==
  ASSUME NEW to, to \in {"queued", "succeeded", "failed", "cancelled"}
  PROVE  RunStatusForState(to) # "unset"
BY DEF RunStatusForState

LEMMA StatusOfChat ==
  ASSUME NEW status
  PROVE  /\ status = "COMPLETED" => ChatTarget(status) = "succeeded"
         /\ status = "CANCELLED" => ChatTarget(status) = "cancelled"
BY DEF ChatTarget

LEMMA TruthStep ==
  ASSUME TypeOK, Fence, [Next]_vars
  PROVE  TruthfulStep
<1> USE WorkAssumption, LimitsAssumption
<1> USE DEF TruthfulStep, RowsKeepIdentity, SameIdentities
<1>1. ASSUME NEW w \in Work, AcceptTx(w) \/ RequestCancel(w)
      PROVE  TruthfulStep
  BY <1>1 DEF AcceptTx, RequestCancel, attemptVars, outcomeVars
<1>3. ASSUME NEW mine \in Kinds, ClaimNothing(mine)
      PROVE  TruthfulStep
  BY <1>3 DEF ClaimNothing, attemptVars, outcomeVars
<1>4. ASSUME NEW mine \in Kinds, NEW r \in RunId, Claim(mine, r)
      PROVE  TruthfulStep
  BY <1>4 DEF TypeOK, Claim, StartAttempt, Fresh, outcomeVars
<1>5. ASSUME NEW w \in Work, NEW r \in RunId, NEW g \in Generations, Worker(w, r, g)
      PROVE  TruthfulStep
  <2>1. CASE MarkStarting(w, r, g) \/ MarkRuntimeRequested(w, r, g) \/ StartRunning(w, r, g)
    BY <2>1 DEF MarkStarting, MarkRuntimeRequested, StartRunning, outcomeVars
  <2>2. ASSUME NEW to \in Targets, NEW why \in {"plain", "stopped", "retained"},
               Transition(w, r, g, to, why)
        PROVE  TruthfulStep
    <3> DEFINE into == Landing(w, to)
    <3>1. Bound(w, r, g) /\ SameIdentities /\ state' = [state EXCEPT ![w] = into]
      BY <2>2 DEF Transition, SetState
    <3>2. PICK status : /\ runStatus' = [runStatus EXCEPT ![r] = status]
                        /\ status \in {runStatus[r], "FAILED", RunStatusForState(into)}
      BY <2>2 DEF Transition, EndAttempt, TypeOK
    <3>3. runStatus[r] = "unset" /\ owner[r] = w /\ gen[r] = generation[w]
      BY <3>1 DEF Bound, Fence, OpenIsCurrent
    <3>4. /\ status = "COMPLETED" => into = "succeeded"
          /\ status = "CANCELLED" => into = "cancelled"
      BY <3>2, <3>3, StatusOfState
    <3> HIDE DEF into
    <3> QED
      BY <3>1, <3>2, <3>3, <3>4 DEF VerdictIsTheWorks, TypeOK
  <2>3. CASE Defer(w, r, g)
    BY <2>3 DEF TypeOK, Defer, EndAttempt
  <2>4. ASSUME NEW x \in Outputs, StageRunResult(w, r, g, x)
        PROVE  TruthfulStep
    BY <2>4 DEF StageRunResult, attemptVars
  <2> QED
    BY <1>5, <2>1, <2>2, <2>3, <2>4 DEF Worker
<1>6. ASSUME NEW r \in RunId, NEW g \in Generations, Heartbeat(r, g)
      PROVE  TruthfulStep
  BY <1>6 DEF Heartbeat, attemptVars, outcomeVars
<1>7. CASE RecoverExpiredLeases
  BY <1>7 DEF RecoverExpiredLeases
<1>8. ASSUME NEW w \in Work, NEW g \in Generations, NEW to \in States, Resolve(w, g, to)
      PROVE  TruthfulStep
  BY <1>8, StatusOfState DEF TypeOK, Resolve, SetState, Unsettled, VerdictIsTheWorks, attemptVars
<1>9. ASSUME NEW w \in HostChat, NEW r \in RunId, BeginHostChat(w, r)
      PROVE  TruthfulStep
  BY <1>9 DEF TypeOK, BeginHostChat, StartAttempt, Fresh, outcomeVars
<1>10. ASSUME NEW r \in RunId, Chatter(r)
       PROVE  TruthfulStep
  <2>1. ASSUME NEW step \in {"request", "started", "heartbeat"}, HostChatPhase(r, step)
        PROVE  TruthfulStep
    BY <2>1 DEF HostChatPhase, MarkRuntimeRequested, StartRunning, Heartbeat, attemptVars,
                outcomeVars
  <2>2. ASSUME NEW status \in Verdicts, NEW exit \in Outputs,
               NEW creation \in {"requested", "refused"},
               FinishHostChat(r, status, exit, creation)
        PROVE  TruthfulStep
    <3>1. owner[r] \in Work /\ gen[r] = generation[owner[r]] /\ SameIdentities
      BY <2>2 DEF FinishHostChat, Bound, Fence, OpenIsCurrent
    <3>2. CASE Known(r, exit, creation)
      <4>1. SetState(owner[r], ChatTarget(status))
            /\ runStatus' = [runStatus EXCEPT ![r] = status]
        BY <2>2, <3>2 DEF FinishHostChat, EndAttempt
      <4> QED
        BY <3>1, <4>1, StatusOfChat DEF VerdictIsTheWorks, SetState, TypeOK
    <3>3. CASE ~ Known(r, exit, creation)
      <4>1. runStatus' = [runStatus EXCEPT ![r] = "unset"]
        BY <2>2, <3>3 DEF FinishHostChat, UnknownOutcome, EndAttempt
      <4> QED
        BY <3>1, <4>1 DEF VerdictIsTheWorks, TypeOK
    <3> QED
      BY <3>2, <3>3
  <2> QED
    BY <1>10, <2>1, <2>2 DEF Chatter
<1>11. ASSUME NEW r \in RunId, NEW x \in Outputs \cap Exits, NEW ok \in BOOLEAN,
              RecoverRetainedResult(r, x, ok)
       PROVE  TruthfulStep
  <2>1. owner[r] \in Work /\ gen[r] = generation[owner[r]] /\ SameIdentities
    BY <1>11 DEF RecoverRetainedResult, Settleable, Fence, RowsAreOwned, TypeOK, attemptVars
  <2>2. CASE ok = TRUE
    BY <1>11, <2>1, <2>2 DEF RecoverRetainedResult, VerdictIsTheWorks, SetState, TypeOK
  <2>3. CASE ok = FALSE
    BY <1>11, <2>1, <2>3 DEF RecoverRetainedResult, VerdictIsTheWorks, TypeOK
  <2> QED
    BY <2>2, <2>3
<1>12. ASSUME NEW r \in RunId, DeliverRun(r) \/ MarkRunProjected(r)
       PROVE  TruthfulStep
  BY <1>12 DEF DeliverRun, MarkRunProjected, attemptVars, outcomeVars
<1>13. CASE Clock
  BY <1>13 DEF Clock, LeaseLapse, BecomeEligible, DeadlinePass, LegacyRun, attemptVars, outcomeVars
<1>14. CASE UNCHANGED vars
  BY <1>14 DEF vars, attemptVars, outcomeVars
<1> QED
  BY <1>1, <1>3, <1>4, <1>5, <1>6, <1>7, <1>8, <1>9, <1>10, <1>11, <1>12, <1>13, <1>14 DEF Next

\* A run is reported COMPLETED or CANCELLED only as the current attempt of an
\* item that ended that way, and stays so.
THEOREM ReportsAreTruthful == Spec => []ReportedOutcomeIsTheWorks
<1>1. Init => ReportedOutcomeIsTheWorks
  BY DEF Init, ReportedOutcomeIsTheWorks
<1>2. ASSUME TypeOK, Fence, ReportedOutcomeIsTheWorks, [Next]_vars
      PROVE  ReportedOutcomeIsTheWorks'
  <2>1. TruthfulStep /\ KeepsOutcomes /\ TypeOK'
    BY <1>2, TruthStep, OutcomeStep, TypeStep
  <2>2. ASSUME NEW r \in RunId, runStatus'[r] \in {"COMPLETED", "CANCELLED"}
        PROVE  /\ runStatus'[r] = "COMPLETED" =>
                    state'[owner'[r]] = "succeeded" /\ gen'[r] = generation'[owner'[r]]
               /\ runStatus'[r] = "CANCELLED" =>
                    state'[owner'[r]] = "cancelled" /\ gen'[r] = generation'[owner'[r]]
    <3>1. CASE runStatus'[r] # runStatus[r]
      BY <2>1, <3>1 DEF TruthfulStep, VerdictIsTheWorks, SameIdentities
    <3>2. CASE runStatus'[r] = runStatus[r]
      <4>1. phase[r] # "none" /\ owner[r] \in Work
        BY <1>2, <2>2, <3>2 DEF Fence, RowsAreOwned, TypeOK
      <4>2. owner'[r] = owner[r] /\ gen'[r] = gen[r]
        BY <2>1, <4>1 DEF TruthfulStep, RowsKeepIdentity
      <4> QED
        BY <1>2, <2>1, <2>2, <3>2, <4>1, <4>2
           DEF ReportedOutcomeIsTheWorks, KeepsOutcomes, Terminal
    <3> QED
      BY <3>1, <3>2
  <2> QED
    BY <2>2 DEF ReportedOutcomeIsTheWorks
<1> QED
  BY <1>1, <1>2, TypeCorrect, FenceHolds, PTL DEF Spec

LEMMA DeliveryStep ==
  ASSUME TypeOK, [Next]_vars
  PROVE  \A r \in RunId : \/ delivered'[r] = delivered[r]
                          \/ delivered'[r] = runStatus[r] /\ runStatus[r] # "unset"
<1>1. ASSUME NEW r \in RunId, DeliverRun(r)
      PROVE  \A s \in RunId : \/ delivered'[s] = delivered[s]
                              \/ delivered'[s] = runStatus[s] /\ runStatus[s] # "unset"
  BY <1>1 DEF DeliverRun, Ready, TypeOK
<1>2. ASSUME NEW w \in Work, NEW r \in RunId, NEW g \in Generations, Worker(w, r, g)
      PROVE  UNCHANGED delivered
  BY <1>2 DEF Worker, MarkStarting, MarkRuntimeRequested, StartRunning, Transition, Defer,
              StageRunResult, projectionVars
<1>3. ASSUME NEW r \in RunId, Chatter(r)
      PROVE  UNCHANGED delivered
  BY <1>3 DEF Chatter, HostChatPhase, FinishHostChat, MarkRuntimeRequested, StartRunning,
              Heartbeat, projectionVars
<1>4. CASE Clock \/ RecoverExpiredLeases \/ UNCHANGED vars
  BY <1>4 DEF Clock, LeaseLapse, BecomeEligible, DeadlinePass, LegacyRun, RecoverExpiredLeases,
              vars, projectionVars
<1>5. ASSUME NEW w \in Work, AcceptTx(w) \/ RequestCancel(w)
      PROVE  UNCHANGED delivered
  BY <1>5 DEF AcceptTx, RequestCancel, projectionVars
<1>6. ASSUME NEW w \in Work, NEW g \in Generations, NEW to \in States, Resolve(w, g, to)
      PROVE  UNCHANGED delivered
  BY <1>6 DEF Resolve, projectionVars
<1>7. ASSUME NEW w \in HostChat, NEW r \in RunId, BeginHostChat(w, r)
      PROVE  UNCHANGED delivered
  BY <1>7 DEF BeginHostChat, projectionVars
<1>8. ASSUME NEW mine \in Kinds, ClaimNothing(mine) \/ \E r \in RunId : Claim(mine, r)
      PROVE  UNCHANGED delivered
  BY <1>8 DEF ClaimNothing, Claim, projectionVars
<1>9. ASSUME NEW r \in RunId, NEW g \in Generations, Heartbeat(r, g)
      PROVE  UNCHANGED delivered
  BY <1>9 DEF Heartbeat, projectionVars
<1>10. ASSUME NEW r \in RunId, NEW x \in Outputs \cap Exits, NEW ok \in BOOLEAN,
              RecoverRetainedResult(r, x, ok)
       PROVE  UNCHANGED delivered
  BY <1>10 DEF RecoverRetainedResult, projectionVars
<1>11. ASSUME NEW r \in RunId, MarkRunProjected(r)
       PROVE  UNCHANGED delivered
  BY <1>11 DEF MarkRunProjected
<1> QED
  BY <1>1, <1>2, <1>3, <1>4, <1>5, <1>6, <1>7, <1>8, <1>9, <1>10, <1>11 DEF Next

\* The run journal is never told a status that the ledger later contradicts.
THEOREM JournalNeverContradicted == Spec => []JournalAgrees
<1>1. Init => JournalAgrees
  BY DEF Init, JournalAgrees
<1>2. ASSUME TypeOK, Fence, JournalAgrees, [Next]_vars
      PROVE  JournalAgrees'
  <2>1. KeepsOutcomes
    BY <1>2, OutcomeStep
  <2> QED
    BY <1>2, <2>1, DeliveryStep DEF JournalAgrees, KeepsOutcomes
<1> QED
  BY <1>1, <1>2, TypeCorrect, FenceHolds, PTL DEF Spec

-----------------------------------------------------------------------------
(***************************************************************************)
(* Sessions and limits: an item enters its session, and takes a slot, only *)
(* by a claim that found the session free and the limits not reached, so   *)
(* every other step shrinks the set of turns.                              *)
(***************************************************************************)
EntersAlone(w) ==
  \A v \in Work \ {w} :
    /\ state'[v] \in OccupiesSession => state[v] \in OccupiesSession
    /\ SessionOf[w] # Nothing /\ SessionOf[v] = SessionOf[w] => state[v] \notin OccupiesSession

\* The claim counted every slot, and nothing but slots and rows of the old executor
EntersAdmitted(w) ==
  \E live \in SUBSET (Slots \cup legacy) :
    Slots \subseteq live /\ ServerAdmits(w, live) /\ AgentAdmits(w, live) /\ CrewAdmits(w, live)

NobodyEnters ==
  \A v \in Work : state'[v] \in OccupiesSession => state[v] \in OccupiesSession

LEMMA EntryStep ==
  ASSUME TypeOK, Fence, [Next]_vars
  PROVE  NobodyEnters \/ \E w \in Work : EntersAlone(w) /\ EntersAdmitted(w)
<1> USE WorkAssumption, LimitsAssumption
<1> USE DEF NobodyEnters, OccupiesSession, HoldsExecutionSlot
<1>1. ASSUME NEW w \in Work, AcceptTx(w)
      PROVE  NobodyEnters
  BY <1>1 DEF TypeOK, AcceptTx, SetState
<1>2. ASSUME NEW w \in Work, RequestCancel(w)
      PROVE  NobodyEnters
  BY <1>2 DEF TypeOK, RequestCancel, Cancellable, Claimable, SetState, States, Terminal
<1>3. ASSUME NEW mine \in Kinds, ClaimNothing(mine)
      PROVE  NobodyEnters
  BY <1>3 DEF ClaimNothing, FailWork, AfterExpiry
<1>4. ASSUME NEW mine \in Kinds, NEW r \in RunId, Claim(mine, r)
      PROVE  \E w \in Work : EntersAlone(w) /\ EntersAdmitted(w)
  <2>1. PICK w \in Candidates(mine), failed \in SUBSET Candidates(mine) :
          state' = [FailWork(AfterExpiry, failed) EXCEPT ![w] = "starting"]
    BY <1>4 DEF Claim
  <2> DEFINE live == LiveSlots(AfterExpiry)
  <2>2. w \in Work /\ SessionFree(w, AfterExpiry, live)
        /\ ServerAdmits(w, live) /\ AgentAdmits(w, live) /\ CrewAdmits(w, live)
    BY DEF Candidates, Admits
  <2>3. \A v \in Work : state[v] \in OccupiesSession => AfterExpiry[v] = state[v]
    BY DEF AfterExpiry, Claimable
  <2>4. \A v \in Work \ {w} : state'[v] \in OccupiesSession => state[v] \in OccupiesSession
    BY <2>1 DEF FailWork, AfterExpiry
  <2>5. \A v \in Work : SessionOf[w] # Nothing /\ SessionOf[v] = SessionOf[w]
                        => state[v] \notin OccupiesSession
    BY <2>2, <2>3 DEF SessionFree
  <2>6. Slots \subseteq live /\ live \subseteq Slots \cup legacy
    BY <2>3 DEF LiveSlots, Slots, AfterExpiry
  <2> HIDE DEF live
  <2>7. EntersAdmitted(w)
    BY <2>2, <2>6 DEF EntersAdmitted
  <2> QED
    BY <2>2, <2>4, <2>5, <2>7 DEF EntersAlone
<1>5. ASSUME NEW w \in Work, NEW r \in RunId, NEW g \in Generations, Worker(w, r, g)
      PROVE  NobodyEnters
  <2>1. CASE MarkStarting(w, r, g) \/ MarkRuntimeRequested(w, r, g)
    BY <2>1 DEF MarkStarting, MarkRuntimeRequested, itemVars
  <2>2. CASE StartRunning(w, r, g)
    BY <2>2 DEF TypeOK, StartRunning, Bound, SetState, Fence, OpenIsCurrent, Executing
  <2>3. ASSUME NEW to \in Targets, NEW why \in {"plain", "stopped", "retained"},
               Transition(w, r, g, to, why)
        PROVE  NobodyEnters
    BY <2>3 DEF TypeOK, Transition, Bound, SetState, Fence, OpenIsCurrent, Executing
  <2>4. CASE Defer(w, r, g)
    BY <2>4 DEF TypeOK, Defer, SetState
  <2>5. ASSUME NEW x \in Outputs, StageRunResult(w, r, g, x)
        PROVE  NobodyEnters
    BY <2>5 DEF StageRunResult, itemVars
  <2> QED
    BY <1>5, <2>1, <2>2, <2>3, <2>4, <2>5 DEF Worker
<1>6. ASSUME NEW r \in RunId, NEW g \in Generations, Heartbeat(r, g)
      PROVE  NobodyEnters
  BY <1>6 DEF Heartbeat, itemVars
<1>7. CASE RecoverExpiredLeases
  <2>1. \A v \in Work : state'[v] = state[v] \/ \E r \in RunId : Expired(r) /\ owner[r] = v
    BY <1>7 DEF RecoverExpiredLeases
  <2>2. NobodyEnters
    BY <2>1 DEF Expired, Live
  <2> QED
    BY <2>2
<1>8. ASSUME NEW w \in Work, NEW g \in Generations, NEW to \in States, Resolve(w, g, to)
      PROVE  NobodyEnters
  BY <1>8 DEF TypeOK, Resolve, SetState
<1>9. ASSUME NEW w \in HostChat, NEW r \in RunId, BeginHostChat(w, r)
      PROVE  \E v \in Work : EntersAlone(v) /\ EntersAdmitted(v)
  <2> DEFINE accepted == [state EXCEPT ![w] = "queued"]
             live == LiveSlots(accepted)
  <2>1. w \in Work /\ SessionFree(w, accepted, live)
        /\ ServerAdmits(w, live) /\ AgentAdmits(w, live) /\ CrewAdmits(w, live)
        /\ state[w] = "absent" /\ state' = [state EXCEPT ![w] = "starting"]
    BY <1>9 DEF BeginHostChat, Admits, SetState
  <2>2. \A v \in Work \ {w} : accepted[v] = state[v] /\ state'[v] = state[v]
    BY <2>1 DEF TypeOK
  <2>3. accepted[w] = "queued"
    BY <2>1 DEF TypeOK
  <2>4. Slots \subseteq live /\ live \subseteq Slots \cup legacy
    BY <2>1, <2>2, <2>3 DEF LiveSlots, Slots
  <2> HIDE DEF accepted, live
  <2>5. EntersAlone(w)
    BY <2>1, <2>2 DEF EntersAlone, SessionFree
  <2>6. EntersAdmitted(w)
    BY <2>1, <2>4 DEF EntersAdmitted
  <2> QED
    BY <2>1, <2>5, <2>6
<1>10. ASSUME NEW r \in RunId, Chatter(r)
       PROVE  NobodyEnters
  <2>1. ASSUME NEW step \in {"request", "started", "heartbeat"}, HostChatPhase(r, step)
        PROVE  NobodyEnters
    <3>1. CASE MarkRuntimeRequested(owner[r], r, gen[r])
      BY <3>1 DEF MarkRuntimeRequested, itemVars
    <3>2. CASE StartRunning(owner[r], r, gen[r])
      BY <3>2 DEF TypeOK, StartRunning, Bound, SetState, Fence, OpenIsCurrent, Executing
    <3>3. CASE Heartbeat(r, gen[r])
      BY <3>3 DEF Heartbeat, itemVars
    <3> QED
      BY <2>1, <3>1, <3>2, <3>3 DEF HostChatPhase
  <2>2. ASSUME NEW status \in Verdicts, NEW exit \in Outputs,
               NEW creation \in {"requested", "refused"},
               FinishHostChat(r, status, exit, creation)
        PROVE  NobodyEnters
    <3>1. state[owner[r]] \in OccupiesSession
      BY <2>2 DEF FinishHostChat, Bound, Fence, OpenIsCurrent, Executing
    <3>2. \A v \in Work \ {owner[r]} : state'[v] = state[v]
      BY <2>2 DEF TypeOK, FinishHostChat, UnknownOutcome, SetState
    <3> QED
      BY <3>1, <3>2
  <2> QED
    BY <1>10, <2>1, <2>2 DEF Chatter
<1>11. ASSUME NEW r \in RunId, NEW x \in Outputs \cap Exits, NEW ok \in BOOLEAN,
              RecoverRetainedResult(r, x, ok)
       PROVE  NobodyEnters
  BY <1>11 DEF TypeOK, RecoverRetainedResult, SetState
<1>12. ASSUME NEW r \in RunId, DeliverRun(r) \/ MarkRunProjected(r)
       PROVE  NobodyEnters
  BY <1>12 DEF DeliverRun, MarkRunProjected, itemVars
<1>13. CASE Clock
  BY <1>13 DEF Clock, LeaseLapse, BecomeEligible, DeadlinePass, LegacyRun, itemVars
<1>14. CASE UNCHANGED vars
  BY <1>14 DEF vars, itemVars
<1> HIDE DEF NobodyEnters
<1> QED
  BY <1>1, <1>2, <1>3, <1>4, <1>5, <1>6, <1>7, <1>8, <1>9, <1>10, <1>11, <1>12, <1>13, <1>14
     DEF Next

\* Two turns of one conversation never run, wait or lie parked at the same time,
\* whichever dispatcher or chat handler claimed them.
THEOREM SessionsHaveOneTurn == Spec => []OneTurnPerSession
<1>1. Init => OneTurnPerSession
  BY DEF Init, OneTurnPerSession, OccupiesSession, HoldsExecutionSlot
<1>2. ASSUME TypeOK, Fence, OneTurnPerSession, [Next]_vars
      PROVE  OneTurnPerSession'
  <2>1. CASE NobodyEnters
    BY <1>2, <2>1 DEF OneTurnPerSession, NobodyEnters
  <2>2. ASSUME NEW w \in Work, EntersAlone(w)
        PROVE  OneTurnPerSession'
    BY <1>2, <2>2 DEF OneTurnPerSession, EntersAlone
  <2> QED
    BY <1>2, <2>1, <2>2, EntryStep
<1> QED
  BY <1>1, <1>2, TypeCorrect, FenceHolds, PTL DEF Spec

-----------------------------------------------------------------------------
(***************************************************************************)
(* Parked attempts.  Given the fence, ParkedHoldsItsSlot is inductive: who *)
(* moves an item out of needs_reconciliation settles the parked attempt in *)
(* the same step, because generations tell it apart from every other one.  *)
(***************************************************************************)
LEMMA ParkedKept ==
  ASSUME ParkedHoldsItsSlot, parked' \subseteq parked,
         \A r \in parked : owner'[r] = owner[r] /\ gen'[r] = gen[r] /\ runStatus'[r] = runStatus[r],
         \A w \in Work : state[w] = "needs_reconciliation" =>
                           state'[w] = state[w] /\ generation'[w] = generation[w]
  PROVE  ParkedHoldsItsSlot'
BY DEF ParkedHoldsItsSlot

\* Closing attempts may park them, in an item that goes to needs_reconciliation
LEMMA ParkedOnClosing ==
  ASSUME TypeOK, Fence, ParkedHoldsItsSlot,
         NEW gone \in SUBSET open, parked' \subseteq parked \cup gone,
         UNCHANGED <<generation, owner, gen>>,
         \A r \in RunId \ gone : runStatus'[r] = runStatus[r],
         \A w \in Work : (\A r \in gone : owner[r] # w) => state'[w] = state[w],
         \A r \in parked' \cap gone : runStatus'[r] = "unset" =>
                                        state'[owner[r]] = "needs_reconciliation"
  PROVE  ParkedHoldsItsSlot'
<1> SUFFICES ASSUME NEW r \in parked'
             PROVE  /\ owner[r] \in Work
                    /\ runStatus'[r] = "unset" => /\ state'[owner[r]] = "needs_reconciliation"
                                                  /\ gen[r] = generation[owner[r]]
  BY DEF ParkedHoldsItsSlot
<1>1. CASE r \in gone
  BY <1>1 DEF Fence, OpenIsCurrent
<1>2. CASE r \notin gone
  <2>1. r \in parked /\ r \in RunId /\ owner[r] \in Work
    BY <1>2 DEF TypeOK, ParkedHoldsItsSlot
  <2>2. ASSUME runStatus'[r] = "unset"
        PROVE  state[owner[r]] = "needs_reconciliation" /\ gen[r] = generation[owner[r]]
    BY <1>2, <2>1, <2>2 DEF ParkedHoldsItsSlot
  <2>3. \A s \in gone : state[owner[s]] \in Executing
    BY DEF Fence, OpenIsCurrent
  <2> QED
    BY <2>1, <2>2, <2>3 DEF Executing
<1> QED
  BY <1>1, <1>2

LEMMA ParkedStep ==
  ASSUME TypeOK, Fence, ParkedHoldsItsSlot, [Next]_vars
  PROVE  ParkedHoldsItsSlot'
<1> USE WorkAssumption, LimitsAssumption
<1>0. parked \subseteq RunId /\ \A r \in parked : owner[r] \in Work /\ phase[r] # "none"
  BY DEF TypeOK, Fence, RowsAreOwned, ParkedHoldsItsSlot
<1>1. ASSUME NEW w \in Work, AcceptTx(w)
      PROVE  ParkedHoldsItsSlot'
  BY <1>1, ParkedKept DEF TypeOK, AcceptTx, SetState, attemptVars, outcomeVars
<1>2. ASSUME NEW w \in Work, RequestCancel(w)
      PROVE  ParkedHoldsItsSlot'
  <2>1. \A v \in Work : state[v] = "needs_reconciliation" => state'[v] = state[v]
    BY <1>2 DEF TypeOK, RequestCancel, SetState, Claimable
  <2> QED
    BY <1>2, <2>1, ParkedKept DEF RequestCancel, outcomeVars
<1>3. ASSUME NEW mine \in Kinds, ClaimNothing(mine)
      PROVE  ParkedHoldsItsSlot'
  <2>1. \A v \in Work : state[v] = "needs_reconciliation" => state'[v] = state[v]
    BY <1>3 DEF ClaimNothing, FailWork, Candidates, AfterExpiry, Claimable
  <2> QED
    BY <1>3, <2>1, ParkedKept DEF ClaimNothing, attemptVars, outcomeVars
<1>4. ASSUME NEW mine \in Kinds, NEW r \in RunId, Claim(mine, r)
      PROVE  ParkedHoldsItsSlot'
  <2>1. PICK w \in Candidates(mine), failed \in SUBSET Candidates(mine) :
          /\ state' = [FailWork(AfterExpiry, failed) EXCEPT ![w] = "starting"]
          /\ StartAttempt(w, r, "planned")
    BY <1>4 DEF Claim
  <2>2. \A v \in Candidates(mine) : v \in Work /\ state[v] \in Claimable
    BY DEF Candidates, AfterExpiry, Claimable
  <2>3. \A v \in Work : state[v] = "needs_reconciliation" =>
                          state'[v] = state[v] /\ generation'[v] = generation[v]
    BY <2>1, <2>2 DEF FailWork, AfterExpiry, Claimable, StartAttempt, TypeOK
  <2>4. \A s \in parked : owner'[s] = owner[s] /\ gen'[s] = gen[s]
    BY <1>0, <1>4, <2>1 DEF Claim, Fresh, StartAttempt, TypeOK
  <2> QED
    BY <1>4, <2>3, <2>4, ParkedKept DEF Claim, outcomeVars
<1>5. ASSUME NEW w \in Work, NEW r \in RunId, NEW g \in Generations, Worker(w, r, g)
      PROVE  ParkedHoldsItsSlot'
  <2>1. CASE MarkStarting(w, r, g) \/ MarkRuntimeRequested(w, r, g)
    BY <2>1, ParkedKept DEF MarkStarting, MarkRuntimeRequested, itemVars, outcomeVars
  <2>2. CASE StartRunning(w, r, g)
    BY <2>2, ParkedKept
       DEF TypeOK, StartRunning, Bound, SetState, Fence, OpenIsCurrent, Executing, outcomeVars
  <2>3. ASSUME NEW to \in Targets, NEW why \in {"plain", "stopped", "retained"},
               Transition(w, r, g, to, why)
        PROVE  ParkedHoldsItsSlot'
    <3> DEFINE into == Landing(w, to)
    <3>1. r \in open /\ owner[r] = w /\ state' = [state EXCEPT ![w] = into]
          /\ UNCHANGED <<generation, owner, gen>>
      BY <2>3 DEF Transition, Bound, SetState
    <3>2. CASE Closes(into)
      <4>1. \A s \in RunId \ {r} : runStatus'[s] = runStatus[s]
        BY <2>3, <3>2 DEF Transition, EndAttempt, TypeOK
      <4>2. parked' = IF why = "retained" THEN parked \cup {r} ELSE parked
        BY <2>3, <3>2 DEF Transition, EndAttempt
      <4>3. why = "retained" => into = "needs_reconciliation"
        BY <2>3 DEF Transition, Landing
      <4>4. r \notin parked
        BY <3>1 DEF ParkedHoldsItsSlot, Fence, OpenIsCurrent, Executing
      <4>5. {r} \in SUBSET open
        BY <3>1
      <4>6. \A v \in Work : (\A s \in {r} : owner[s] # v) => state'[v] = state[v]
        BY <3>1 DEF TypeOK
      <4>7. \A s \in parked' \cap {r} : state'[owner[s]] = "needs_reconciliation"
        BY <3>1, <4>2, <4>3, <4>4 DEF TypeOK
      <4>8. parked' \subseteq parked \cup {r}
        BY <4>2
      <4> HIDE DEF into
      <4> QED
        BY <3>1, <4>1, <4>5, <4>6, <4>7, <4>8, ParkedOnClosing
    <3>3. CASE ~ Closes(into)
      BY <2>3, <3>1, <3>3, ParkedKept DEF Transition, TypeOK, Fence, OpenIsCurrent, Executing
    <3> QED
      BY <3>2, <3>3
  <2>4. CASE Defer(w, r, g)
    <3>1. r \in open /\ owner[r] = w /\ UNCHANGED <<generation, owner, gen, parked>>
          /\ \A s \in RunId : runStatus'[s] = runStatus[s]
      BY <2>4 DEF Defer, Bound, EndAttempt, TypeOK
    <3>2. \A v \in Work \ {w} : state'[v] = state[v]
      BY <2>4 DEF Defer, SetState, TypeOK
    <3>3. state[w] \in Executing
      BY <3>1 DEF Fence, OpenIsCurrent
    <3> QED
      BY <1>0, <3>1, <3>2, <3>3, ParkedKept DEF Executing
  <2>5. ASSUME NEW x \in Outputs, StageRunResult(w, r, g, x)
        PROVE  ParkedHoldsItsSlot'
    BY <2>5, ParkedKept DEF StageRunResult, itemVars, attemptVars
  <2> QED
    BY <1>5, <2>1, <2>2, <2>3, <2>4, <2>5 DEF Worker
<1>6. ASSUME NEW r \in RunId, NEW g \in Generations, Heartbeat(r, g)
      PROVE  ParkedHoldsItsSlot'
  BY <1>6, ParkedKept DEF Heartbeat, itemVars, attemptVars, outcomeVars
<1>7. CASE RecoverExpiredLeases
  <2> DEFINE gone == {r \in RunId : Expired(r)}
  <2>1. gone \in SUBSET open
    BY DEF Expired
  <2>2. \A r, s \in gone : owner[r] = owner[s] => r = s
    BY <2>1 DEF Fence, OpenIsCurrent, GenerationsDistinct, TypeOK
  <2>3. /\ parked' = parked \cup {r \in gone : phase[r] # "planned"}
        /\ UNCHANGED <<generation, owner, gen, runStatus>>
        /\ state' = [w \in Work |-> IF \E r \in gone : owner[r] = w
                                    THEN RecoveredTo(CHOOSE r \in gone : owner[r] = w)
                                    ELSE state[w]]
    BY <1>7 DEF RecoverExpiredLeases
  <2>4. \A r \in gone : owner[r] \in Work /\ r \notin parked
    BY <2>1 DEF ParkedHoldsItsSlot, Fence, OpenIsCurrent, Executing
  <2> HIDE DEF gone
  <2>5. ASSUME NEW r \in parked' \cap gone
        PROVE  state'[owner[r]] = "needs_reconciliation"
    <3>1. (CHOOSE s \in gone : owner[s] = owner[r]) = r
      BY <2>2
    <3>2. state'[owner[r]] = RecoveredTo(r)
      BY <2>3, <2>4, <3>1
    <3>3. phase[r] # "planned"
      BY <2>3, <2>4
    <3> QED
      BY <3>2, <3>3 DEF RecoveredTo
  <2>6. \A w \in Work : (\A r \in gone : owner[r] # w) => state'[w] = state[w]
    BY <2>3
  <2>7. parked' \subseteq parked \cup gone
    BY <2>3
  <2> QED
    BY <2>1, <2>3, <2>5, <2>6, <2>7, ParkedOnClosing
<1>8. ASSUME NEW w \in Work, NEW g \in Generations, NEW to \in States, Resolve(w, g, to)
      PROVE  ParkedHoldsItsSlot'
  <2>1. /\ UNCHANGED <<generation, owner, gen, parked>> /\ state' = [state EXCEPT ![w] = to]
        /\ runStatus' = [r \in RunId |-> IF r \in Unsettled(w, g)
                                         THEN RunStatusForState(to) ELSE runStatus[r]]
        /\ generation[w] = g /\ state[w] = "needs_reconciliation"
    BY <1>8 DEF Resolve, SetState, attemptVars
  <2>2. RunStatusForState(to) # "unset"
    BY <1>8 DEF Resolve, CanTransition, Allowed, RunStatusForState
  <2>3. \A r \in parked : runStatus[r] = "unset" /\ owner[r] = w => r \in Unsettled(w, g)
    BY <1>0, <2>1 DEF ParkedHoldsItsSlot, Unsettled, Fence, OpenIsCurrent, Executing
  <2> QED
    BY <1>0, <2>1, <2>2, <2>3 DEF ParkedHoldsItsSlot, TypeOK
<1>9. ASSUME NEW w \in HostChat, NEW r \in RunId, BeginHostChat(w, r)
      PROVE  ParkedHoldsItsSlot'
  <2>1. \A s \in parked : owner'[s] = owner[s] /\ gen'[s] = gen[s]
    BY <1>0, <1>9 DEF BeginHostChat, Fresh, StartAttempt, TypeOK
  <2> QED
    BY <1>9, <2>1, ParkedKept DEF TypeOK, BeginHostChat, StartAttempt, SetState, outcomeVars
<1>10. ASSUME NEW r \in RunId, Chatter(r)
       PROVE  ParkedHoldsItsSlot'
  <2>1. ASSUME NEW step \in {"request", "started", "heartbeat"}, HostChatPhase(r, step)
        PROVE  ParkedHoldsItsSlot'
    <3>1. CASE MarkRuntimeRequested(owner[r], r, gen[r])
      BY <3>1, ParkedKept DEF MarkRuntimeRequested, itemVars, outcomeVars
    <3>2. CASE StartRunning(owner[r], r, gen[r])
      BY <3>2, ParkedKept
         DEF TypeOK, StartRunning, Bound, SetState, Fence, OpenIsCurrent, Executing, outcomeVars
    <3>3. CASE Heartbeat(r, gen[r])
      BY <3>3, ParkedKept DEF Heartbeat, itemVars, attemptVars, outcomeVars
    <3> QED
      BY <2>1, <3>1, <3>2, <3>3 DEF HostChatPhase
  <2>2. ASSUME NEW status \in Verdicts, NEW exit \in Outputs,
               NEW creation \in {"requested", "refused"},
               FinishHostChat(r, status, exit, creation)
        PROVE  ParkedHoldsItsSlot'
    <3>1. r \in open /\ owner[r] \in Work /\ UNCHANGED <<generation, owner, gen>>
      BY <2>2 DEF FinishHostChat, HostChatRun
    <3>2. {r} \in SUBSET open /\ r \notin parked
      BY <3>1 DEF ParkedHoldsItsSlot, Fence, OpenIsCurrent, Executing
    <3>3. \A s \in RunId \ {r} : runStatus'[s] = runStatus[s]
      BY <2>2 DEF FinishHostChat, UnknownOutcome, EndAttempt, TypeOK
    <3>4. \A w \in Work : (\A s \in {r} : owner[s] # w) => state'[w] = state[w]
      BY ZenonT(60), <2>2 DEF FinishHostChat, UnknownOutcome, SetState, TypeOK
    <3>5. parked' \subseteq parked \cup {r}
      BY <2>2 DEF FinishHostChat, UnknownOutcome, EndAttempt
    <3>6. \A s \in parked' \cap {r} : state'[owner[s]] = "needs_reconciliation"
      BY <2>2, <3>1, <3>2 DEF FinishHostChat, UnknownOutcome, EndAttempt, SetState, TypeOK
    <3> QED
      BY <3>1, <3>2, <3>3, <3>4, <3>5, <3>6, ParkedOnClosing
  <2> QED
    BY <1>10, <2>1, <2>2 DEF Chatter
<1>11. ASSUME NEW r \in RunId, NEW x \in Outputs \cap Exits, NEW ok \in BOOLEAN,
              RecoverRetainedResult(r, x, ok)
       PROVE  ParkedHoldsItsSlot'
  <2>1. /\ r \in parked /\ owner[r] \in Work /\ gen[r] = generation[owner[r]]
        /\ parked' = parked \ {r} /\ UNCHANGED <<generation, owner, gen>>
    BY <1>0, <1>11 DEF RecoverRetainedResult, Settleable, attemptVars
  <2>2. \A s \in RunId \ {r} : runStatus'[s] = runStatus[s]
    BY <1>11 DEF RecoverRetainedResult, TypeOK
  <2>3. \A w \in Work \ {owner[r]} : state'[w] = state[w]
    BY <1>11 DEF RecoverRetainedResult, SetState, TypeOK
  <2>4. \A s \in parked : owner[s] = owner[r] /\ runStatus[s] = "unset" => s = r
    BY <1>0, <2>1 DEF ParkedHoldsItsSlot, Fence, GenerationsDistinct
  <2> QED
    BY <1>0, <2>1, <2>2, <2>3, <2>4 DEF ParkedHoldsItsSlot
<1>12. ASSUME NEW r \in RunId, DeliverRun(r) \/ MarkRunProjected(r)
       PROVE  ParkedHoldsItsSlot'
  BY <1>12, ParkedKept DEF DeliverRun, MarkRunProjected, itemVars, attemptVars, outcomeVars
<1>13. CASE Clock
  BY <1>13, ParkedKept
     DEF Clock, LeaseLapse, BecomeEligible, DeadlinePass, LegacyRun, itemVars, attemptVars,
         outcomeVars
<1>14. CASE UNCHANGED vars
  BY <1>14, ParkedKept DEF vars, itemVars, attemptVars, outcomeVars
<1> QED
  BY <1>1, <1>2, <1>3, <1>4, <1>5, <1>6, <1>7, <1>8, <1>9, <1>10, <1>11, <1>12, <1>13, <1>14
     DEF Next

\* An attempt whose runtime may be alive is not forgotten: until somebody settles
\* it, its item lies in needs_reconciliation and no newer attempt of it exists.
THEOREM ParkedKeepTheirSlots == Spec => []ParkedHoldsItsSlot
<1>1. Init => ParkedHoldsItsSlot
  BY DEF Init, ParkedHoldsItsSlot
<1>2. TypeOK /\ Fence /\ ParkedHoldsItsSlot /\ [Next]_vars => ParkedHoldsItsSlot'
  BY ParkedStep
<1> QED
  BY <1>1, <1>2, TypeCorrect, FenceHolds, PTL DEF Spec

-----------------------------------------------------------------------------
(***************************************************************************)
(* Limits.  A waiting item gave its slot back and would take one again     *)
(* without being counted, so the limits hold only if no caller asks for    *)
(* that state, as is the case in the shipped server.                       *)
(***************************************************************************)
NobodyWaits == \A w \in Work : state[w] # "waiting"

LEMMA LegacyStep ==
  ASSUME [Next]_vars
  PROVE  UNCHANGED legacy \/ \E w \in Work : legacy' \subseteq legacy \cup {w}
<1>1. ASSUME NEW w \in Work, AcceptTx(w) \/ RequestCancel(w)
      PROVE  UNCHANGED legacy
  BY <1>1 DEF AcceptTx, RequestCancel
<1>2. ASSUME NEW mine \in Kinds, ClaimNothing(mine) \/ \E r \in RunId : Claim(mine, r)
      PROVE  UNCHANGED legacy
  BY <1>2 DEF ClaimNothing, Claim
<1>3. ASSUME NEW w \in Work, NEW r \in RunId, NEW g \in Generations, Worker(w, r, g)
      PROVE  UNCHANGED legacy
  BY <1>3 DEF Worker, MarkStarting, MarkRuntimeRequested, StartRunning, Transition, Defer,
              StageRunResult
<1>4. ASSUME NEW r \in RunId, Chatter(r) \/ (\E g \in Generations : Heartbeat(r, g))
      PROVE  UNCHANGED legacy
  BY <1>4 DEF Chatter, HostChatPhase, FinishHostChat, MarkRuntimeRequested, StartRunning, Heartbeat
<1>5. CASE RecoverExpiredLeases \/ UNCHANGED vars
  BY <1>5 DEF RecoverExpiredLeases, vars
<1>6. ASSUME NEW w \in Work, NEW g \in Generations, NEW to \in States, Resolve(w, g, to)
      PROVE  UNCHANGED legacy
  BY <1>6 DEF Resolve
<1>7. ASSUME NEW w \in HostChat, NEW r \in RunId, BeginHostChat(w, r)
      PROVE  UNCHANGED legacy
  BY <1>7 DEF BeginHostChat
<1>8. ASSUME NEW r \in RunId, NEW x \in Outputs \cap Exits, NEW ok \in BOOLEAN,
             RecoverRetainedResult(r, x, ok)
      PROVE  UNCHANGED legacy
  BY <1>8 DEF RecoverRetainedResult
<1>9. ASSUME NEW r \in RunId, DeliverRun(r) \/ MarkRunProjected(r)
      PROVE  UNCHANGED legacy
  BY <1>9 DEF DeliverRun, MarkRunProjected
<1>10. CASE Clock
  BY <1>10 DEF Clock, LeaseLapse, BecomeEligible, DeadlinePass, LegacyRun
<1> QED
  BY <1>1, <1>2, <1>3, <1>4, <1>5, <1>6, <1>7, <1>8, <1>9, <1>10 DEF Next

LEMMA WaitingStep ==
  ASSUME TypeOK, Fence, NobodyWaits, "waiting" \notin Targets, [Next]_vars
  PROVE  NobodyWaits'
<1> USE WorkAssumption, LimitsAssumption DEF NobodyWaits
<1>1. ASSUME NEW w \in Work, AcceptTx(w) \/ RequestCancel(w)
      PROVE  NobodyWaits'
  BY <1>1 DEF TypeOK, AcceptTx, RequestCancel, SetState
<1>2. ASSUME NEW mine \in Kinds, ClaimNothing(mine)
      PROVE  NobodyWaits'
  BY <1>2 DEF ClaimNothing, FailWork, AfterExpiry
<1>3. ASSUME NEW mine \in Kinds, NEW r \in RunId, Claim(mine, r)
      PROVE  NobodyWaits'
  <2>1. PICK w \in Candidates(mine), failed \in SUBSET Candidates(mine) :
          state' = [FailWork(AfterExpiry, failed) EXCEPT ![w] = "starting"]
    BY <1>3 DEF Claim
  <2> QED
    BY <2>1 DEF FailWork, AfterExpiry
<1>4. ASSUME NEW w \in Work, NEW r \in RunId, NEW g \in Generations, Worker(w, r, g)
      PROVE  NobodyWaits'
  <2>1. CASE \/ MarkStarting(w, r, g) \/ MarkRuntimeRequested(w, r, g)
             \/ \E x \in Outputs : StageRunResult(w, r, g, x)
    BY <2>1 DEF MarkStarting, MarkRuntimeRequested, StageRunResult, itemVars
  <2>2. CASE StartRunning(w, r, g) \/ Defer(w, r, g)
    <3>1. PICK t \in {"running", "cancelled", "queued"} : SetState(w, t)
      BY <2>2 DEF StartRunning, Defer
    <3> QED
      BY <3>1 DEF SetState, TypeOK
  <2>3. ASSUME NEW to \in Targets, NEW why \in {"plain", "stopped", "retained"},
               Transition(w, r, g, to, why)
        PROVE  NobodyWaits'
    BY <2>3 DEF Transition, Landing, SetState, TypeOK
  <2> QED
    BY <1>4, <2>1, <2>2, <2>3 DEF Worker
<1>5. ASSUME NEW r \in RunId, Chatter(r)
      PROVE  NobodyWaits'
  <2>1. ASSUME NEW step \in {"request", "started", "heartbeat"}, HostChatPhase(r, step)
        PROVE  NobodyWaits'
    BY <2>1 DEF HostChatPhase, MarkRuntimeRequested, StartRunning, Heartbeat, SetState, itemVars,
                TypeOK
  <2>2. ASSUME NEW status \in Verdicts, NEW exit \in Outputs,
               NEW creation \in {"requested", "refused"},
               FinishHostChat(r, status, exit, creation)
        PROVE  NobodyWaits'
    <3>1. PICK t \in Terminal \cup {"needs_reconciliation"} : SetState(owner[r], t)
      BY <2>2, ChatTargetType DEF FinishHostChat, UnknownOutcome
    <3> QED
      BY <3>1 DEF SetState, Terminal, TypeOK
  <2> QED
    BY <1>5, <2>1, <2>2 DEF Chatter
<1>6. CASE RecoverExpiredLeases
  BY <1>6, RecoveredType DEF RecoverExpiredLeases
<1>7. ASSUME NEW w \in Work, NEW g \in Generations, NEW to \in States, Resolve(w, g, to)
      PROVE  NobodyWaits'
  BY <1>7 DEF Resolve, CanTransition, Allowed, SetState, TypeOK
<1>8. ASSUME NEW w \in HostChat, NEW r \in RunId, BeginHostChat(w, r)
      PROVE  NobodyWaits'
  BY <1>8 DEF BeginHostChat, SetState, TypeOK
<1>9. ASSUME NEW r \in RunId, NEW x \in Outputs \cap Exits, NEW ok \in BOOLEAN,
             RecoverRetainedResult(r, x, ok)
      PROVE  NobodyWaits'
  BY <1>9 DEF RecoverRetainedResult, SetState, TypeOK
<1>10. CASE \E r \in RunId : \/ DeliverRun(r) \/ MarkRunProjected(r)
                             \/ \E g \in Generations : Heartbeat(r, g)
  BY <1>10 DEF DeliverRun, MarkRunProjected, Heartbeat, itemVars
<1>11. CASE Clock \/ UNCHANGED vars
  BY <1>11 DEF Clock, LeaseLapse, BecomeEligible, DeadlinePass, LegacyRun, itemVars, vars
<1> QED
  BY <1>1, <1>2, <1>3, <1>4, <1>5, <1>6, <1>7, <1>8, <1>9, <1>10, <1>11 DEF Next

\* Counting
LEMMA AtMostOneMore ==
  ASSUME NEW S, NEW T, NEW w, IsFiniteSet(T), S \subseteq T \cup {w}
  PROVE  /\ IsFiniteSet(S) /\ Cardinality(S) \in Nat /\ Cardinality(T) \in Nat
         /\ Cardinality(S) <= Cardinality(T) + 1
<1>1. Cardinality(T) \in Nat
  BY FS_CardinalityType
<1>2. /\ IsFiniteSet(T \cup {w})
      /\ Cardinality(T \cup {w}) = IF w \in T THEN Cardinality(T) ELSE Cardinality(T) + 1
  BY FS_AddElement
<1>3. S \in SUBSET (T \cup {w})
  OBVIOUS
<1>4. IsFiniteSet(S) /\ Cardinality(S) <= Cardinality(T \cup {w})
  BY <1>2, <1>3, FS_Subset
<1>5. Cardinality(S) \in Nat
  BY <1>4, FS_CardinalityType
<1> QED
  BY <1>1, <1>2, <1>4, <1>5

LEMMA NoMore ==
  ASSUME NEW S, NEW T, IsFiniteSet(T), S \subseteq T
  PROVE  /\ IsFiniteSet(S) /\ Cardinality(S) \in Nat /\ Cardinality(T) \in Nat
         /\ Cardinality(S) <= Cardinality(T)
BY FS_Subset, FS_CardinalityType

\* Every piece of live work is a chat turn or background
LEMMA TwoClasses ==
  ASSUME NEW live \in SUBSET Work, IsFiniteSet(live)
  PROVE  /\ Cardinality(live) = Cardinality(Chat(live)) + Cardinality(Background(live))
         /\ Cardinality(Chat(live)) \in Nat /\ Cardinality(Background(live)) \in Nat
<1>1. /\ live = Chat(live) \cup Background(live) /\ Chat(live) \cap Background(live) = {}
      /\ Chat(live) \subseteq live /\ Background(live) \subseteq live
  BY WorkAssumption DEF Chat, Background
<1>2. IsFiniteSet(Chat(live)) /\ IsFiniteSet(Background(live))
      /\ Cardinality(Chat(live)) \in Nat /\ Cardinality(Background(live)) \in Nat
  BY <1>1, NoMore
<1>3. Cardinality(Chat(live) \cup Background(live)) =
        Cardinality(Chat(live)) + Cardinality(Background(live))
          - Cardinality(Chat(live) \cap Background(live))
  BY <1>2, FS_Union
<1>4. Cardinality(Chat(live) \cap Background(live)) = 0
  BY <1>1, FS_EmptySet
<1>5. Cardinality(live) = Cardinality(Chat(live) \cup Background(live))
  BY <1>1
<1> QED
  BY <1>2, <1>3, <1>4, <1>5

LEMMA CrewBudgetType ==
  ASSUME NEW w \in Work, CrewOf[w] # Nothing
  PROVE  CrewBudget(CrewOf[w]) \in Nat
<1> DEFINE row == CrewRow[CrewOf[w]]
<1>1. row.maxAgents # Nothing => row.maxAgents \in Nat
  BY CrewAssumption
<1>2. row.memoryMB # Nothing => row.memoryMB \div MinMemoryMB \in Int
  BY CrewAssumption
<1> HIDE DEF row
<1> QED
  BY <1>1, <1>2 DEF CrewBudget, row

LimitsInv ==
  /\ SlotsWithinLimits
  /\ NobodyWaits
  /\ IsFiniteSet(Slots) /\ IsFiniteSet(legacy)

LEMMA SlotsShrink ==
  ASSUME SlotsWithinLimits, IsFiniteSet(Slots), Slots' \subseteq Slots
  PROVE  SlotsWithinLimits' /\ IsFiniteSet(Slots')
<1> DEFINE A(S, w) == {v \in S : AgentOf[v] = AgentOf[w]}
           C(S, w) == {v \in S : CrewOf[v] = CrewOf[w]}
<1>1. /\ IsFiniteSet(Slots') /\ Cardinality(Slots') \in Nat /\ Cardinality(Slots) \in Nat
      /\ Cardinality(Slots') <= Cardinality(Slots)
  BY NoMore
<1>2. Background(Slots') \subseteq Background(Slots) /\ Background(Slots) \subseteq Slots
  BY DEF Background
<1>3. /\ Cardinality(Background(Slots')) \in Nat /\ Cardinality(Background(Slots)) \in Nat
      /\ Cardinality(Background(Slots')) <= Cardinality(Background(Slots))
  BY <1>2, NoMore
<1>4. \A w : /\ Cardinality(A(Slots', w)) \in Nat /\ Cardinality(A(Slots, w)) \in Nat
             /\ Cardinality(A(Slots', w)) <= Cardinality(A(Slots, w))
  <2> TAKE w
  <2>1. A(Slots', w) \subseteq A(Slots, w) /\ A(Slots, w) \subseteq Slots
    OBVIOUS
  <2> HIDE DEF A
  <2> QED
    BY <2>1, NoMore
<1>5. \A w : /\ Cardinality(C(Slots', w)) \in Nat /\ Cardinality(C(Slots, w)) \in Nat
             /\ Cardinality(C(Slots', w)) <= Cardinality(C(Slots, w))
  <2> TAKE w
  <2>1. C(Slots', w) \subseteq C(Slots, w) /\ C(Slots, w) \subseteq Slots
    OBVIOUS
  <2> HIDE DEF C
  <2> QED
    BY <2>1, NoMore
<1>6. \A w \in Slots : CrewOf[w] # Nothing => CrewBudget(CrewOf[w]) \in Nat
  BY CrewBudgetType DEF Slots
<1>7. Background(Slots') # {} => Background(Slots) # {}
  BY <1>2
<1>8. \A w \in Slots :
        /\ AgentOf[w] # Nothing => Cardinality(A(Slots, w)) <= Limits["AgentTotal"]
        /\ CrewOf[w] # Nothing => Cardinality(C(Slots, w)) <= CrewBudget(CrewOf[w])
  BY DEF SlotsWithinLimits
<1>9. /\ Cardinality(Slots) <= Limits["ServerTotal"]
      /\ Cardinality(Background(Slots)) <= Limits["ServerBackground"]
      /\ Background(Slots) # {} =>
           Cardinality(Background(Slots)) + Limits["ServerChatReserv"] <= Limits["ServerTotal"]
  BY DEF SlotsWithinLimits
<1> HIDE DEF A, C
<1>10. /\ Cardinality(Slots') <= Limits["ServerTotal"]
       /\ Cardinality(Background(Slots')) <= Limits["ServerBackground"]
       /\ Background(Slots') # {} =>
            Cardinality(Background(Slots')) + Limits["ServerChatReserv"] <= Limits["ServerTotal"]
  BY <1>1, <1>3, <1>7, <1>9, LimitsAssumption
<1>11. \A w \in Slots' :
         /\ AgentOf[w] # Nothing => Cardinality(A(Slots', w)) <= Limits["AgentTotal"]
         /\ CrewOf[w] # Nothing => Cardinality(C(Slots', w)) <= CrewBudget(CrewOf[w])
  BY <1>4, <1>5, <1>6, <1>8, LimitsAssumption
<1> QED
  BY <1>1, <1>10, <1>11 DEF SlotsWithinLimits, A, C

LEMMA SlotTaken ==
  ASSUME SlotsWithinLimits, IsFiniteSet(Slots), IsFiniteSet(legacy), legacy \subseteq Work,
         NEW w \in Work, EntersAdmitted(w), Slots' \subseteq Slots \cup {w}
  PROVE  SlotsWithinLimits' /\ IsFiniteSet(Slots')
<1> DEFINE A(S, v) == {u \in S : AgentOf[u] = AgentOf[v]}
           C(S, v) == {u \in S : CrewOf[u] = CrewOf[v]}
<1>1. PICK live \in SUBSET (Slots \cup legacy) :
        Slots \subseteq live /\ ServerAdmits(w, live) /\ AgentAdmits(w, live) /\ CrewAdmits(w, live)
  BY DEF EntersAdmitted
<1>2. IsFiniteSet(live) /\ live \subseteq Work
  BY FS_Union, FS_Subset DEF Slots
<1>3. /\ IsFiniteSet(Slots') /\ Cardinality(Slots') \in Nat
      /\ Cardinality(live) \in Nat /\ Cardinality(Slots') <= Cardinality(live) + 1
  <2>1. Slots' \subseteq live \cup {w}
    BY <1>1
  <2> QED
    BY <1>2, <2>1, AtMostOneMore
<1>4. Cardinality(Slots') <= Limits["ServerTotal"]
  BY <1>1, <1>3, LimitsAssumption DEF ServerAdmits
<1>5. /\ Cardinality(Background(Slots')) <= Limits["ServerBackground"]
      /\ Background(Slots') # {} =>
           Cardinality(Background(Slots')) + Limits["ServerChatReserv"] <= Limits["ServerTotal"]
  <2>1. CASE ClassOf[w] = "background"
    <3>1. Background(Slots') \subseteq Background(live) \cup {w} /\ Background(live) \subseteq live
      BY <1>1 DEF Background
    <3>2. /\ Cardinality(Background(Slots')) \in Nat /\ Cardinality(Background(live)) \in Nat
          /\ Cardinality(Background(Slots')) <= Cardinality(Background(live)) + 1
      BY <1>2, <3>1, NoMore, AtMostOneMore
    <3>3. /\ Cardinality(Background(live)) < Limits["ServerBackground"]
          /\ Cardinality(live) + 1 + Limits["ServerChatReserv"]
               <= Limits["ServerTotal"] + Cardinality(Chat(live))
      BY <1>1, <2>1 DEF ServerAdmits
    <3>4. /\ Cardinality(live) = Cardinality(Chat(live)) + Cardinality(Background(live))
          /\ Cardinality(Chat(live)) \in Nat
      BY <1>2, TwoClasses
    <3> QED
      BY <3>2, <3>3, <3>4, LimitsAssumption
  <2>2. CASE ClassOf[w] # "background"
    <3>1. Background(Slots') \subseteq Background(Slots) /\ Background(Slots) \subseteq Slots
      BY <2>2 DEF Background
    <3>2. /\ Cardinality(Background(Slots')) \in Nat /\ Cardinality(Background(Slots)) \in Nat
          /\ Cardinality(Background(Slots')) <= Cardinality(Background(Slots))
      BY <3>1, NoMore
    <3> QED
      BY <3>1, <3>2, LimitsAssumption DEF SlotsWithinLimits
  <2> QED
    BY <2>1, <2>2
<1>6. ASSUME NEW v \in Slots', AgentOf[v] # Nothing
      PROVE  Cardinality(A(Slots', v)) <= Limits["AgentTotal"]
  <2>1. CASE AgentOf[v] = AgentOf[w]
    <3>1. A(Slots', v) \subseteq A(live, w) \cup {w} /\ A(live, w) \subseteq live
      BY <1>1, <2>1
    <3>2. Cardinality(A(live, w)) < Limits["AgentTotal"]
      BY <1>1, <1>6, <2>1 DEF AgentAdmits
    <3> HIDE DEF A
    <3>3. /\ Cardinality(A(Slots', v)) \in Nat /\ Cardinality(A(live, w)) \in Nat
          /\ Cardinality(A(Slots', v)) <= Cardinality(A(live, w)) + 1
      BY <1>2, <3>1, NoMore, AtMostOneMore
    <3> QED
      BY <3>2, <3>3, LimitsAssumption
  <2>2. CASE AgentOf[v] # AgentOf[w]
    <3>1. A(Slots', v) \subseteq A(Slots, v) /\ A(Slots, v) \subseteq Slots /\ v \in Slots
      BY <2>2
    <3>2. Cardinality(A(Slots, v)) <= Limits["AgentTotal"]
      BY <1>6, <3>1 DEF SlotsWithinLimits
    <3> HIDE DEF A
    <3>3. /\ Cardinality(A(Slots', v)) \in Nat /\ Cardinality(A(Slots, v)) \in Nat
          /\ Cardinality(A(Slots', v)) <= Cardinality(A(Slots, v))
      BY <3>1, NoMore
    <3> QED
      BY <3>2, <3>3, LimitsAssumption
  <2> QED
    BY <2>1, <2>2
<1>7. ASSUME NEW v \in Slots', CrewOf[v] # Nothing
      PROVE  Cardinality(C(Slots', v)) <= CrewBudget(CrewOf[v])
  <2>1. CASE CrewOf[v] = CrewOf[w]
    <3>1. C(Slots', v) \subseteq C(live, w) \cup {w} /\ C(live, w) \subseteq live
      BY <1>1, <2>1
    <3>2. Cardinality(C(live, w)) < CrewBudget(CrewOf[w]) /\ CrewBudget(CrewOf[w]) \in Nat
      BY <1>1, <1>7, <2>1, CrewBudgetType DEF CrewAdmits
    <3> HIDE DEF C
    <3>3. /\ Cardinality(C(Slots', v)) \in Nat /\ Cardinality(C(live, w)) \in Nat
          /\ Cardinality(C(Slots', v)) <= Cardinality(C(live, w)) + 1
      BY <1>2, <3>1, NoMore, AtMostOneMore
    <3>4. Cardinality(C(Slots', v)) <= CrewBudget(CrewOf[w])
      BY <3>2, <3>3
    <3> QED
      BY <2>1, <3>4
  <2>2. CASE CrewOf[v] # CrewOf[w]
    <3>1. C(Slots', v) \subseteq C(Slots, v) /\ C(Slots, v) \subseteq Slots /\ v \in Slots
          /\ v \in Work
      BY <2>2 DEF Slots
    <3>2. Cardinality(C(Slots, v)) <= CrewBudget(CrewOf[v]) /\ CrewBudget(CrewOf[v]) \in Nat
      BY <1>7, <3>1, CrewBudgetType DEF SlotsWithinLimits
    <3> HIDE DEF C
    <3>3. /\ Cardinality(C(Slots', v)) \in Nat /\ Cardinality(C(Slots, v)) \in Nat
          /\ Cardinality(C(Slots', v)) <= Cardinality(C(Slots, v))
      BY <3>1, NoMore
    <3> QED
      BY <3>2, <3>3
  <2> QED
    BY <2>1, <2>2
<1> QED
  BY <1>3, <1>4, <1>5, <1>6, <1>7 DEF SlotsWithinLimits

LEMMA LimitsStep ==
  ASSUME TypeOK, Fence, TypeOK', LimitsInv, NobodyWaits', [Next]_vars
  PROVE  LimitsInv'
<1>1. NobodyWaits /\ NobodyWaits'
  BY DEF LimitsInv
<1>2. IsFiniteSet(legacy')
  BY LegacyStep, AtMostOneMore DEF LimitsInv
<1>3. CASE NobodyEnters
  <2>1. Slots' \subseteq Slots
    BY <1>1, <1>3 DEF NobodyEnters, NobodyWaits, Slots, OccupiesSession, HoldsExecutionSlot
  <2> QED
    BY <1>1, <1>2, <2>1, SlotsShrink DEF LimitsInv
<1>4. ASSUME NEW w \in Work, EntersAlone(w), EntersAdmitted(w)
      PROVE  LimitsInv'
  <2>1. Slots' \subseteq Slots \cup {w}
    BY <1>1, <1>4 DEF EntersAlone, NobodyWaits, Slots, OccupiesSession, HoldsExecutionSlot
  <2>2. legacy \subseteq Work
    BY DEF TypeOK
  <2> QED
    BY <1>1, <1>2, <1>4, <2>1, <2>2, SlotTaken DEF LimitsInv
<1> QED
  BY <1>3, <1>4, EntryStep

LEMMA LimitsInit ==
  ASSUME Init
  PROVE  LimitsInv
<1>1. Slots = {} /\ legacy = {} /\ NobodyWaits
  BY DEF Init, Slots, NobodyWaits
<1>2. Background(Slots) = {}
  BY <1>1 DEF Background
<1> QED
  BY <1>1, <1>2, FS_EmptySet, LimitsAssumption DEF LimitsInv, SlotsWithinLimits

\* Parked items included, the slots of the server, of the classes, of every agent
\* and of every crew stay within their limits, whatever the limits are and however
\* claims, host chat turns, recovery and resolutions interleave, provided no caller
\* of Transition asks for the waiting state (the dispatcher, its only one, does not).
THEOREM SlotsStayWithinLimits ==
  ASSUME "waiting" \notin Targets
  PROVE  Spec => []SlotsWithinLimits
<1>1. Init => LimitsInv
  BY LimitsInit
<1>2. ASSUME TypeOK, Fence, TypeOK', LimitsInv, [Next]_vars
      PROVE  LimitsInv'
  BY <1>2, WaitingStep, LimitsStep DEF LimitsInv
<1>3. LimitsInv => SlotsWithinLimits
  BY DEF LimitsInv
<1> QED
  BY <1>1, <1>2, <1>3, TypeCorrect, FenceHolds, PTL DEF Spec

-----------------------------------------------------------------------------
(***************************************************************************)
(* The promise for one work item (WorkItem).  A transaction may move many  *)
(* items; each of them makes a step of its own promise or none.            *)
(***************************************************************************)

\* What the promise allows one item in one step of the ledger
ItemStep(w) == [Promise(w)!Next]_(Promise(w)!vars)

Latest(w) == {r \in Attempts(w) : gen[r] = generation[w]}

Reported(w) == [r \in RunId |-> IF owner[r] = w THEN runStatus[r] ELSE "unset"]

\* What the promise sees of an item's attempt rows
RowsOf(w) == <<Latest(w), Attempts(w), Reported(w)>>

LEMMA ItemRowsKept ==
  ASSUME NEW w \in Work, UNCHANGED <<owner, gen, generation>>,
         \A r \in Attempts(w) : runStatus'[r] = runStatus[r]
  PROVE  UNCHANGED RowsOf(w)
BY DEF RowsOf, Latest, Attempts, Reported

LEMMA ItemUntouched ==
  ASSUME NEW w \in Work, UNCHANGED RowsOf(w), StatusOf(w)' = StatusOf(w)
  PROVE  ItemStep(w)
BY DEF ItemStep, Promise!vars, RowsOf, Latest, Reported

\* Items that wait are expired, failed or cancelled without an attempt.
LEMMA ItemDropped ==
  ASSUME NEW w \in Work, UNCHANGED RowsOf(w), state[w] \in Claimable,
         state'[w] \in {"failed", "expired", "cancelled"}
  PROVE  ItemStep(w)
<1>1. StatusOf(w) = "queued" /\ StatusOf(w)' = state'[w]
  BY DEF StatusOf, Claimable, Executing
<1>2. Promise(w)!Drop(state'[w])
  BY <1>1 DEF Promise!Drop, Promise!Outcomes, RowsOf, Latest, Reported
<1>3. QED
  BY <1>2 DEF ItemStep, Promise!Next, Promise!Outcomes

\* The generation bump makes the new row the only latest one of its item ...
LEMMA ItemGranted ==
  ASSUME NEW w \in Work, NEW r \in Fresh, NEW ph, TypeOK, Fence,
         state[w] \in Claimable \cup {"absent"}, state'[w] = "starting",
         StartAttempt(w, r, ph), UNCHANGED runStatus
  PROVE  ItemStep(w)
<1> USE WorkAssumption
<1>1. r \in RunId /\ owner[r] = NoWork /\ runStatus[r] = "unset"
  BY DEF Fresh, Fence, RowsAreOwned
<1>2. Attempts(w)' = Attempts(w) \cup {r}
  BY <1>1 DEF TypeOK, Attempts, StartAttempt
<1>3. \A s \in Attempts(w) : gen[s] <= generation[w] /\ gen'[s] = gen[s] /\ gen[s] \in Nat
  BY <1>1 DEF TypeOK, Attempts, StartAttempt, Fence, RowsAreOwned
<1>4. generation[w] \in Nat /\ generation'[w] = generation[w] + 1 /\ gen'[r] = generation[w] + 1
  BY <1>1 DEF TypeOK, StartAttempt
<1>5. Latest(w)' = {r}
  BY <1>2, <1>3, <1>4 DEF Latest
<1>6. Reported(w)' = Reported(w)
  BY <1>1 DEF Reported, TypeOK, StartAttempt
<1>7. Promise(w)!Grant(r)
  <2>1. StatusOf(w) \in {"absent", "queued"} /\ StatusOf(w)' = "held"
    BY DEF StatusOf, Claimable, Executing
  <2>2. r \notin Attempts(w)
    BY <1>1 DEF Attempts
  <2> QED
    BY <2>1, <2>2, <1>2, <1>5, <1>6 DEF Promise!Grant, Latest, Reported
<1>8. QED
  BY <1>1, <1>7 DEF ItemStep, Promise!Next

\* ... and the row was nobody's before.
LEMMA OthersRowsKept ==
  ASSUME NEW w \in Work, NEW v \in Work \ {w}, NEW r \in Fresh, NEW ph, TypeOK, Fence,
         StartAttempt(w, r, ph), UNCHANGED runStatus
  PROVE  UNCHANGED RowsOf(v)
<1> USE WorkAssumption
<1>1. r \in RunId /\ owner[r] = NoWork
  BY DEF Fresh, Fence, RowsAreOwned
<1>2. \A s \in RunId : owner'[s] = v <=> owner[s] = v
  BY <1>1 DEF TypeOK, StartAttempt
<1>3. Attempts(v)' = Attempts(v) /\ Reported(v)' = Reported(v)
  BY <1>2 DEF Attempts, Reported
<1>4. Latest(v)' = Latest(v)
  BY <1>1, <1>3 DEF Latest, Attempts, TypeOK, StartAttempt
<1>5. QED
  BY <1>3, <1>4 DEF RowsOf

\* A report on a current row is one on the last attempt: generations are distinct.
LEMMA ReportOnLast ==
  ASSUME NEW w \in Work, NEW r \in Attempts(w), NEW v, TypeOK, Fence,
         gen[r] = generation[w], runStatus[r] = "unset",
         UNCHANGED <<owner, gen, generation>>, runStatus' = [runStatus EXCEPT ![r] = v]
  PROVE  Promise(w)!Report(v) /\ UNCHANGED <<Latest(w), Attempts(w)>>
<1> USE WorkAssumption
<1>1. Latest(w) = {r}
  BY DEF Latest, Attempts, Fence, GenerationsDistinct
<1>2. UNCHANGED <<Latest(w), Attempts(w)>>
  BY DEF Latest, Attempts
<1>3. Reported(w)' = [a \in RunId |-> IF a \in Latest(w) /\ Reported(w)[a] = "unset" THEN v
                                      ELSE Reported(w)[a]]
  BY <1>1 DEF Reported, Attempts, TypeOK
<1>4. QED
  BY <1>2, <1>3 DEF Promise!Report, Latest, Reported

\* An attempt is over: its item goes back in line, is parked or settles, with a
\* verdict that fits.
LEMMA AttemptOver ==
  ASSUME NEW w \in Work, NEW v, TypeOK,
         Promise(w)!Report(v), UNCHANGED <<Latest(w), Attempts(w)>>,
         state[w] \in Executing \cup {"needs_reconciliation"},
         state[w] = "needs_reconciliation" => v \notin {"unset", "TIMEOUT"},
         \/ /\ state'[w] \in Claimable \cup {"needs_reconciliation"}
            /\ v \in {"unset", "FAILED"}
         \/ state'[w] \in Terminal /\ v \in Promise(w)!Fitting(state'[w])
  PROVE  ItemStep(w)
<1> USE DEF Terminal, Claimable, Executing
<1>1. StatusOf(w) \in {"held", "parked"} /\ (StatusOf(w) = "parked" => state[w] = "needs_reconciliation")
  BY DEF StatusOf
<1>2. CASE state'[w] \in Claimable /\ v \in {"unset", "FAILED"}
  <2>1. StatusOf(w)' = "queued"
    BY <1>2 DEF StatusOf
  <2>2. Promise(w)!GiveBack(v)
    BY <1>1, <1>2, <2>1 DEF Promise!GiveBack, Latest
  <2> QED
    BY <1>2, <2>2 DEF ItemStep, Promise!Next
<1>3. CASE state'[w] = "needs_reconciliation" /\ v \in {"unset", "FAILED"}
  <2>1. StatusOf(w)' = "parked"
    BY <1>3 DEF StatusOf
  <2>2. Promise(w)!Park(v)
    BY <1>1, <1>3, <2>1 DEF Promise!Park, Latest
  <2> QED
    BY <1>3, <2>2 DEF ItemStep, Promise!Next
<1>4. CASE state'[w] \in Terminal /\ v \in Promise(w)!Fitting(state'[w])
  <2>1. StatusOf(w)' = state'[w]
    BY <1>4 DEF StatusOf
  <2>2. Promise(w)!Settle(state'[w], v)
    BY <1>1, <1>4, <2>1 DEF Promise!Settle, Latest
  <2> QED
    BY <1>4, <2>2 DEF ItemStep, Promise!Next, Promise!Outcomes
<1> QED
  BY <1>2, <1>3, <1>4

LEMMA OneItemMoves ==
  ASSUME NEW w \in Work, ItemStep(w), UNCHANGED <<owner, gen, generation>>,
         \A v \in Work \ {w} : state'[v] = state[v],
         \A r \in RunId : owner[r] # w => runStatus'[r] = runStatus[r]
  PROVE  \A v \in Work : ItemStep(v)
<1>1. ASSUME NEW v \in Work, v # w
      PROVE  ItemStep(v)
  <2>1. StatusOf(v)' = StatusOf(v)
    BY <1>1 DEF StatusOf
  <2>2. \A r \in Attempts(v) : runStatus'[r] = runStatus[r]
    BY <1>1 DEF Attempts
  <2> QED
    BY <2>1, <2>2, ItemRowsKept, ItemUntouched
<1> QED
  BY <1>1

LEMMA NoItemMoves ==
  ASSUME UNCHANGED <<state, owner, gen, generation, runStatus>>
  PROVE  \A w \in Work : ItemStep(w)
<1>1. ASSUME NEW w \in Work
      PROVE  ItemStep(w)
  <2>1. StatusOf(w)' = StatusOf(w)
    BY DEF StatusOf
  <2> QED
    BY <2>1, ItemRowsKept, ItemUntouched
<1> QED
  BY <1>1

LEMMA BoundIsLast ==
  ASSUME TypeOK, Fence, NEW w \in Work, NEW r \in RunId, NEW g, Bound(w, r, g)
  PROVE  /\ r \in Attempts(w) /\ gen[r] = generation[w] /\ runStatus[r] = "unset"
         /\ state[w] \in Executing
BY DEF Bound, Fence, OpenIsCurrent, Attempts

\* A bound attempt is closed: v goes on its row, and its item moves
LEMMA BoundCloses ==
  ASSUME TypeOK, Fence, NEW w \in Work, NEW r \in RunId, NEW g, NEW v, NEW to \in States,
         Bound(w, r, g), UNCHANGED <<owner, gen, generation>>,
         runStatus' = [runStatus EXCEPT ![r] = v], SetState(w, to),
         \/ to \in Claimable \cup {"needs_reconciliation"} /\ v \in {"unset", "FAILED"}
         \/ to \in Terminal /\ v \in Promise(w)!Fitting(to)
  PROVE  \A x \in Work : ItemStep(x)
<1> USE BoundIsLast
<1>1. state'[w] = to /\ \A x \in Work \ {w} : state'[x] = state[x]
  BY DEF SetState, TypeOK
<1>2. Promise(w)!Report(v) /\ UNCHANGED <<Latest(w), Attempts(w)>>
  BY ReportOnLast
<1>3. state[w] # "needs_reconciliation"
  BY DEF Executing
<1>4. ItemStep(w)
  BY <1>1, <1>2, <1>3, AttemptOver
<1>5. \A s \in RunId : owner[s] # w => runStatus'[s] = runStatus[s]
  BY DEF Attempts, TypeOK
<1> QED
  BY <1>1, <1>4, <1>5, OneItemMoves

LEMMA TransitionKeeps ==
  ASSUME TypeOK, Fence, NEW w \in Work, NEW r \in RunId, NEW g, NEW to \in Targets,
         NEW why \in {"plain", "stopped", "retained"}, Transition(w, r, g, to, why)
  PROVE  \A x \in Work : ItemStep(x)
<1> USE LimitsAssumption
<1> DEFINE into == Landing(w, to)
<1>0. into \in States
  BY LandingType
<1>1. Bound(w, r, g) /\ UNCHANGED <<owner, gen, generation>> /\ SetState(w, into)
  BY DEF Transition
<1>2. CASE Closes(into)
  <2> DEFINE v == IF why = "stopped" THEN "FAILED" ELSE RunStatusForState(into)
  <2>1. runStatus' = [runStatus EXCEPT ![r] = v]
    BY <1>2 DEF Transition, EndAttempt
  <2>2. why = "stopped" => into = "needs_reconciliation"
    BY DEF Transition, Landing
  <2>3. \/ into \in Claimable \cup {"needs_reconciliation"} /\ v \in {"unset", "FAILED"}
        \/ into \in Terminal /\ v \in Promise(w)!Fitting(into)
    BY <1>2, <2>2 DEF Closes, Claimable, Terminal, RunStatusForState, Promise!Fitting
  <2> HIDE DEF into, v
  <2> QED
    BY <1>0, <1>1, <2>1, <2>3, BoundCloses
<1>3. CASE ~ Closes(into)
  <2>1. UNCHANGED runStatus /\ into \in Executing
    BY <1>0, <1>3 DEF Transition, Closes, Executing, States, Terminal
  <2>2. state[w] \in Executing /\ state'[w] = into
    BY <1>1, BoundIsLast DEF SetState, TypeOK
  <2>3. StatusOf(w)' = StatusOf(w)
    BY <2>1, <2>2 DEF StatusOf, Executing, Claimable
  <2>4. ItemStep(w)
    BY <1>1, <2>1, <2>3, ItemRowsKept, ItemUntouched
  <2> QED
    BY <1>1, <2>1, <2>4, OneItemMoves DEF SetState, TypeOK
<1> QED
  BY <1>2, <1>3

LEMMA CancelKeeps ==
  ASSUME TypeOK, Fence, NEW w \in Work, RequestCancel(w)
  PROVE  \A x \in Work : ItemStep(x)
<1>1. UNCHANGED <<owner, gen, generation, runStatus>> /\ \A v \in Work \ {w} : state'[v] = state[v]
  BY DEF RequestCancel, SetState, TypeOK, outcomeVars
<1>2. UNCHANGED RowsOf(w)
  BY <1>1, ItemRowsKept
<1>3. CASE state[w] \in Claimable
  BY <1>1, <1>2, <1>3, ItemDropped, OneItemMoves DEF RequestCancel, SetState, TypeOK
<1>4. CASE state[w] \notin Claimable
  <2>1. state'[w] = state[w] \/ (state'[w] = "needs_reconciliation" /\ state[w] \notin Executing)
    BY <1>4 DEF RequestCancel, SetState, TypeOK, Fence, ExecutingIsOpen, OpenIsCurrent
  <2>2. state[w] \in States \ Terminal
    BY DEF RequestCancel, Cancellable, TypeOK
  <2>3. state'[w] = state[w]
    BY <1>4, <2>1, <2>2 DEF States, Terminal, Claimable, Executing
  <2>4. StatusOf(w)' = StatusOf(w)
    BY <2>3 DEF StatusOf
  <2> QED
    BY <1>1, <1>2, <2>4, ItemUntouched, OneItemMoves
<1> QED
  BY <1>3, <1>4

\* What the sweep of a claim does to the items it does not start.
LEMMA SweptKeeps ==
  ASSUME NEW x \in Work, UNCHANGED RowsOf(x), NEW mine \in Kinds, NEW failed \in SUBSET Candidates(mine),
         state'[x] = FailWork(AfterExpiry, failed)[x]
  PROVE  ItemStep(x)
<1>1. CASE x \in failed
  <2>1. state'[x] = "failed" /\ state[x] \in Claimable
    BY <1>1 DEF FailWork, Candidates, AfterExpiry, Claimable
  <2> QED
    BY <2>1, ItemDropped
<1>2. CASE x \notin failed /\ x \in overdue /\ state[x] \in Claimable
  <2>1. state'[x] = "expired"
    BY <1>2 DEF FailWork, AfterExpiry
  <2> QED
    BY <1>2, <2>1, ItemDropped
<1>3. CASE x \notin failed /\ ~(x \in overdue /\ state[x] \in Claimable)
  <2>1. state'[x] = state[x]
    BY <1>3 DEF FailWork, AfterExpiry
  <2>2. StatusOf(x)' = StatusOf(x)
    BY <2>1 DEF StatusOf
  <2> QED
    BY <2>2, ItemUntouched
<1> QED
  BY <1>1, <1>2, <1>3

LEMMA ClaimKeeps ==
  ASSUME TypeOK, Fence, NEW mine \in Kinds, NEW r \in RunId, Claim(mine, r)
  PROVE  \A x \in Work : ItemStep(x)
<1>1. PICK w \in Candidates(mine), failed \in SUBSET Candidates(mine) :
        /\ state' = [FailWork(AfterExpiry, failed) EXCEPT ![w] = "starting"]
        /\ StartAttempt(w, r, "planned")
  BY DEF Claim
<1>2. w \in Work /\ state[w] \in Claimable /\ r \in Fresh /\ UNCHANGED runStatus
  BY WorkAssumption DEF Claim, Candidates, AfterExpiry, Claimable, outcomeVars
<1>3. state'[w] = "starting" /\ \A x \in Work \ {w} : state'[x] = FailWork(AfterExpiry, failed)[x]
  BY <1>1, <1>2 DEF FailWork
<1>4. ItemStep(w)
  BY <1>1, <1>2, <1>3, ItemGranted
<1>5. ASSUME NEW x \in Work \ {w}
      PROVE  ItemStep(x)
  <2>1. UNCHANGED RowsOf(x)
    BY <1>1, <1>2, OthersRowsKept
  <2> QED
    BY <1>3, <2>1, SweptKeeps
<1> QED
  BY <1>4, <1>5

LEMMA StartRunningKeeps ==
  ASSUME TypeOK, Fence, NEW w \in Work, NEW r \in RunId, NEW g, StartRunning(w, r, g)
  PROVE  \A x \in Work : ItemStep(x)
<1>1. UNCHANGED <<owner, gen, generation, runStatus>> /\ \A v \in Work \ {w} : state'[v] = state[v]
  BY DEF StartRunning, SetState, TypeOK, outcomeVars
<1>2. state[w] \in Executing /\ state'[w] = "running"
  BY BoundIsLast DEF StartRunning, SetState, TypeOK
<1>3. StatusOf(w)' = StatusOf(w)
  BY <1>2 DEF StatusOf, Executing, Claimable
<1>4. ItemStep(w)
  BY <1>1, <1>3, ItemRowsKept, ItemUntouched
<1> QED
  BY <1>1, <1>4, OneItemMoves

LEMMA RecoveryKeeps ==
  ASSUME TypeOK, Fence, RecoverExpiredLeases
  PROVE  \A x \in Work : ItemStep(x)
<1> DEFINE gone == {r \in RunId : Expired(r)}
<1>1. ASSUME NEW x \in Work
      PROVE  ItemStep(x)
  <2>1. UNCHANGED RowsOf(x)
    BY <1>1, ItemRowsKept DEF RecoverExpiredLeases
  <2>2. CASE \E r \in gone : owner[r] = x
    <3>1. state[x] \in Executing
      BY <2>2 DEF Expired, Live, Executing
    <3>2. state'[x] \in {"queued", "needs_reconciliation"}
      BY <2>2 DEF RecoverExpiredLeases, RecoveredTo
    <3>3. Promise(x)!Report("unset")
      BY <2>1 DEF Promise!Report, RowsOf, Reported, Latest
    <3> QED
      BY <2>1, <3>1, <3>2, <3>3, AttemptOver DEF RowsOf, Claimable, Executing
  <2>3. CASE ~ \E r \in gone : owner[r] = x
    <3>1. state'[x] = state[x]
      BY <2>3 DEF RecoverExpiredLeases
    <3> QED
      BY <2>1, <3>1, ItemUntouched DEF StatusOf
  <2> QED
    BY <2>2, <2>3
<1> QED
  BY <1>1

\* A parked item has no open attempt, so a resolution reports on its last one.
LEMMA ResolveKeeps ==
  ASSUME TypeOK, Fence, NEW w \in Work, NEW g, NEW to \in States, Resolve(w, g, to)
  PROVE  \A x \in Work : ItemStep(x)
<1> DEFINE v == RunStatusForState(to)
<1>1. UNCHANGED <<owner, gen, generation>> /\ \A x \in Work \ {w} : state'[x] = state[x]
  BY DEF Resolve, SetState, TypeOK, attemptVars
<1>2. \A r \in RunId : owner[r] # w => runStatus'[r] = runStatus[r]
  BY DEF Resolve, Unsettled
<1>3. state[w] = "needs_reconciliation" /\ state'[w] = to
      /\ to \in {"queued", "succeeded", "failed", "cancelled"}
  BY DEF Resolve, SetState, TypeOK, CanTransition, Allowed
<1>4. \A r \in Attempts(w) : r \notin open
  BY <1>3 DEF Attempts, Fence, OpenIsCurrent, Executing
<1>5. Reported(w)' = [a \in RunId |-> IF a \in Latest(w) /\ Reported(w)[a] = "unset" THEN v
                                      ELSE Reported(w)[a]]
  BY <1>1, <1>4 DEF Reported, Latest, Attempts, Resolve, Unsettled
<1>6. Promise(w)!Report(v)
  BY <1>5 DEF Promise!Report, Reported, Latest
<1>7. UNCHANGED <<Latest(w), Attempts(w)>>
  BY <1>1 DEF Latest, Attempts
<1>8. /\ v \notin {"unset", "TIMEOUT"}
      /\ to = "queued" => v = "FAILED"
      /\ to # "queued" => to \in Terminal /\ v \in Promise(w)!Fitting(to)
  BY <1>3 DEF RunStatusForState, Promise!Fitting, Terminal
<1>9. ItemStep(w)
  <2> HIDE DEF v
  <2> QED BY <1>3, <1>6, <1>7, <1>8, AttemptOver DEF Claimable
<1> QED
  BY <1>1, <1>2, <1>9, OneItemMoves

LEMMA DeferKeeps ==
  ASSUME TypeOK, Fence, NEW w \in Work, NEW r \in RunId, NEW g, Defer(w, r, g)
  PROVE  \A x \in Work : ItemStep(x)
<1>1. PICK to \in {"queued", "cancelled"} : SetState(w, to)
  BY DEF Defer
<1>2. runStatus[r] = "unset"
  BY BoundIsLast DEF Defer
<1>3. \/ to \in Claimable \cup {"needs_reconciliation"} /\ "unset" \in {"unset", "FAILED"}
      \/ to \in Terminal /\ "unset" \in Promise(w)!Fitting(to)
  BY <1>1 DEF Claimable, Terminal, Promise!Fitting
<1>4. runStatus' = [runStatus EXCEPT ![r] = "unset"] /\ Bound(w, r, g) /\ to \in States
  BY <1>1, <1>2 DEF Defer, EndAttempt, States
<1> QED
  BY <1>1, <1>3, <1>4, BoundCloses DEF Defer

LEMMA BeginKeeps ==
  ASSUME TypeOK, Fence, NEW w \in HostChat, NEW r \in RunId, BeginHostChat(w, r)
  PROVE  \A x \in Work : ItemStep(x)
<1>1. /\ w \in Work /\ r \in Fresh /\ state[w] = "absent" /\ state'[w] = "starting"
      /\ StartAttempt(w, r, "starting") /\ UNCHANGED runStatus
  BY WorkAssumption DEF BeginHostChat, SetState, TypeOK, outcomeVars
<1>2. ItemStep(w)
  BY <1>1, ItemGranted
<1>3. ASSUME NEW x \in Work \ {w}
      PROVE  ItemStep(x)
  <2>1. UNCHANGED RowsOf(x)
    BY <1>1, OthersRowsKept
  <2>2. StatusOf(x)' = StatusOf(x)
    BY <1>1 DEF StatusOf, BeginHostChat, SetState, TypeOK
  <2> QED
    BY <2>1, <2>2, ItemUntouched
<1> QED
  BY <1>2, <1>3

LEMMA FinishKeeps ==
  ASSUME TypeOK, Fence, NEW r \in RunId, NEW status \in Verdicts, NEW exit \in Outputs,
         NEW creation \in {"requested", "refused"}, FinishHostChat(r, status, exit, creation)
  PROVE  \A x \in Work : ItemStep(x)
<1> DEFINE w == owner[r]
<1>1. w \in Work /\ Bound(w, r, gen[r]) /\ UNCHANGED <<owner, gen, generation>>
  BY WorkAssumption DEF FinishHostChat, HostChatRun
<1>2. CASE Known(r, exit, creation)
  <2>1. SetState(w, ChatTarget(status)) /\ runStatus' = [runStatus EXCEPT ![r] = status]
    BY <1>2 DEF FinishHostChat, EndAttempt
  <2>2. ChatTarget(status) \in Terminal /\ status \in Promise(w)!Fitting(ChatTarget(status))
    BY DEF ChatTarget, Terminal, Verdicts, Promise!Fitting
  <2>3. ChatTarget(status) \in States
    BY <2>2 DEF Terminal, States
  <2> QED
    BY <1>1, <2>1, <2>2, <2>3, BoundCloses
<1>3. CASE ~ Known(r, exit, creation)
  <2>1. SetState(w, "needs_reconciliation") /\ runStatus' = [runStatus EXCEPT ![r] = "unset"]
    BY <1>3 DEF FinishHostChat, UnknownOutcome, EndAttempt
  <2> QED
    BY <1>1, <2>1, BoundCloses DEF States
<1> QED
  BY <1>2, <1>3

LEMMA CaptureKeeps ==
  ASSUME TypeOK, Fence, NEW r \in RunId, NEW x, NEW ok \in BOOLEAN, RecoverRetainedResult(r, x, ok)
  PROVE  \A y \in Work : ItemStep(y)
<1> DEFINE v == IF ok THEN "COMPLETED" ELSE "FAILED"
<1>0. PICK w \in Work : w = owner[r]
  BY DEF RecoverRetainedResult, Settleable, Fence, RowsAreOwned, TypeOK
<1>1. UNCHANGED <<owner, gen, generation>>
  BY DEF RecoverRetainedResult, Settleable, Fence, RowsAreOwned, TypeOK, attemptVars
<1>2. /\ r \in Attempts(w) /\ gen[r] = generation[w] /\ runStatus[r] = "unset"
      /\ state[w] = "needs_reconciliation"
  BY <1>0 DEF RecoverRetainedResult, Settleable, Attempts
<1>3. runStatus' = [runStatus EXCEPT ![r] = v]
  BY DEF RecoverRetainedResult
<1>4. Promise(w)!Report(v) /\ UNCHANGED <<Latest(w), Attempts(w)>>
  BY <1>1, <1>2, <1>3, ReportOnLast
<1>5. \/ state'[w] = "succeeded" /\ ok
      \/ state'[w] \in {"failed", "needs_reconciliation"} /\ ~ ok
  BY <1>0, <1>2 DEF RecoverRetainedResult, SetState, TypeOK
<1>6. \/ state'[w] = "needs_reconciliation" /\ v \in {"unset", "FAILED"}
      \/ state'[w] \in Terminal /\ v \in Promise(w)!Fitting(state'[w])
  BY <1>5 DEF Terminal, Promise!Fitting
<1>7. v \notin {"unset", "TIMEOUT"}
  OBVIOUS
<1>8. ItemStep(w)
  <2> HIDE DEF v
  <2> QED BY <1>2, <1>4, <1>6, <1>7, AttemptOver
<1>9. \A y \in Work \ {w} : state'[y] = state[y]
  BY <1>0 DEF RecoverRetainedResult, SetState, TypeOK
<1>10. \A s \in RunId : owner[s] # w => runStatus'[s] = runStatus[s]
  BY <1>0, <1>3 DEF TypeOK
<1> QED
  BY <1>1, <1>8, <1>9, <1>10, OneItemMoves

LEMMA PromiseStep ==
  ASSUME TypeOK, Fence, [Next]_vars
  PROVE  \A x \in Work : ItemStep(x)
<1> DEFINE Kept == \A x \in Work : ItemStep(x)
<1>1. ASSUME NEW w \in Work, AcceptTx(w)
      PROVE  Kept
  <2>1. UNCHANGED <<owner, gen, generation, runStatus>> /\ \A v \in Work \ {w} : state'[v] = state[v]
    BY <1>1 DEF AcceptTx, SetState, TypeOK, attemptVars, outcomeVars
  <2>2. StatusOf(w) = "absent" /\ StatusOf(w)' = "queued"
    BY <1>1 DEF AcceptTx, SetState, TypeOK, StatusOf, Claimable, Executing
  <2>3. UNCHANGED RowsOf(w)
    BY <2>1, ItemRowsKept
  <2>4. Promise(w)!Submit
    BY <2>2, <2>3 DEF Promise!Submit, RowsOf, Latest, Reported
  <2>5. ItemStep(w)
    BY <2>4 DEF ItemStep, Promise!Next
  <2> QED
    BY <2>1, <2>5, OneItemMoves
<1>2. ASSUME NEW mine \in Kinds, ClaimNothing(mine)
      PROVE  Kept
  <2>1. ASSUME NEW x \in Work
        PROVE  ItemStep(x)
    <3>1. UNCHANGED RowsOf(x)
      BY <1>2, ItemRowsKept DEF ClaimNothing, attemptVars, outcomeVars
    <3>2. state'[x] = FailWork(AfterExpiry, Candidates(mine))[x]
      BY <1>2 DEF ClaimNothing
    <3> QED
      BY <3>1, <3>2, SweptKeeps
  <2> QED
    BY <2>1
<1>3. ASSUME NEW w \in Work, NEW r \in RunId, NEW g \in Generations, Worker(w, r, g)
      PROVE  Kept
  <2>1. CASE \/ MarkStarting(w, r, g) \/ MarkRuntimeRequested(w, r, g)
             \/ \E x \in Outputs : StageRunResult(w, r, g, x)
    BY <2>1, NoItemMoves
       DEF MarkStarting, MarkRuntimeRequested, StageRunResult, itemVars, attemptVars, outcomeVars
  <2> QED
    BY <1>3, <2>1, StartRunningKeeps, TransitionKeeps, DeferKeeps DEF Worker
<1>4. ASSUME NEW r \in RunId, Chatter(r)
      PROVE  Kept
  <2>1. ASSUME NEW step \in {"request", "started", "heartbeat"}, HostChatPhase(r, step)
        PROVE  Kept
    <3>1. owner[r] \in Work
      BY <2>1, WorkAssumption DEF HostChatPhase, HostChatRun
    <3>2. CASE MarkRuntimeRequested(owner[r], r, gen[r]) \/ Heartbeat(r, gen[r])
      BY <3>2, NoItemMoves DEF MarkRuntimeRequested, Heartbeat, itemVars, attemptVars, outcomeVars
    <3> QED
      BY <2>1, <3>1, <3>2, StartRunningKeeps DEF HostChatPhase
  <2> QED
    BY <1>4, <2>1, FinishKeeps DEF Chatter
<1>5. ASSUME NEW r \in RunId, DeliverRun(r) \/ MarkRunProjected(r)
      PROVE  Kept
  BY <1>5, NoItemMoves DEF DeliverRun, MarkRunProjected, itemVars, attemptVars, outcomeVars
<1>6. ASSUME NEW r \in RunId, NEW g \in Generations, Heartbeat(r, g)
      PROVE  Kept
  BY <1>6, NoItemMoves DEF Heartbeat, itemVars, attemptVars, outcomeVars
<1>7. CASE Clock \/ UNCHANGED vars
  BY <1>7, NoItemMoves
     DEF Clock, LeaseLapse, BecomeEligible, DeadlinePass, LegacyRun, vars, itemVars, attemptVars,
         outcomeVars
<1>8. ASSUME NEW w \in Work, RequestCancel(w)
      PROVE  Kept
  BY <1>8, CancelKeeps
<1>9. ASSUME NEW mine \in Kinds, NEW r \in RunId, Claim(mine, r)
      PROVE  Kept
  BY <1>9, ClaimKeeps
<1>10. CASE RecoverExpiredLeases
  BY <1>10, RecoveryKeeps
<1>11. ASSUME NEW w \in Work, NEW g \in Generations, NEW to \in States, Resolve(w, g, to)
       PROVE  Kept
  BY <1>11, ResolveKeeps
<1>12. ASSUME NEW w \in HostChat, NEW r \in RunId, BeginHostChat(w, r)
       PROVE  Kept
  BY <1>12, BeginKeeps
<1>13. ASSUME NEW r \in RunId, NEW x \in Outputs \cap Exits, NEW ok \in BOOLEAN,
              RecoverRetainedResult(r, x, ok)
       PROVE  Kept
  BY <1>13, CaptureKeeps
<1> QED
  BY <1>1, <1>2, <1>3, <1>4, <1>5, <1>6, <1>7, <1>8, <1>9, <1>10, <1>11, <1>12, <1>13 DEF Next

LEMMA PromiseInit ==
  ASSUME Init, NEW w \in Work
  PROVE  Promise(w)!Init
BY WorkAssumption DEF Init, Promise!Init, StatusOf, Attempts, Claimable, Executing

\* The ledger implements the promise of WorkItem for all its items at once,
\* however many of them one transaction expires, fails or recovers, and whatever
\* stale attempts its callers present.
THEOREM ItemsLiveOneLife == Spec => ItemsKeepThePromise
<1>1. Init => \A w \in Work : Promise(w)!Init
  BY PromiseInit
<1>2. TypeOK /\ Fence /\ [Next]_vars
        => [\A w \in Work : [Promise(w)!Next]_(Promise(w)!vars)]_vars
  BY PromiseStep DEF ItemStep
<1> QED
  BY <1>1, <1>2, TypeCorrect, FenceHolds, PTL DEF Spec, ItemsKeepThePromise

\* The same for one item: seen from it, the ledger is a behaviour of WorkItem.
THEOREM ItemImplements ==
  ASSUME NEW w \in Work
  PROVE  Spec => Promise(w)!Spec
<1>1. Init => Promise(w)!Init
  BY PromiseInit
<1>2. TypeOK /\ Fence /\ [Next]_vars => [Promise(w)!Next]_(Promise(w)!vars)
  BY PromiseStep DEF ItemStep
<1> QED
  BY <1>1, <1>2, TypeCorrect, FenceHolds, PTL DEF Spec, Promise!Spec

=============================================================================
