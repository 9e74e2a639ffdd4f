---------------------------- MODULE QuiesceProofs ----------------------------
(***************************************************************************)
(* Proofs about the quiet window, for any number of writers, runs and      *)
(* backups.                                                                *)
(***************************************************************************)
EXTENDS Quiesce, FiniteSetTheorems, TLAPS

-----------------------------------------------------------------------------
(* The counters of the controller *)

\* The units of S that c.writers or c.runs counts
CountedIn(S) == {u \in S : at[u] \in {"in", "stepping", "leaving"}}

\* c.writers and c.runs are the number of units that entered and have not been
\* uncounted yet
Counts ==
  /\ writers = Cardinality(CountedIn(Writer))
  /\ runs = Cardinality(CountedIn(Run))

\* Cardinality of a set of units that grows or shrinks by one
LEMMA CountOneMore ==
  ASSUME NEW S, IsFiniteSet(S), NEW T \in SUBSET S, NEW u \in S, u \notin T
  PROVE  Cardinality(T \cup {u}) = Cardinality(T) + 1 /\ Cardinality(T) \in Nat
BY FS_Subset, FS_AddElement, FS_CardinalityType

LEMMA CountOneLess ==
  ASSUME NEW S, IsFiniteSet(S), NEW T \in SUBSET S, NEW u \in T
  PROVE  /\ Cardinality(T \ {u}) = Cardinality(T) - 1
         /\ Cardinality(T) \in Nat \ {0}
<1>1. IsFiniteSet(T) BY FS_Subset
<1>2. IsFiniteSet(T \ {u}) BY <1>1, FS_Subset
<1>3. Cardinality((T \ {u}) \cup {u}) = Cardinality(T \ {u}) + 1
  BY <1>2, FS_AddElement
<1>4. (T \ {u}) \cup {u} = T OBVIOUS
<1>5. Cardinality(T) \in Nat /\ Cardinality(T \ {u}) \in Nat
  BY <1>1, <1>2, FS_CardinalityType
<1>6. Cardinality(T) = Cardinality(T \ {u}) + 1 BY <1>3, <1>4
<1>. QED BY <1>5, <1>6

\* A counter that reads zero means that nobody is inside
LEMMA ZeroIsNobody ==
  ASSUME NEW S, IsFiniteSet(S), Cardinality(CountedIn(S)) = 0
  PROVE  \A u \in S : at[u] \notin {"in", "stepping", "leaving"}
<1>1. CountedIn(S) \in SUBSET S BY DEF CountedIn
<1>2. IsFiniteSet(CountedIn(S)) BY <1>1, FS_Subset
<1>3. CountedIn(S) = {} BY <1>2, FS_EmptySet
<1>. QED BY <1>3 DEF CountedIn

\* Every step keeps the counters exact
LEMMA CountStep ==
  ASSUME TypeOK, Counts, [Next]_vars
  PROVE  Counts' /\ writers' \in Nat /\ runs' \in Nat
<1>. USE QuiesceAssumption
<1>0. CountedIn(Writer) \in SUBSET Writer /\ CountedIn(Run) \in SUBSET Run
  BY DEF CountedIn
<1>1. CASE UNCHANGED <<at, writers, runs>>
  BY <1>1 DEF TypeOK, Counts, CountedIn
<1>2. ASSUME NEW u \in Unit, Admitted(u) PROVE Counts' /\ writers' \in Nat /\ runs' \in Nat
  <2>1. CASE u \in Writer
    <3>1. CountedIn(Writer)' = CountedIn(Writer) \cup {u} /\ CountedIn(Run)' = CountedIn(Run)
      BY <1>2, <2>1 DEF Admitted, CountedIn, TypeOK, Unit
    <3>2. u \notin CountedIn(Writer) BY <1>2 DEF Admitted, CountedIn
    <3>. QED BY <1>0, <1>2, <2>1, <3>1, <3>2, CountOneMore DEF Admitted, Counts, TypeOK
  <2>2. CASE u \notin Writer
    <3>1. CountedIn(Run)' = CountedIn(Run) \cup {u} /\ CountedIn(Writer)' = CountedIn(Writer)
      BY <1>2, <2>2 DEF Admitted, CountedIn, TypeOK, Unit
    <3>2. u \notin CountedIn(Run) /\ u \in Run BY <1>2, <2>2 DEF Admitted, CountedIn, Unit
    <3>. QED BY <1>0, <1>2, <2>2, <3>1, <3>2, CountOneMore DEF Admitted, Counts, TypeOK
  <2>. QED BY <2>1, <2>2
<1>3. ASSUME NEW u \in Unit, Reenter(u) PROVE Counts' /\ writers' \in Nat /\ runs' \in Nat
  <2>1. CountedIn(Writer)' = CountedIn(Writer) \cup {u} /\ CountedIn(Run)' = CountedIn(Run)
    BY <1>3 DEF Reenter, CountedIn, TypeOK, Unit
  <2>2. u \notin CountedIn(Writer) BY <1>3 DEF Reenter, CountedIn
  <2>. QED BY <1>0, <1>3, <2>1, <2>2, CountOneMore DEF Reenter, Counts, TypeOK
<1>4. ASSUME NEW u \in Unit, Decrement(u) PROVE Counts' /\ writers' \in Nat /\ runs' \in Nat
  <2>1. CASE u \in Writer
    <3>1. CountedIn(Writer)' = CountedIn(Writer) \ {u} /\ CountedIn(Run)' = CountedIn(Run)
      BY <1>4, <2>1 DEF Decrement, CountedIn, TypeOK, Unit
    <3>2. u \in CountedIn(Writer) BY <1>4, <2>1 DEF Decrement, CountedIn
    <3>. QED BY <1>0, <1>4, <2>1, <3>1, <3>2, CountOneLess DEF Decrement, Counts, TypeOK
  <2>2. CASE u \notin Writer
    <3>1. CountedIn(Run)' = CountedIn(Run) \ {u} /\ CountedIn(Writer)' = CountedIn(Writer)
      BY <1>4, <2>2 DEF Decrement, CountedIn, TypeOK, Unit
    <3>2. u \in CountedIn(Run) BY <1>4, <2>2 DEF Decrement, CountedIn, Unit
    <3>. QED BY <1>0, <1>4, <2>2, <3>1, <3>2, CountOneLess DEF Decrement, Counts, TypeOK
  <2>. QED BY <2>1, <2>2
<1>5. ASSUME UNCHANGED <<writers, runs>>,
             CountedIn(Writer)' = CountedIn(Writer), CountedIn(Run)' = CountedIn(Run)
      PROVE  Counts' /\ writers' \in Nat /\ runs' \in Nat
  BY <1>5 DEF TypeOK, Counts
<1>6. ASSUME NEW u \in Unit, NEW p \in Unit \cup {None}, Ask(u, p)
      PROVE  Counts' /\ writers' \in Nat /\ runs' \in Nat
  BY <1>5, <1>6 DEF Ask, CountedIn, TypeOK, controller, Unit
<1>7. ASSUME NEW u \in Unit, Refused(u) \/ Leave(u) \/ StepOut(u)
      PROVE  Counts' /\ writers' \in Nat /\ runs' \in Nat
  BY <1>5, <1>7 DEF Refused, Leave, StepOut, StillCounted, Inside, CountedIn, TypeOK, controller, Unit
<1>8. ASSUME NEW u \in Unit, UnitStep(u) PROVE Counts' /\ writers' \in Nat /\ runs' \in Nat
  <2>1. CASE Writes(u) BY <1>1, <2>1 DEF Writes, controller, units
  <2>. QED BY <1>2, <1>3, <1>4, <1>6, <1>7, <1>8, <2>1 DEF UnitStep
<1>9. ASSUME NEW b \in Backup, Begin(b) \/ WindowStep(b) \/ CopyStep(b)
      PROVE  UNCHANGED <<at, writers, runs>>
  <2>1. CASE Begin(b) \/ CopyStep(b)
    BY <2>1 DEF Begin, CopyStep, StartCopy, CopyEnds, Judge, CopyFails, controller, units
  <2>2. CASE WindowStep(b)
    BY <2>2 DEF WindowStep, Poll, Wait, BusyWaitEnds, Close, CloseRefused, Drained, DrainFails,
         Recheck, Acquire, Verify, Hold, Release, ReleaseAgain, CapFires, CapReleases, Reopen,
         controller, units
  <2>. QED BY <1>9, <2>1, <2>2
<1>10. CASE LoseOwner \/ ForeignWrite \/ UNCHANGED vars
  BY <1>1, <1>10 DEF LoseOwner, ForeignWrite, vars, controller, units
<1>. QED BY <1>1, <1>8, <1>9, <1>10 DEF Next

\* Every step keeps the types; the counters stay natural because they are exact
LEMMA TypeStep ==
  ASSUME TypeOK, Counts, [Next]_vars
  PROVE  TypeOK'
<1>. USE QuiesceAssumption
<1>0. writers' \in Nat /\ runs' \in Nat BY CountStep
<1>1. ASSUME NEW u \in Unit, NEW p \in Unit \cup {None}, Ask(u, p) PROVE TypeOK'
  BY <1>0, <1>1 DEF TypeOK, Ask, Inside, Places, controller, backups
<1>2. ASSUME NEW u \in Unit, Admitted(u) \/ Refused(u) \/ Leave(u) \/ StepOut(u) \/ Reenter(u)
      PROVE TypeOK'
  BY <1>0, <1>2 DEF TypeOK, Admitted, Refused, Leave, StepOut, Reenter, Places, controller, backups
<1>3. ASSUME NEW u \in Unit, Writes(u) PROVE TypeOK'
  BY <1>0, <1>3 DEF TypeOK, Writes, controller, units
<1>4. ASSUME NEW u \in Unit, Decrement(u) PROVE TypeOK'
  BY <1>0, <1>4 DEF TypeOK, Decrement, LastOut, Places, backups
<1>5. ASSUME NEW b \in Backup, Begin(b) \/ CopyStep(b) PROVE TypeOK'
  BY <1>0, <1>5 DEF TypeOK, Begin, CopyStep, StartCopy, CopyEnds, Judge, CopyFails, Moves, Steps,
       controller, units
<1>6. ASSUME NEW b \in Backup, WindowStep(b) PROVE TypeOK'
  <2>1. CASE Poll(b) \/ Wait(b) \/ BusyWaitEnds(b) \/ CloseRefused(b) \/ Drained(b)
    BY <1>0, <2>1 DEF TypeOK, Poll, Wait, BusyWaitEnds, CloseRefused, Drained, Moves, Steps,
         controller, units
  <2>4. CASE Close(b)
    BY <1>0, <2>4 DEF TypeOK, Close, Moves, Steps, units
  <2>2. CASE DrainFails(b) \/ Recheck(b) \/ Acquire(b) \/ Verify(b) \/ Hold(b)
    BY ZenonT(60), <1>0, <2>2 DEF TypeOK, DrainFails, Recheck, Acquire, Verify, Hold, CapArmed, Moves, Steps,
         controller, units
  <2>3. CASE Release(b) \/ ReleaseAgain(b) \/ CapFires(b)
    BY ZenonT(60), <1>0, <2>3 DEF TypeOK, Release, ReleaseAgain, CapFires, ReleasedGuards, MarkExpired, Moves,
         Steps, controller, units
  <2>5. CASE CapReleases(b)
    BY <1>0, <2>5 DEF TypeOK, CapReleases, ReleasedGuards, controller, units
  <2>6. CASE Reopen(b)
    BY <1>0, <2>6 DEF TypeOK, Reopen, Steps, units
  <2>. QED BY <1>6, <2>1, <2>2, <2>3, <2>4, <2>5, <2>6 DEF WindowStep
<1>7. CASE LoseOwner \/ ForeignWrite
  BY <1>0, <1>7 DEF TypeOK, LoseOwner, ForeignWrite, controller, units, backups
<1>8. CASE UNCHANGED vars
  BY <1>8 DEF TypeOK, vars, controller, units, backups
<1>. QED BY <1>1, <1>2, <1>3, <1>4, <1>5, <1>6, <1>7, <1>8 DEF Next, UnitStep

-----------------------------------------------------------------------------
(* The inductive invariant *)

\* A unit that asks as a child is the child of a unit that is still inside,
\* which waits for the answer
Children ==
  \A u \in Unit : (at[u] = "asking" /\ via[u]) =>
    (under[u] \in Carriers(u) /\ at[under[u]] = "in")

Closed == {"drain", "recheck", "acquire", "verify", "hold"}
BeforeCopy == Closed \cup {"idle", "poll", "close", "retry", "reopening", "wait", "held"}
UnderWindow == {"held", "copy", "judge"}

\* A window belongs to the Begin that closed it until that one's Release, and to
\* the backup it returned to until the hard cap has marked it expired
Windows ==
  /\ held => window # None
  /\ \A b \in Backup : pc[b] \in Closed => (window = b /\ ~done[b])
  /\ \A b \in Backup : (pc[b] \in BeforeCopy \ {"held"}) => timer[b] = "off"
  /\ \A b \in Backup : timer[b] = "firing" => expired[b]
  /\ \A b \in Backup : (pc[b] \in UnderWindow /\ ~expired[b]) =>
       (window = b /\ held /\ ~done[b])

\* From the drain on no writer is inside, from the second check on no run
Quiet ==
  /\ (window # None /\ drained) => writers = 0
  /\ \A b \in Backup : pc[b] \in Closed \ {"drain"} => writers = 0
  /\ \A b \in Backup : pc[b] \in {"acquire", "verify", "hold"} => runs = 0
  /\ (held /\ ~done[window]) => (writers = 0 /\ runs = 0)

\* What is known of the data under a copy at each of its steps
Copies ==
  \A b \in Backup :
    /\ pc[b] \in BeforeCopy => ~dirty[b]
    /\ (pc[b] = "copy" /\ ~expired[b] /\ owner) => ~dirty[b]
    /\ (pc[b] = "judge" /\ ~expired[b]) => ~dirty[b]
    /\ kept[b] => (~dirty[b] /\ pc[b] \in {"unwind", "releasing", "done"})

IInv == TypeOK /\ Counts /\ Children /\ Windows /\ Quiet /\ Copies

\* A unit is inside: its counter is not zero
LEMMA InsideIsCounted ==
  ASSUME TypeOK, Counts, NEW u \in Unit, at[u] \in {"in", "stepping", "leaving"}
  PROVE  (u \in Writer => writers # 0) /\ (u \in Run => runs # 0)
BY QuiesceAssumption, ZeroIsNobody DEF Counts

\* A parent that is asked for a child does not leave before the child's answer
LEMMA ChildStep ==
  ASSUME IInv, Detached = {}, [Next]_vars
  PROVE  Children'
<1>. USE QuiesceAssumption DEF IInv
<1>1. ASSUME UNCHANGED units PROVE Children'
  BY <1>1 DEF Children, Carriers, units
<1>2. ASSUME NEW v \in Unit, NEW p \in Unit \cup {None}, Ask(v, p) PROVE Children'
  <2>. SUFFICES ASSUME NEW u \in Unit, at'[u] = "asking", via'[u]
                PROVE  under'[u] \in Carriers(u) /\ at'[under'[u]] = "in"
    BY DEF Children, Carriers
  <2>1. CASE u = v BY <1>2, <2>1 DEF Ask, Inside, TypeOK, Carriers, Unit
  <2>2. CASE u # v
    <3>1. at[u] = "asking" /\ via[u] /\ under'[u] = under[u]
      BY <1>2, <2>2 DEF Ask, TypeOK
    <3>2. under[u] \in Carriers(u) /\ at[under[u]] = "in" BY <3>1 DEF Children
    <3>. QED BY <1>2, <3>1, <3>2 DEF Ask, TypeOK, Carriers, Unit
  <2>. QED BY <2>1, <2>2
<1>3. ASSUME NEW v \in Unit,
             at' \in [Unit -> Places], at'[v] # "asking", \A u \in Unit \ {v} : at'[u] = at[u],
             UNCHANGED <<via, under>>, ~Busy(v) \/ at'[v] = "in" \/ at[v] # "in"
      PROVE  Children'
  <2>. SUFFICES ASSUME NEW u \in Unit, at'[u] = "asking", via'[u]
                PROVE  under'[u] \in Carriers(u) /\ at'[under'[u]] = "in"
    BY DEF Children, Carriers
  <2>1. u # v /\ at[u] = "asking" /\ via[u] /\ under'[u] = under[u] BY <1>3
  <2>2. under[u] \in Carriers(u) /\ at[under[u]] = "in" BY <2>1 DEF Children
  <2>3. CASE under[u] # v BY <1>3, <2>1, <2>2, <2>3 DEF Carriers, Unit
  <2>4. CASE under[u] = v
    <3>1. Busy(v) BY <2>1, <2>4 DEF Busy
    <3>. QED BY <1>3, <2>1, <2>2, <2>4, <3>1
  <2>. QED BY <2>3, <2>4
<1>4. ASSUME NEW v \in Unit, Admitted(v) \/ Refused(v) \/ Leave(v) \/ StepOut(v) \/ Decrement(v) \/ Reenter(v)
      PROVE Children'
  <2>1. CASE Admitted(v) \/ Reenter(v) \/ Refused(v)
    BY <1>3, <2>1, TypeStep DEF Admitted, Reenter, Refused, TypeOK
  <2>2. CASE Leave(v) \/ StepOut(v)
    BY <1>3, <2>2, TypeStep DEF Leave, StepOut, TypeOK
  <2>3. CASE Decrement(v)
    BY <1>3, <2>3, TypeStep DEF Decrement, TypeOK
  <2>. QED BY <1>4, <2>1, <2>2, <2>3
<1>5. ASSUME NEW b \in Backup, Begin(b) \/ WindowStep(b) \/ CopyStep(b) PROVE UNCHANGED units
  <2>1. CASE Begin(b) \/ CopyStep(b)
    BY <2>1 DEF Begin, CopyStep, StartCopy, CopyEnds, Judge, CopyFails, units
  <2>2. CASE WindowStep(b)
    BY <2>2 DEF WindowStep, Poll, Wait, BusyWaitEnds, Close, CloseRefused, Drained, DrainFails,
         Recheck, Acquire, Verify, Hold, Release, ReleaseAgain, CapFires, CapReleases, Reopen, units
  <2>. QED BY <1>5, <2>1, <2>2
<1>6. ASSUME NEW u \in Unit, UnitStep(u) PROVE Children'
  <2>1. CASE Writes(u) BY <1>1, <2>1 DEF Writes
  <2>. QED BY <1>2, <1>4, <1>6, <2>1 DEF UnitStep
<1>7. CASE LoseOwner \/ ForeignWrite \/ UNCHANGED vars
  BY <1>1, <1>7 DEF LoseOwner, ForeignWrite, vars
<1>. QED BY <1>1, <1>5, <1>6, <1>7 DEF Next

\* Windows belong to their backups
LEMMA WindowsStep ==
  ASSUME TypeOK, Windows, [Next]_vars
  PROVE  Windows'
<1>. USE QuiesceAssumption
<1>1. ASSUME UNCHANGED <<window, held, pc, done, timer, expired>> PROVE Windows'
  BY <1>1 DEF Windows
<1>2. ASSUME NEW u \in Unit, UnitStep(u) PROVE UNCHANGED <<window, held, pc, done, timer, expired>>
  BY <1>2 DEF UnitStep, Ask, Admitted, Refused, Writes, Leave, StepOut, Decrement, Reenter,
       controller, backups
<1>3. ASSUME NEW b \in Backup, Begin(b) \/ CopyStep(b) PROVE Windows'
  BY <1>3 DEF Windows, TypeOK, Begin, CopyStep, StartCopy, CopyEnds, Judge, CopyFails, Moves,
       controller, Closed, BeforeCopy, UnderWindow
<1>4. ASSUME NEW b \in Backup, Poll(b) \/ Wait(b) \/ CloseRefused(b) \/ DrainFails(b) PROVE Windows'
  BY <1>4 DEF Windows, TypeOK, Poll, Wait, CloseRefused, DrainFails, Moves, controller,
       Closed, BeforeCopy, UnderWindow
<1>5. ASSUME NEW b \in Backup, Drained(b) \/ Recheck(b) \/ Acquire(b) \/ Verify(b) PROVE Windows'
  BY <1>5 DEF Windows, TypeOK, Drained, Recheck, Acquire, Verify, Moves, controller,
       Closed, BeforeCopy, UnderWindow
<1>6. ASSUME NEW b \in Backup, Close(b) PROVE Windows'
  BY <1>6 DEF Windows, TypeOK, Close, Moves, Closed, BeforeCopy, UnderWindow
<1>7. ASSUME NEW b \in Backup, Hold(b) PROVE Windows'
  BY <1>7 DEF Windows, TypeOK, Hold, CapArmed, Moves, Closed, BeforeCopy, UnderWindow
<1>8. ASSUME NEW b \in Backup, Release(b) \/ ReleaseAgain(b) PROVE Windows'
  BY <1>8 DEF Windows, TypeOK, Release, ReleaseAgain, Moves, controller, Closed, BeforeCopy, UnderWindow
<1>9. ASSUME NEW b \in Backup, CapFires(b) \/ CapReleases(b) PROVE Windows'
  BY <1>9 DEF Windows, TypeOK, CapFires, CapReleases, MarkExpired, controller, Closed, BeforeCopy, UnderWindow
<1>10. ASSUME NEW b \in Backup, Reopen(b) PROVE Windows'
  BY <1>10 DEF Windows, TypeOK, Reopen, Closed, BeforeCopy, UnderWindow
<1>11. ASSUME NEW b \in Backup, BusyWaitEnds(b) PROVE Windows'
  BY <1>1, <1>11 DEF BusyWaitEnds, controller
<1>12. CASE LoseOwner \/ ForeignWrite \/ UNCHANGED vars
  BY <1>1, <1>12 DEF LoseOwner, ForeignWrite, vars, controller, backups
<1>. QED
  BY <1>1, <1>2, <1>3, <1>4, <1>5, <1>6, <1>7, <1>8, <1>9, <1>10, <1>11, <1>12 DEF Next, WindowStep

\* While a window is open a unit is admitted only beside a counted parent
LEMMA AdmittedBesideParent ==
  ASSUME IInv, NEW u \in Unit, Admitted(u), window # None
  PROVE  (u \in Writer => writers # 0) /\ (writers # 0 \/ runs # 0)
<1>1. under[u] \in Carriers(u) /\ at[under[u]] = "in"
  BY DEF IInv, Admitted, MayEnter, Children
<1>2. under[u] \in Unit BY <1>1 DEF Carriers, Unit
<1>. QED BY <1>1, <1>2, InsideIsCounted DEF IInv, Carriers, Unit

\* A window that drained stays drained, and one that passed the second check
\* stays without runs
LEMMA QuietStep ==
  ASSUME IInv, [Next]_vars
  PROVE  Quiet'
<1>. USE QuiesceAssumption DEF IInv
<1>1. ASSUME UNCHANGED <<window, held, writers, runs, drained, pc, done>> PROVE Quiet'
  BY <1>1 DEF Quiet
<1>2. ASSUME NEW u \in Unit, Admitted(u) PROVE Quiet'
  <2>1. CASE window = None
    <3>1. ~held /\ \A b \in Backup : pc[b] \notin Closed
      BY <2>1 DEF Windows
    <3>. QED BY <1>2, <2>1, <3>1 DEF Admitted, Quiet, Closed, backups
  <2>2. CASE window # None
    <3>1. (u \in Writer => writers # 0) /\ (writers # 0 \/ runs # 0)
      BY <1>2, <2>2, AdmittedBesideParent
    <3>2. (u \notin Writer => writers' = writers) BY <1>2 DEF Admitted
    <3>3. (window # None /\ drained) => writers' = 0 BY <3>1, <3>2 DEF Quiet
    <3>4. \A b \in Backup : pc[b] \in Closed \ {"drain"} => writers' = 0 BY <3>1, <3>2 DEF Quiet
    <3>5. \A b \in Backup : pc[b] \notin {"acquire", "verify", "hold"}
      BY <3>1 DEF Quiet, Closed
    <3>6. ~(held /\ ~done[window]) BY <3>1 DEF Quiet
    <3>. QED BY <1>2, <3>3, <3>4, <3>5, <3>6 DEF Admitted, Quiet, backups
  <2>. QED BY <2>1, <2>2
<1>3. ASSUME NEW u \in Unit, Decrement(u) PROVE Quiet'
  <2>1. (u \in Writer => writers # 0) /\ (u \in Run => runs # 0)
    BY <1>3, InsideIsCounted DEF Decrement
  <2>2. CASE u \in Writer
    <3>1. ~(window # None /\ drained) /\ ~(held /\ ~done[window])
      BY <2>1, <2>2 DEF Quiet
    <3>2. \A b \in Backup : pc[b] \notin Closed \ {"drain"} BY <2>1, <2>2 DEF Quiet
    <3>3. (window # None /\ drained') => writers' = 0
      <4>1. drained' <=> (drained \/ LastOut) BY <1>3, <2>2 DEF Decrement
      <4>2. LastOut => writers' = 0 BY <1>3, <2>2 DEF Decrement, LastOut
      <4>. QED BY <3>1, <4>1, <4>2
    <3>4. UNCHANGED <<window, held, pc, done>> BY <1>3 DEF Decrement, backups
    <3>. QED BY <3>1, <3>2, <3>3, <3>4 DEF Quiet, Closed
  <2>3. CASE u \notin Writer
    <3>1. UNCHANGED <<window, held, writers, drained, pc, done>> /\ runs # 0
      BY <1>3, <2>1, <2>3 DEF Decrement, Unit, backups
    <3>. QED BY <3>1 DEF Quiet
  <2>. QED BY <2>2, <2>3
<1>4. ASSUME NEW u \in Unit, Reenter(u) PROVE Quiet'
  <2>1. ~held /\ \A b \in Backup : pc[b] \notin Closed
    BY <1>4 DEF Reenter, Windows
  <2>. QED BY <1>4, <2>1 DEF Reenter, Quiet, Closed, backups
<1>5. ASSUME NEW u \in Unit, UnitStep(u) PROVE Quiet'
  <2>1. CASE \E p \in Unit \cup {None} : Ask(u, p) BY <1>1, <2>1 DEF Ask, controller, backups
  <2>2. CASE Refused(u) \/ Leave(u) \/ StepOut(u) \/ Writes(u)
    BY <1>1, <2>2 DEF Refused, Leave, StepOut, Writes, controller, backups
  <2>. QED BY <1>2, <1>3, <1>4, <1>5, <2>1, <2>2 DEF UnitStep
<1>6. ASSUME NEW b \in Backup, Begin(b) \/ CopyStep(b) PROVE Quiet'
  BY <1>6 DEF Quiet, TypeOK, Begin, CopyStep, StartCopy, CopyEnds, Judge, CopyFails, Moves,
       controller, Closed
<1>7. ASSUME NEW b \in Backup, Poll(b) \/ Wait(b) \/ CloseRefused(b) \/ DrainFails(b) PROVE Quiet'
  BY <1>7 DEF Quiet, TypeOK, Poll, Wait, CloseRefused, DrainFails, Moves, controller, Closed
<1>8. ASSUME NEW b \in Backup, Drained(b) PROVE Quiet'
  BY <1>8 DEF Quiet, Windows, TypeOK, Drained, Moves, controller, Closed
<1>9. ASSUME NEW b \in Backup, Recheck(b) \/ Acquire(b) \/ Verify(b) PROVE Quiet'
  BY <1>9 DEF Quiet, TypeOK, Recheck, NothingRuns, Acquire, Verify, Moves, controller, Closed
<1>10. ASSUME NEW b \in Backup, Close(b) PROVE Quiet'
  <2>1. ~held /\ \A a \in Backup : pc[a] \notin Closed BY <1>10 DEF Close, Windows
  <2>. QED BY <1>10, <2>1 DEF Quiet, TypeOK, Close, Moves, Closed
<1>11. ASSUME NEW b \in Backup, Hold(b) PROVE Quiet'
  BY <1>11 DEF Quiet, TypeOK, Hold, Moves, Closed
<1>12. ASSUME NEW b \in Backup, Release(b) \/ ReleaseAgain(b) PROVE Quiet'
  BY <1>12 DEF Quiet, Windows, TypeOK, Release, ReleaseAgain, Moves, controller, Closed
<1>13. ASSUME NEW b \in Backup, CapFires(b) \/ CapReleases(b) PROVE Quiet'
  BY <1>13 DEF Quiet, Windows, TypeOK, CapFires, CapReleases, controller
<1>14. ASSUME NEW b \in Backup, Reopen(b) PROVE Quiet'
  BY <1>14 DEF Quiet, TypeOK, Reopen, Closed
<1>15. ASSUME NEW b \in Backup, BusyWaitEnds(b) PROVE Quiet'
  BY <1>1, <1>15 DEF BusyWaitEnds, controller
<1>16. CASE LoseOwner \/ ForeignWrite \/ UNCHANGED vars
  BY <1>1, <1>16 DEF LoseOwner, ForeignWrite, vars, controller, backups
<1>. QED
  BY <1>5, <1>6, <1>7, <1>8, <1>9, <1>10, <1>11, <1>12, <1>13, <1>14, <1>15, <1>16 DEF Next, WindowStep

\* Nobody writes under a copy that may still be kept
LEMMA CopiesStep ==
  ASSUME IInv, [Next]_vars
  PROVE  Copies'
<1>. USE QuiesceAssumption DEF IInv
<1>1. ASSUME UNCHANGED <<pc, expired, owner, dirty, kept>> PROVE Copies'
  BY <1>1 DEF Copies
<1>2. ASSUME NEW u \in Unit, Writes(u) PROVE Copies'
  <2>1. \A b \in Backup : ~(pc[b] = "copy" /\ ~expired[b])
    <3>1. SUFFICES ASSUME NEW b \in Backup, pc[b] = "copy", ~expired[b] PROVE FALSE
      OBVIOUS
    <3>2. writers = 0 /\ runs = 0 BY <3>1 DEF Windows, Quiet, UnderWindow
    <3>3. u \in Writer \/ u \in Run BY DEF Unit
    <3>. QED BY <1>2, <3>2, <3>3, InsideIsCounted DEF Writes, Inside
  <2>. QED BY <1>2, <2>1 DEF Writes, Copies, TypeOK, controller, BeforeCopy, Closed
<1>3. ASSUME NEW u \in Unit, UnitStep(u) PROVE Copies'
  <2>1. CASE \E p \in Unit \cup {None} : Ask(u, p) BY <1>1, <2>1 DEF Ask, backups
  <2>2. CASE Admitted(u) \/ Refused(u) \/ Leave(u) \/ StepOut(u) \/ Decrement(u) \/ Reenter(u)
    BY <1>1, <2>2 DEF Admitted, Refused, Leave, StepOut, Decrement, Reenter, backups
  <2>. QED BY <1>2, <1>3, <2>1, <2>2 DEF UnitStep
<1>4. ASSUME NEW b \in Backup, Begin(b) \/ CopyStep(b) PROVE Copies'
  BY <1>4 DEF Copies, TypeOK, Begin, CopyStep, StartCopy, CopyEnds, Judge, CopyFails, Moves,
       BeforeCopy, Closed
<1>5. ASSUME NEW b \in Backup, Poll(b) \/ Wait(b) \/ Close(b) \/ CloseRefused(b) \/ Drained(b) \/ DrainFails(b)
      PROVE Copies'
  BY <1>5 DEF Copies, TypeOK, Poll, Wait, Close, CloseRefused, Drained, DrainFails, Moves, BeforeCopy, Closed
<1>6. ASSUME NEW b \in Backup, Recheck(b) \/ Acquire(b) \/ Verify(b) \/ Hold(b) PROVE Copies'
  BY <1>6 DEF Copies, TypeOK, Recheck, Acquire, Verify, Hold, Moves, BeforeCopy, Closed
<1>7. ASSUME NEW b \in Backup, Release(b) \/ ReleaseAgain(b) PROVE Copies'
  BY <1>7 DEF Copies, TypeOK, Release, ReleaseAgain, Moves, BeforeCopy, Closed
<1>8. ASSUME NEW b \in Backup, CapFires(b) \/ CapReleases(b) PROVE Copies'
  BY <1>8 DEF Copies, TypeOK, CapFires, CapReleases, MarkExpired, BeforeCopy, Closed
<1>9. ASSUME NEW b \in Backup, Reopen(b) PROVE Copies'
  BY <1>9 DEF Copies, TypeOK, Reopen, BeforeCopy, Closed
<1>10. ASSUME NEW b \in Backup, BusyWaitEnds(b) PROVE Copies'
  BY <1>1, <1>10 DEF BusyWaitEnds
<1>11. CASE LoseOwner \/ ForeignWrite
  BY <1>11 DEF LoseOwner, ForeignWrite, Copies, TypeOK, backups, BeforeCopy, Closed
<1>12. CASE UNCHANGED vars BY <1>1, <1>12 DEF vars, backups
<1>. QED
  BY <1>3, <1>4, <1>5, <1>6, <1>7, <1>8, <1>9, <1>10, <1>11, <1>12 DEF Next, WindowStep

-----------------------------------------------------------------------------
(* Theorems *)

LEMMA InitIInv == Init => IInv
<1>. SUFFICES ASSUME Init PROVE IInv OBVIOUS
<1>1. TypeOK BY QuiesceAssumption DEF Init, TypeOK, Places, Steps
<1>2. CountedIn(Writer) = {} /\ CountedIn(Run) = {} BY DEF Init, CountedIn, Unit
<1>3. Counts BY <1>2, FS_EmptySet DEF Init, Counts
<1>4. Children /\ Windows /\ Quiet /\ Copies
  BY DEF Init, Children, Windows, Quiet, Copies, Closed, BeforeCopy, UnderWindow, Unit
<1>. QED BY <1>1, <1>3, <1>4 DEF IInv

\* The invariant holds when every child is asked for on its parent's goroutine.
THEOREM WindowInvariant == ASSUME Detached = {} PROVE Spec => []IInv
<1>1. IInv /\ [Next]_vars => IInv'
  <2>. SUFFICES ASSUME IInv, [Next]_vars PROVE IInv' OBVIOUS
  <2>1. TypeOK' /\ Counts' BY CountStep, TypeStep DEF IInv
  <2>. QED BY <2>1, ChildStep, WindowsStep, QuietStep, CopiesStep DEF IInv
<1>. QED BY <1>1, InitIInv, PTL DEF Spec

\* While a window holds and is not being released nobody writes protected data:
\* WritesHeld is never true for a writer inside the gate, nor for an admitted
\* run.  It needs that no child enters on a goroutine its parent does not wait
\* for; the run quiesce_child shows that it fails otherwise.
THEOREM HeldWindowIsQuiet == ASSUME Detached = {} PROVE Spec => []HeldIsQuiet
<1>1. IInv => HeldIsQuiet
  <2>. SUFFICES ASSUME IInv, held, ~done[window], NEW u \in Unit, Inside(u) PROVE FALSE
    BY DEF HeldIsQuiet
  <2>1. writers = 0 /\ runs = 0 BY DEF IInv, Quiet
  <2>2. u \in Writer \/ u \in Run BY DEF Unit
  <2>. QED BY <2>1, <2>2, InsideIsCounted DEF IInv, Inside
<1>. QED BY <1>1, WindowInvariant, PTL

\* A copy that CreateInstanceBackup keeps was not written to while it was taken,
\* for any interleaving of the hard cap, the loss of the database and the copy.
THEOREM KeptCopies == ASSUME Detached = {} PROVE Spec => []KeptCopyIsConsistent
<1>1. IInv => KeptCopyIsConsistent BY DEF IInv, Copies, KeptCopyIsConsistent
<1>. QED BY <1>1, WindowInvariant, PTL

-----------------------------------------------------------------------------
(* What holds for detached children too *)

\* A Begin that drains has its channel closed, or somebody inside is going to close it
Wakes ==
  \A b \in Backup : pc[b] = "drain" => (drained \/ (waiting /\ writers # 0))

WInv == TypeOK /\ Counts /\ Windows /\ Wakes /\ GuardsEndWithWindow

LEMMA WakesStep ==
  ASSUME WInv, [Next]_vars
  PROVE  Wakes'
<1>. USE QuiesceAssumption DEF WInv
<1>1. ASSUME \A b \in Backup : pc'[b] = "drain" => pc[b] = "drain",
             UNCHANGED <<drained, waiting, writers>>
      PROVE  Wakes'
  BY <1>1 DEF Wakes
<1>2. ASSUME NEW u \in Unit, UnitStep(u) PROVE Wakes'
  <2>1. pc' = pc BY <1>2 DEF UnitStep, Ask, Admitted, Refused, Writes, Leave, StepOut,
                         Decrement, Reenter, backups
  <2>2. CASE Admitted(u) \/ Reenter(u)
    <3>1. writers' = writers \/ writers' = writers + 1 BY <2>2 DEF Admitted, Reenter
    <3>2. UNCHANGED <<drained, waiting>> BY <2>2 DEF Admitted, Reenter
    <3>. QED BY <2>1, <3>1, <3>2 DEF Wakes, TypeOK
  <2>3. CASE Decrement(u) BY <2>1, <2>3 DEF Decrement, LastOut, Wakes, TypeOK
  <2>4. CASE UNCHANGED controller BY <1>1, <2>1, <2>4 DEF controller
  <2>. QED BY <1>2, <2>2, <2>3, <2>4 DEF UnitStep, Ask, Refused, Writes, Leave, StepOut
<1>3. ASSUME NEW b \in Backup, Begin(b) \/ CopyStep(b) PROVE Wakes'
  BY <1>1, <1>3 DEF Begin, CopyStep, StartCopy, CopyEnds, Judge, CopyFails, Moves, controller, TypeOK
<1>4. ASSUME NEW b \in Backup, Poll(b) \/ Wait(b) \/ BusyWaitEnds(b) \/ CloseRefused(b)
             \/ Drained(b) \/ DrainFails(b) \/ Recheck(b) \/ Acquire(b) \/ Verify(b) \/ Hold(b)
      PROVE  Wakes'
  BY <1>1, <1>4 DEF Poll, Wait, BusyWaitEnds, CloseRefused, Drained, DrainFails, Recheck,
       Acquire, Verify, Hold, Moves, controller, TypeOK
<1>5. ASSUME NEW b \in Backup, Release(b) \/ ReleaseAgain(b) \/ CapFires(b) \/ CapReleases(b)
      PROVE  Wakes'
  BY <1>1, <1>5 DEF Release, ReleaseAgain, CapFires, CapReleases, Moves, controller, TypeOK
<1>6. ASSUME NEW b \in Backup, Close(b) PROVE Wakes'
  <2>1. drained' \/ (waiting' /\ writers' # 0) BY <1>6 DEF Close
  <2>. QED BY <2>1 DEF Wakes
<1>7. ASSUME NEW b \in Backup, Reopen(b) PROVE Wakes'
  <2>1. \A a \in Backup : pc[a] # "drain" BY <1>7 DEF Reopen, Windows, Closed
  <2>2. \A a \in Backup : pc'[a] # "drain" BY <1>7, <2>1 DEF Reopen, TypeOK
  <2>. QED BY <2>2 DEF Wakes
<1>8. CASE LoseOwner \/ ForeignWrite \/ UNCHANGED vars
  BY <1>1, <1>8 DEF LoseOwner, ForeignWrite, vars, controller, backups
<1>. QED BY <1>2, <1>3, <1>4, <1>5, <1>6, <1>7, <1>8 DEF Next, WindowStep

LEMMA GuardsStep ==
  ASSUME WInv, [Next]_vars
  PROVE  GuardsEndWithWindow'
<1>. USE QuiesceAssumption DEF WInv
<1>1. ASSUME UNCHANGED <<window, done, guards>> PROVE GuardsEndWithWindow'
  BY <1>1 DEF GuardsEndWithWindow
<1>2. ASSUME NEW u \in Unit, UnitStep(u) PROVE GuardsEndWithWindow'
  BY <1>1, <1>2 DEF UnitStep, Ask, Admitted, Refused, Writes, Leave, StepOut, Decrement, Reenter,
       controller, backups
<1>3. ASSUME NEW b \in Backup, Begin(b) \/ CopyStep(b) PROVE GuardsEndWithWindow'
  BY <1>1, <1>3 DEF Begin, CopyStep, StartCopy, CopyEnds, Judge, CopyFails, controller
<1>4. ASSUME NEW b \in Backup, Poll(b) \/ Wait(b) \/ BusyWaitEnds(b) \/ CloseRefused(b)
             \/ Drained(b) \/ DrainFails(b) \/ Recheck(b) \/ Verify(b) \/ Hold(b)
             \/ ReleaseAgain(b) \/ CapFires(b)
      PROVE  GuardsEndWithWindow'
  BY <1>1, <1>4 DEF Poll, Wait, BusyWaitEnds, CloseRefused, Drained, DrainFails, Recheck,
       Verify, Hold, ReleaseAgain, CapFires, controller
<1>5. ASSUME NEW b \in Backup, Acquire(b) PROVE GuardsEndWithWindow'
  <2>1. window = b /\ ~done[b] BY <1>5 DEF Acquire, Moves, Windows, Closed
  <2>. QED BY <1>5, <2>1 DEF Acquire, controller, GuardsEndWithWindow, TypeOK
<1>6. ASSUME NEW b \in Backup, Close(b) PROVE GuardsEndWithWindow'
  BY <1>6 DEF Close, GuardsEndWithWindow, TypeOK
<1>7. ASSUME NEW b \in Backup, Release(b) \/ CapReleases(b) PROVE GuardsEndWithWindow'
  BY <1>7 DEF Release, CapReleases, ReleasedGuards, controller, GuardsEndWithWindow, TypeOK
<1>8. ASSUME NEW b \in Backup, Reopen(b) PROVE GuardsEndWithWindow'
  BY <1>8 DEF Reopen, GuardsEndWithWindow, TypeOK
<1>9. CASE LoseOwner \/ ForeignWrite \/ UNCHANGED vars
  BY <1>1, <1>9 DEF LoseOwner, ForeignWrite, vars, controller, backups
<1>. QED BY <1>2, <1>3, <1>4, <1>5, <1>6, <1>7, <1>8, <1>9 DEF Next, WindowStep

LEMMA WindowBookkeeping == Spec => []WInv
<1>1. Init => WInv
  BY InitIInv DEF IInv, WInv, Init, Wakes, GuardsEndWithWindow
<1>2. WInv /\ [Next]_vars => WInv'
  <2>. SUFFICES ASSUME WInv, [Next]_vars PROVE WInv' OBVIOUS
  <2>. QED BY CountStep, TypeStep, WindowsStep, WakesStep, GuardsStep DEF WInv
<1>. QED BY <1>1, <1>2, PTL DEF Spec

\* Types, and counters that no Leave, Yield or return takes below zero.
THEOREM WindowTypes == Spec => []TypeOK
<1>1. WInv => TypeOK BY DEF WInv
<1>. QED BY <1>1, WindowBookkeeping, PTL

\* drain never waits for its timeout with nobody inside, for any number of writers
\* and backups and for detached children too: the last one out closes the channel.
THEOREM DrainIsWoken == Spec => []DrainWakes
<1>1. WInv => DrainWakes BY DEF WInv, Wakes, DrainWakes
<1>. QED BY <1>1, WindowBookkeeping, PTL

\* The guards that Acquire took are given back with their window on every exit.
THEOREM GuardsAreGivenBack == Spec => []GuardsEndWithWindow
<1>1. WInv => GuardsEndWithWindow BY DEF WInv
<1>. QED BY <1>1, WindowBookkeeping, PTL
=============================================================================
