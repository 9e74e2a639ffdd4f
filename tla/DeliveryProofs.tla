--------------------------- MODULE DeliveryProofs ----------------------------
(***************************************************************************)
(* Proofs about webhook acceptance and retention, for any senders, any     *)
(* limits, any number of ids and of sweepers and any page size.            *)
(***************************************************************************)
EXTENDS Delivery, FiniteSetTheorems, WellFoundedInduction, TLAPS

USE DeliveryAssumption

-----------------------------------------------------------------------------
(* The inductive invariant *)

\* A row was minted, a payload and a tombstone belong to a row, and only an
\* accepted delivery has work
Tables ==
  /\ delivery \in [Id -> Deliveries \cup {Nothing}]
  /\ work \in [Id -> {"none", "live", "ended"}]
  /\ present \subseteq Minted
  /\ raw \subseteq present /\ tombstone \subseteq present
  /\ \A i \in Id : i \notin Minted => work[i] = "none"

\* What a sweeper took for old or ripe when it began still is
Sweepers ==
  /\ sweep = [s \in Sweeper |-> sweep[s]]
  /\ \A s \in Sweeper : sweep[s] = [f \in DOMAIN IdleSweep |-> sweep[s][f]]
  /\ \A s \in Sweeper : sweep[s].old \subseteq old /\ sweep[s].ripe \subseteq ripe

\* The unique index: one row per endpoint and source delivery id
OneRowPerSource ==
  \A i, j \in present : delivery[i].src = delivery[j].src => i = j

IInv == Tables /\ Sweepers /\ OneRowPerSource /\ RetentionKeepsItsPromise

-----------------------------------------------------------------------------
(* Acceptance *)

\* A fresh id is an answer only to a source that has no row
LEMMA FreshIsUnrecorded ==
  ASSUME Tables, NEW d \in Deliveries, NEW i \in Id, Accept(d, i)
  PROVE  Recorded(d.src) = {} /\ i \notin Minted /\ delivery[i] = Nothing
<1>1. i \in Answers(d) /\ i \in Id /\ i \notin Minted BY DEF Accept
<1>2. i \notin OnRecord(d) BY <1>1 DEF OnRecord, Recorded, Tables, Refusals
<1>3. i \notin Refusals OBVIOUS
<1>. QED BY <1>1, <1>2, <1>3 DEF Answers, ReceiptOrRefusal, Transaction, Refusals, Minted

\* Tables after an acceptance
LEMMA AcceptKeeps ==
  ASSUME IInv, NEW d \in Deliveries, NEW i \in Id, Accept(d, i)
  PROVE  IInv'
<1>. USE DEF IInv
<1>1. Recorded(d.src) = {} /\ i \notin Minted /\ delivery[i] = Nothing
  BY FreshIsUnrecorded
<1>2. Minted' = Minted \cup {i} BY DEF Accept, Minted, Tables
<1>3. Tables' BY <1>1, <1>2 DEF Tables, Accept
<1>4. Sweepers' BY DEF Sweepers, Accept, time
<1>5. OneRowPerSource'
  BY <1>1 DEF OneRowPerSource, Accept, Recorded, Tables, Minted
<1>6. RetentionKeepsItsPromise'
  BY <1>1, <1>2 DEF RetentionKeepsItsPromise, Owed, Accept, Tables, time
<1>. QED BY <1>3, <1>4, <1>5, <1>6

-----------------------------------------------------------------------------
(* Retention *)

\* A sweeper that moves on changes nothing but itself and learns nothing new
LEMMA SweeperMoves ==
  ASSUME IInv, NEW s \in Sweeper,
         StartSweep(s) \/ WalkBodies(s) \/ WalkReceipts(s) \/ SweepFails(s)
  PROVE  IInv' /\ UNCHANGED <<time, tables>>
<1>. USE DEF IInv
<1>1. UNCHANGED <<time, tables>>
  BY DEF StartSweep, WalkBodies, WalkReceipts, SweepFails
<1>2. Sweepers'
  <2>1. CASE StartSweep(s) BY <2>1 DEF Sweepers, StartSweep, IdleSweep, time
  <2>2. CASE WalkBodies(s)
    <3>1. CASE To(s, "receipts") BY <1>1, <3>1 DEF Sweepers, To, IdleSweep, time
    <3>2. ASSUME NEW a, NEW b, NEW c, NEW e,
                 sweep' = [sweep EXCEPT ![s].at = a, ![s].after = b, ![s].page = c, ![s].last = e]
          PROVE  Sweepers'
      BY <1>1, <3>2 DEF Sweepers, time
    <3>. QED BY <2>2, <3>1, <3>2 DEF WalkBodies
  <2>3. CASE WalkReceipts(s)
    <3>1. CASE sweep' = [sweep EXCEPT ![s] = IdleSweep] BY <1>1, <3>1 DEF Sweepers, IdleSweep, time
    <3>2. ASSUME NEW a, NEW b, NEW c, NEW e,
                 sweep' = [sweep EXCEPT ![s].at = a, ![s].after = b, ![s].page = c, ![s].last = e]
          PROVE  Sweepers'
      BY <1>1, <3>2 DEF Sweepers, time
    <3>. QED BY <2>3, <3>1, <3>2 DEF WalkReceipts
  <2>4. CASE SweepFails(s) BY <1>1, <2>4 DEF Sweepers, SweepFails, IdleSweep, time
  <2>. QED BY <2>1, <2>2, <2>3, <2>4
<1>3. Tables' /\ OneRowPerSource' /\ RetentionKeepsItsPromise'
  BY <1>1 DEF Tables, OneRowPerSource, RetentionKeepsItsPromise, Owed, Minted, time, tables
<1>. QED BY SMTT(30), <1>1, <1>2, <1>3

\* Payloads go only when their work has ended and their time has come
LEMMA ExpireKeeps ==
  ASSUME IInv, NEW s \in Sweeper, ExpireBodies(s)
  PROVE  IInv'
<1>. USE DEF IInv
<1>1. PICK gone \in SUBSET raw :
        /\ \A i \in gone : Settled(i) /\ i \in sweep[s].ripe
        /\ raw' = raw \ gone /\ tombstone' = tombstone \cup gone
  BY DEF ExpireBodies
<1>2. UNCHANGED <<time, delivery, present, work, other>> BY DEF ExpireBodies
<1>3. Sweepers'
  <2>1. CASE To(s, "receipts") BY <1>2, <2>1 DEF Sweepers, To, IdleSweep, time
  <2>2. CASE sweep' = [sweep EXCEPT ![s].at = "bodies", ![s].page = {}]
    BY SMTT(30), <1>2, <2>2 DEF Sweepers, time
  <2>. QED BY <2>1, <2>2 DEF ExpireBodies
<1>4. Tables' BY <1>1, <1>2 DEF Tables, Minted
<1>5. OneRowPerSource' BY <1>2 DEF OneRowPerSource
<1>6. RetentionKeepsItsPromise'
  BY <1>1, <1>2 DEF RetentionKeepsItsPromise, Owed, Minted, Settled, Sweepers, time
<1>. QED BY <1>3, <1>4, <1>5, <1>6

\* The rows a page deletes: past their window, and their work has ended
LEMMA DeletedRows ==
  ASSUME IInv, NEW s \in Sweeper, DeleteReceipts(s)
  PROVE  \E gone \in SUBSET present :
           /\ gone \cap Live = {} /\ gone \subseteq old
           /\ present' = present \ gone
           /\ raw' = raw \ gone /\ tombstone' = tombstone \ gone
<1>. DEFINE gone == {i \in sweep[s].page : Forgettable(i, s)}
<1>1. /\ gone \in SUBSET present /\ gone \subseteq old
      /\ gone \cap Live = {}
  BY DEF Forgettable, Settled, Live, IInv, Sweepers
<1>2. present' = present \ gone /\ raw' = raw \ gone /\ tombstone' = tombstone \ gone
  BY DEF DeleteReceipts
<1>. QED BY <1>1, <1>2

LEMMA DeleteKeeps ==
  ASSUME IInv, NEW s \in Sweeper, DeleteReceipts(s)
  PROVE  IInv'
<1>. USE DEF IInv
<1>1. PICK gone \in SUBSET present :
        /\ gone \cap Live = {} /\ gone \subseteq old
        /\ present' = present \ gone
        /\ raw' = raw \ gone /\ tombstone' = tombstone \ gone
  BY DeletedRows
<1>2. UNCHANGED <<time, delivery, work, other>> BY DEF DeleteReceipts
<1>3. Sweepers'
  <2>1. CASE sweep' = [sweep EXCEPT ![s] = IdleSweep] BY <1>2, <2>1 DEF Sweepers, IdleSweep, time
  <2>2. CASE sweep' = [sweep EXCEPT ![s] = [sweep[s] EXCEPT !.at = "receipts", !.page = {}]]
    <3>1. PICK next : next = [sweep[s] EXCEPT !.at = "receipts", !.page = {}] OBVIOUS
    <3>2. next = [f \in DOMAIN IdleSweep |-> next[f]] /\ next.old = sweep[s].old /\ next.ripe = sweep[s].ripe
      BY ZenonT(60), <3>1 DEF Sweepers, IdleSweep
    <3>3. sweep' = [sweep EXCEPT ![s] = next] BY <2>2, <3>1
    <3>. QED BY <1>2, <3>2, <3>3 DEF Sweepers, time
  <2>. QED BY <2>1, <2>2 DEF DeleteReceipts
<1>4. Tables' BY <1>1, <1>2 DEF Tables, Minted
<1>5. OneRowPerSource' BY <1>1, <1>2 DEF OneRowPerSource
<1>6. RetentionKeepsItsPromise'
  BY <1>1, <1>2 DEF RetentionKeepsItsPromise, Owed, Minted, Live, time
<1>. QED BY <1>3, <1>4, <1>5, <1>6

-----------------------------------------------------------------------------
(* Clocks and the rest of the ledger *)

LEMMA ClocksKeep ==
  ASSUME IInv, NEW i \in Id, WorkEnds(i) \/ Ripen(i) \/ GrowOld(i)
  PROVE  IInv'
<1>. USE DEF IInv
<1>1. CASE WorkEnds(i)
  BY <1>1 DEF WorkEnds, Tables, Sweepers, OneRowPerSource, RetentionKeepsItsPromise, Owed, Minted, time
<1>2. CASE Ripen(i) \/ GrowOld(i)
  BY <1>2 DEF Ripen, GrowOld, Tables, Sweepers, OneRowPerSource, RetentionKeepsItsPromise, Owed,
              Minted, time, tables
<1>. QED BY <1>1, <1>2

LEMMA RestKeeps ==
  ASSUME IInv, UNCHANGED <<time, delivery, present, raw, tombstone, work, sweep>>
  PROVE  IInv'
BY DEF IInv, Tables, Sweepers, OneRowPerSource, RetentionKeepsItsPromise, Owed, Minted, time

LEMMA IInvStep ==
  ASSUME IInv, [Next]_vars
  PROVE  IInv'
<1>1. ASSUME NEW d \in Deliveries, NEW i \in Id, Accept(d, i) PROVE IInv'
  BY <1>1, AcceptKeeps
<1>2. ASSUME NEW d \in Deliveries, NEW i \in Id, Repeat(d, i) PROVE IInv'
  BY <1>2, RestKeeps DEF Repeat, vars, tables
<1>3. ASSUME NEW d \in Deliveries, NEW why \in Refusals, Refuse(d, why) PROVE IInv'
  BY <1>3, RestKeeps DEF Refuse, vars, tables
<1>4. CASE AcceptOther \/ OtherEnds \/ UNCHANGED vars
  BY <1>4, RestKeeps DEF AcceptOther, OtherEnds, vars, tables
<1>5. ASSUME NEW i \in Id, WorkEnds(i) \/ Ripen(i) \/ GrowOld(i) PROVE IInv'
  BY <1>5, ClocksKeep
<1>6. ASSUME NEW s \in Sweeper, StartSweep(s) \/ SweepStep(s) \/ SweepFails(s) PROVE IInv'
  BY <1>6, SweeperMoves, ExpireKeeps, DeleteKeeps DEF SweepStep
<1>. QED BY <1>1, <1>2, <1>3, <1>4, <1>5, <1>6 DEF Next, AcceptDelivery

LEMMA DeliveryInvariant == Spec => []IInv
<1>1. Init => IInv
  BY DEF Init, IInv, Tables, Sweepers, OneRowPerSource, RetentionKeepsItsPromise, Minted, IdleSweep
<1>2. IInv /\ [Next]_vars => IInv' BY IInvStep
<1>. QED BY <1>1, <1>2, PTL DEF Spec

-----------------------------------------------------------------------------
(* Theorems *)

\* Whatever pages the sweepers took before the work moved on, unfinished work
\* keeps its row and its payload, a receipt is kept for its window, and a payload
\* that is gone was due and left its tombstone.
THEOREM RetentionIsSafe == Spec => []RetentionKeepsItsPromise
<1>1. IInv => RetentionKeepsItsPromise BY DEF IInv
<1>. QED BY <1>1, DeliveryInvariant, PTL

\* The row of a receipt that is owed is the only one of its source
LEMMA OnlyRecord ==
  ASSUME IInv, NEW i \in Minted, Owed(i)
  PROVE  Recorded(delivery[i].src) = {i}
BY DEF IInv, RetentionKeepsItsPromise, OneRowPerSource, Recorded, Minted

\* A repeated delivery is answered with the receipt of the first time or with 503,
\* for as long as the receipt is owed: neither the rate gate nor a full backlog nor
\* a sweep stands between a sender and its receipt.
THEOREM RetriesGetTheReceipt == Spec => []RetryGetsTheReceipt
<1>1. ASSUME IInv PROVE RetryGetsTheReceipt
  <2>. SUFFICES ASSUME NEW i \in Minted, Owed(i), NEW d \in Deliveries, d.src = delivery[i].src
                PROVE  Answers(d) \subseteq {IF d = delivery[i] THEN i ELSE "conflict", "unavailable"}
    BY DEF RetryGetsTheReceipt
  <2>1. Recorded(d.src) = {i} BY <1>1, OnlyRecord
  <2>2. OnRecord(d) = {IF d = delivery[i] THEN i ELSE "conflict"} BY <2>1 DEF OnRecord
  <2>. QED BY <2>1, <2>2 DEF Answers, ReceiptOrRefusal, Transaction
<1>. QED BY <1>1, DeliveryInvariant, PTL

-----------------------------------------------------------------------------
(* The refinement: every step is a step of the endpoint's promise or none *)

\* The receipt on record for a source
Book(s) == IF Recorded(s) = {} THEN Nothing ELSE CHOOSE i \in Recorded(s) : TRUE

\* The receipt is that of the only row
LEMMA BookOfRow ==
  ASSUME IInv, NEW i \in present
  PROVE  Recorded(delivery[i].src) = {i} /\ Book(delivery[i].src) = i
<1>1. Recorded(delivery[i].src) = {i} BY DEF IInv, OneRowPerSource, Recorded
<1>. QED BY <1>1 DEF Book

\* A step that leaves rows and what they stand for alone leaves the book alone
LEMMA BookKept ==
  ASSUME UNCHANGED <<present, delivery>>, NEW s \in Source
  PROVE  Book(s)' = Book(s)
<1>1. Recorded(s)' = Recorded(s) BY DEF Recorded
<1>. QED BY <1>1 DEF Book

\* Recording a delivery
LEMMA AcceptRecords ==
  ASSUME IInv, NEW d \in Deliveries, NEW i \in Id, Accept(d, i)
  PROVE  Promise!Record(d, i)
<1>1. Recorded(d.src) = {} /\ i \notin Minted /\ delivery[i] = Nothing
  BY FreshIsUnrecorded DEF IInv
<1>2. d.src \in Source OBVIOUS
<1>3. Book(d.src) = Nothing BY <1>1 DEF Book
<1>4. /\ delivery' = [delivery EXCEPT ![i] = d] /\ delivery'[i] = d
      /\ present' = present \cup {i} /\ UNCHANGED old
  BY DEF Accept, IInv, Tables, time
<1>5. ASSUME NEW s \in Source PROVE Book(s)' = IF s = d.src THEN i ELSE Book(s)
  <2>1. CASE s = d.src
    <3>1. Recorded(s)' = {i} BY <1>1, <1>4, <2>1 DEF Recorded, IInv, Tables
    <3>. QED BY <2>1, <3>1 DEF Book
  <2>2. CASE s # d.src
    <3>1. Recorded(s)' = Recorded(s)
      BY <1>1, <1>4, <2>2 DEF Recorded, IInv, Tables, Minted
    <3>. QED BY <2>2, <3>1 DEF Book
  <2>. QED BY <2>1, <2>2
<1>6. Live' \in {Live, Live \cup {i}}
  BY <1>1 DEF Accept, Live, IInv, Tables
<1>7. [s \in Source |-> Book(s)]' = [[s \in Source |-> Book(s)] EXCEPT ![d.src] = i]
  BY <1>2, <1>5
<1>. QED BY <1>1, <1>2, <1>3, <1>4, <1>6, <1>7 DEF Promise!Record, Promise!Given, Minted, Book

\* Deleting a page of rows
LEMMA DeleteForgets ==
  ASSUME IInv, NEW s \in Sweeper, DeleteReceipts(s)
  PROVE  \E S \in SUBSET Source : Promise!Forget(S)
<1>1. PICK gone \in SUBSET present :
        /\ gone \cap Live = {} /\ gone \subseteq old
        /\ present' = present \ gone
        /\ raw' = raw \ gone /\ tombstone' = tombstone \ gone
  BY DeletedRows
<1>2. UNCHANGED <<delivery, work, old>> BY DEF DeleteReceipts, time
<1>. DEFINE S == {delivery[i].src : i \in gone}
<1>3. S \in SUBSET Source BY <1>1 DEF IInv, Tables, Minted
<1>4. \A t \in S : Book(t) \in old \ Live BY <1>1, BookOfRow
<1>5. ASSUME NEW t \in Source PROVE Book(t)' = IF t \in S THEN Nothing ELSE Book(t)
  <2>1. CASE t \in S
    <3>1. PICK i \in gone : t = delivery[i].src BY <2>1
    <3>2. Recorded(t) = {i} BY <1>1, <3>1, BookOfRow
    <3>3. Recorded(t)' = {} BY <1>1, <1>2, <3>1, <3>2 DEF Recorded
    <3>. QED BY <2>1, <3>3 DEF Book
  <2>2. CASE t \notin S
    <3>1. Recorded(t)' = Recorded(t) BY <1>1, <1>2, <2>2 DEF Recorded
    <3>. QED BY <2>2, <3>1 DEF Book
  <2>. QED BY <2>1, <2>2
<1>6. Live' = Live BY <1>2 DEF Live
<1>7. Promise!Forget(S) BY <1>2, <1>3, <1>4, <1>5, <1>6 DEF Promise!Forget, Book
<1>. QED BY <1>3, <1>7

\* The other steps end work, let a window end, or change nothing the promise shows
LEMMA PromiseUnchanged ==
  ASSUME UNCHANGED <<present, delivery, work, old>>
  PROVE  UNCHANGED Promise!vars
<1>1. \A s \in Source : Book(s)' = Book(s) BY BookKept
<1>2. Live' = Live BY DEF Live
<1>. QED BY <1>1, <1>2 DEF Promise!vars, Book

LEMMA EndsAndAges ==
  ASSUME IInv, NEW i \in Id, WorkEnds(i) \/ GrowOld(i)
  PROVE  Promise!End(i) \/ Promise!Age(i)
<1>1. UNCHANGED <<present, delivery>> BY DEF WorkEnds, GrowOld, tables
<1>2. \A s \in Source : Book(s)' = Book(s) BY <1>1, BookKept
<1>3. CASE WorkEnds(i)
  <2>1. i \in Live /\ Live' = Live \ {i} BY <1>3 DEF WorkEnds, Live, IInv, Tables
  <2>. QED BY <1>1, <1>2, <1>3, <2>1 DEF Promise!End, WorkEnds, Book, time
<1>4. CASE GrowOld(i)
  <2>1. Live' = Live BY <1>4 DEF GrowOld, Live, tables
  <2>2. i \in Minted BY <1>4 DEF GrowOld, IInv, Tables
  <2>. QED BY <1>1, <1>2, <1>4, <2>1, <2>2 DEF Promise!Age, Promise!Given, GrowOld, Book, Minted, tables
<1>. QED BY <1>3, <1>4

LEMMA PromiseStep ==
  ASSUME IInv, [Next]_vars
  PROVE  [Promise!Next]_(Promise!vars)
<1>. USE DEF Promise!Next
<1>1. ASSUME NEW d \in Deliveries, NEW i \in Id, Accept(d, i) PROVE Promise!Next
  BY <1>1, AcceptRecords
<1>2. ASSUME NEW i \in Id, WorkEnds(i) \/ GrowOld(i) PROVE Promise!Next
  BY <1>2, EndsAndAges
<1>3. ASSUME NEW s \in Sweeper, DeleteReceipts(s) PROVE Promise!Next
  BY <1>3, DeleteForgets
<1>4. ASSUME NEW d \in Deliveries,
             (\E i \in Id : Repeat(d, i)) \/ (\E why \in Refusals : Refuse(d, why))
      PROVE  UNCHANGED Promise!vars
  BY <1>4, PromiseUnchanged DEF Repeat, Refuse, vars, tables, time
<1>5. CASE AcceptOther \/ OtherEnds \/ UNCHANGED vars
  BY <1>5, PromiseUnchanged DEF AcceptOther, OtherEnds, vars, tables, time
<1>6. ASSUME NEW i \in Id, Ripen(i) PROVE UNCHANGED Promise!vars
  BY <1>6, PromiseUnchanged DEF Ripen, tables
<1>7. ASSUME NEW s \in Sweeper, StartSweep(s) \/ WalkBodies(s) \/ WalkReceipts(s) \/ SweepFails(s)
      PROVE  UNCHANGED Promise!vars
  BY <1>7, SweeperMoves, PromiseUnchanged DEF tables, time
<1>8. ASSUME NEW s \in Sweeper, ExpireBodies(s) PROVE UNCHANGED Promise!vars
  BY <1>8, PromiseUnchanged DEF ExpireBodies, time
<1>. HIDE DEF Promise!Next
<1>. QED BY <1>1, <1>2, <1>3, <1>4, <1>5, <1>6, <1>7, <1>8 DEF Next, AcceptDelivery, SweepStep

\* Acceptance and retention implement the endpoint's promise: while a receipt is
\* kept its source is not recorded again, a receipt never changes what it stands
\* for, and only what is past its window and finished is forgotten.
THEOREM DeliveriesAreAcceptedOnce == Spec => AcceptsOnce
<1>1. Init => Promise!Init
  BY DEF Init, Promise!Init, Recorded, Live
<1>2. IInv /\ [Next]_vars => [Promise!Next]_(Promise!vars) BY PromiseStep
<1>. QED BY <1>1, <1>2, DeliveryInvariant, PTL DEF Spec, AcceptsOnce, Promise!Spec

-----------------------------------------------------------------------------
(* Sums over finite sets *)

\* The element a fold takes first
Pick(s) == CHOOSE x \in s : TRUE

\* One step of a sum
Unfold(f, g, s) == IF s = {} THEN 0 ELSE f[Pick(s)] + g[s \ {Pick(s)}]

\* g has the sums of f over the subsets of S
Sums(f, g, S) == g = [s \in SUBSET S |-> Unfold(f, g, s)]

\* Induction, as the least counterexample
LEMMA LeastNumber ==
  ASSUME NEW B \in SUBSET Nat, B # {}
  PROVE  \E n \in B : \A m \in B : ~(m < n)
<1>1. PICK R : R = OpToRel(<, Nat) OBVIOUS
<1>2. IsWellFoundedOn(R, Nat) BY <1>1, NatLessThanWellFounded, Zenon
<1>3. PICK n \in B : \A m \in B : <<m, n>> \notin R BY <1>2, WFMin
<1>4. \A m \in B : <<m, n>> \in R <=> m < n BY <1>1, SMT DEF OpToRel
<1>. QED BY <1>3, <1>4

LEMMA LeastSet ==
  ASSUME NEW S, IsFiniteSet(S), NEW B \in SUBSET SUBSET S, B # {}
  PROVE  \E U \in B : \A V \in B : ~(V \subseteq U /\ V # U)
<1>1. IsWellFoundedOn(StrictSubsetOrdering(S), SUBSET S)
  <2>1. FiniteSubsetsOf(S) = SUBSET S BY FS_FiniteSubsetsOfFinite
  <2>2. IsWellFoundedOn(StrictSubsetOrdering(S), FiniteSubsetsOf(S))
    BY FS_StrictSubsetOrderingWellFounded, Zenon
  <2>. QED BY <2>1, <2>2, Zenon
<1>2. \E U \in B : \A V \in B : <<V, U>> \notin StrictSubsetOrdering(S)
  BY <1>1, WFMin
<1>. QED BY <1>2 DEF StrictSubsetOrdering

\* The library's sum is a recursive function: a solution of its equation, if there is
\* one
LEMMA SumChosen ==
  ASSUME NEW f, NEW S
  PROVE  SumFunctionOnSet(f, S) = (CHOOSE g : Sums(f, g, S))[S]
BY DEF SumFunctionOnSet, FoldFunctionOnSet, MapThenFoldSet, Sums, Unfold, Pick

LEMMA PickIn ==
  ASSUME NEW s, s # {}
  PROVE  Pick(s) \in s
BY DEF Pick

\* There is one, by induction on the size of the subsets
LEMMA SumsExist ==
  ASSUME NEW f, NEW S, IsFiniteSet(S)
  PROVE  \E g : Sums(f, g, S)
<1>. DEFINE Small(n) == {s \in SUBSET S : Cardinality(s) <= n}
            Good(n, g) == g = [s \in Small(n) |-> Unfold(f, g, s)]
            Bad == {n \in Nat : ~ \E g : Good(n, g)}
<1>0. \A s \in SUBSET S : /\ IsFiniteSet(s) /\ Cardinality(s) \in Nat
                          /\ Cardinality(s) <= Cardinality(S)
  BY FS_Subset, FS_CardinalityType
<1>1. Bad = {}
  <2>. SUFFICES ASSUME Bad # {} PROVE FALSE OBVIOUS
  <2>1. PICK n \in Bad : \A m \in Bad : ~(m < n)
    <3>1. Bad \in SUBSET Nat OBVIOUS
    <3>. HIDE DEF Bad
    <3>. QED BY <3>1, LeastNumber
  <2>2. n \in Nat /\ ~ \E g : Good(n, g) OBVIOUS
  <2>3. CASE n = 0
    <3>1. \A s \in Small(n) : s = {} BY <1>0, <2>3, FS_EmptySet
    <3>2. PICK g : g = [s \in Small(n) |-> 0] OBVIOUS
    <3>3. \A s \in Small(n) : Unfold(f, g, s) = 0 BY <3>1 DEF Unfold
    <3>4. Good(n, g) BY <3>2, <3>3
    <3>. QED BY <2>2, <3>4
  <2>4. CASE n # 0
    <3>1. n - 1 \in Nat /\ n - 1 < n BY <2>2, <2>4
    <3>2. n - 1 \notin Bad BY <2>1, <3>1
    <3>3. PICK g : Good(n - 1, g) BY <3>1, <3>2
    <3>4. PICK h : h = [s \in Small(n) |-> Unfold(f, g, s)] OBVIOUS
    <3>5. Small(n - 1) \subseteq Small(n) BY <1>0, <3>1
    <3>6. \A s \in Small(n - 1) : h[s] = g[s] BY <3>3, <3>4, <3>5
    <3>7. ASSUME NEW s \in Small(n), s # {} PROVE s \ {Pick(s)} \in Small(n - 1)
      BY SMTT(30), <1>0, <2>2, <3>7, PickIn, FS_RemoveElement
    <3>8. ASSUME NEW s \in Small(n) PROVE Unfold(f, h, s) = Unfold(f, g, s)
      <4>1. CASE s = {} BY <4>1 DEF Unfold
      <4>2. CASE s # {} BY <3>6, <3>7, <4>2 DEF Unfold
      <4>. QED BY <4>1, <4>2
    <3>9. Good(n, h) BY <3>4, <3>8
    <3>. QED BY <2>2, <3>9
  <2>. QED BY <2>2, <2>3, <2>4
<1>2. Cardinality(S) \in Nat BY FS_CardinalityType
<1>3. PICK g : Good(Cardinality(S), g) BY <1>1, <1>2
<1>4. Small(Cardinality(S)) = SUBSET S BY <1>0
<1>. QED BY <1>3, <1>4 DEF Sums

\* and it does not depend on the set around the summands
LEMMA SumsAgree ==
  ASSUME NEW S, NEW T, IsFiniteSet(S), S \subseteq T, NEW f, NEW g, NEW h, NEW k,
         \A x \in S : f[x] = h[x], Sums(f, g, S), Sums(h, k, T)
  PROVE  \A U \in SUBSET S : g[U] = k[U]
<1>. DEFINE Bad == {U \in SUBSET S : g[U] # k[U]}
<1>. SUFFICES ASSUME Bad # {} PROVE FALSE OBVIOUS
<1>1. PICK U \in Bad : \A V \in Bad : ~(V \subseteq U /\ V # U)
  <2>1. Bad \in SUBSET SUBSET S OBVIOUS
  <2>. HIDE DEF Bad
  <2>. QED BY <2>1, LeastSet
<1>2. U \in SUBSET S /\ U \in SUBSET T /\ g[U] # k[U] OBVIOUS
<1>3. g[U] = Unfold(f, g, U) /\ k[U] = Unfold(h, k, U) BY <1>2 DEF Sums
<1>4. CASE U = {} BY <1>2, <1>3, <1>4 DEF Unfold
<1>5. CASE U # {}
  <2>1. Pick(U) \in U BY <1>5, PickIn
  <2>2. U \ {Pick(U)} \notin Bad BY <1>1, <2>1
  <2>3. g[U \ {Pick(U)}] = k[U \ {Pick(U)}] BY <1>2, <2>2
  <2>4. f[Pick(U)] = h[Pick(U)] BY <1>2, <2>1
  <2>. QED BY <1>2, <1>3, <1>5, <2>3, <2>4 DEF Unfold
<1>. QED BY <1>4, <1>5

LEMMA SumUnfolds ==
  ASSUME NEW f, NEW S, IsFiniteSet(S)
  PROVE  SumFunctionOnSet(f, S) =
           IF S = {} THEN 0
           ELSE f[Pick(S)] + SumFunctionOnSet(f, S \ {Pick(S)})
<1>1. PICK g : g = CHOOSE h : Sums(f, h, S) OBVIOUS
<1>2. Sums(f, g, S) BY <1>1, SumsExist
<1>3. SumFunctionOnSet(f, S) = g[S] BY <1>1, SumChosen
<1>4. g[S] = Unfold(f, g, S) BY <1>2 DEF Sums
<1>5. CASE S = {} BY <1>3, <1>4, <1>5 DEF Unfold
<1>6. CASE S # {}
  <2>1. PICK R : R = S \ {Pick(S)} OBVIOUS
  <2>2. IsFiniteSet(R) /\ R \subseteq S BY <2>1, FS_Subset
  <2>3. PICK k : k = CHOOSE h : Sums(f, h, R) OBVIOUS
  <2>4. Sums(f, k, R) BY <2>2, <2>3, SumsExist
  <2>5. SumFunctionOnSet(f, R) = k[R] BY <2>3, SumChosen
  <2>6. k[R] = g[R] BY <1>2, <2>2, <2>4, SumsAgree
  <2>. QED BY <1>3, <1>4, <1>6, <2>1, <2>5, <2>6 DEF Unfold
<1>. QED BY <1>5, <1>6

LEMMA SumSame ==
  ASSUME NEW f, NEW h, NEW S, IsFiniteSet(S), \A x \in S : f[x] = h[x]
  PROVE  SumFunctionOnSet(f, S) = SumFunctionOnSet(h, S)
<1>0. PICK g : g = CHOOSE p : Sums(f, p, S) OBVIOUS
<1>1. PICK k : k = CHOOSE p : Sums(h, p, S) OBVIOUS
<1>2. Sums(f, g, S) /\ Sums(h, k, S) BY <1>0, <1>1, SumsExist
<1>3. \A U \in SUBSET S : g[U] = k[U] BY <1>2, SumsAgree
<1>. QED BY <1>0, <1>1, <1>3, SumChosen

LEMMA SumType ==
  ASSUME NEW f, NEW S, IsFiniteSet(S), \A x \in S : f[x] \in Nat
  PROVE  SumFunctionOnSet(f, S) \in Nat
<1>. DEFINE Bad == {U \in SUBSET S : SumFunctionOnSet(f, U) \notin Nat}
<1>. SUFFICES ASSUME Bad # {} PROVE FALSE OBVIOUS
<1>1. PICK U \in Bad : \A V \in Bad : ~(V \subseteq U /\ V # U)
  <2>1. Bad \in SUBSET SUBSET S OBVIOUS
  <2>. HIDE DEF Bad
  <2>. QED BY <2>1, LeastSet
<1>2. IsFiniteSet(U) BY FS_Subset
<1>3. U # {}
  <2>1. SumFunctionOnSet(f, {}) = 0 BY SumUnfolds, FS_EmptySet
  <2>. QED BY SMTT(30), <2>1
<1>4. Pick(U) \in U BY <1>3, PickIn
<1>5. U \ {Pick(U)} \notin Bad BY <1>1, <1>4
<1>6. SumFunctionOnSet(f, U \ {Pick(U)}) \in Nat BY <1>5
<1>7. f[Pick(U)] \in Nat BY <1>4
<1>. QED BY <1>2, <1>3, <1>6, <1>7, SumUnfolds

\* Every summand may be taken first: addition is associative and commutative
LEMMA SumWithout ==
  ASSUME NEW f, NEW S, IsFiniteSet(S), \A x \in S : f[x] \in Nat, NEW a \in S
  PROVE  SumFunctionOnSet(f, S) = f[a] + SumFunctionOnSet(f, S \ {a})
<1>. DEFINE Bad == {U \in SUBSET S : \E x \in U : SumFunctionOnSet(f, U) # f[x] + SumFunctionOnSet(f, U \ {x})}
<1>. SUFFICES ASSUME Bad # {} PROVE FALSE OBVIOUS
<1>1. PICK U \in Bad : \A V \in Bad : ~(V \subseteq U /\ V # U)
  <2>1. Bad \in SUBSET SUBSET S OBVIOUS
  <2>. HIDE DEF Bad
  <2>. QED BY <2>1, LeastSet
<1>2. PICK x \in U : SumFunctionOnSet(f, U) # f[x] + SumFunctionOnSet(f, U \ {x}) OBVIOUS
<1>3. PICK y : y = Pick(U) OBVIOUS
<1>4. y \in U BY <1>2, <1>3, PickIn
<1>5. SumFunctionOnSet(f, U) = f[y] + SumFunctionOnSet(f, U \ {y})
  BY <1>2, <1>3, SumUnfolds, FS_Subset
<1>6. x # y BY <1>2, <1>5
<1>7. U \ {y} \notin Bad /\ U \ {x} \notin Bad BY SMTT(30), <1>1, <1>2, <1>4
<1>8. PICK R : R = (U \ {y}) \ {x} OBVIOUS
<1>9. R = (U \ {x}) \ {y} BY <1>8
<1>10. SumFunctionOnSet(f, U \ {y}) = f[x] + SumFunctionOnSet(f, R)
  <2>1. U \ {y} \in SUBSET S /\ x \in U \ {y} BY <1>2, <1>6
  <2>. QED BY <1>7, <1>8, <2>1
<1>11. SumFunctionOnSet(f, U \ {x}) = f[y] + SumFunctionOnSet(f, R)
  <2>1. U \ {x} \in SUBSET S /\ y \in U \ {x} BY <1>4, <1>6
  <2>. QED BY <1>7, <1>9, <2>1
<1>12. f[x] \in Nat /\ f[y] \in Nat BY <1>2, <1>4
<1>13. SumFunctionOnSet(f, R) \in Nat
  <2>1. R \in SUBSET S BY <1>8
  <2>. QED BY <2>1, FS_Subset, SumType
<1>. QED BY <1>2, <1>5, <1>10, <1>11, <1>12, <1>13

-----------------------------------------------------------------------------
(* The backlog *)

Counted ==
  /\ IsFiniteSet(Live) /\ other \in Nat
  /\ CountsWithinLimits

\* A subset of what was there and one more
LEMMA OneMore ==
  ASSUME NEW S, NEW T, NEW i, IsFiniteSet(T), S \subseteq T \cup {i}
  PROVE  /\ IsFiniteSet(S) /\ Cardinality(S) \in Nat /\ Cardinality(T) \in Nat
         /\ Cardinality(S) <= Cardinality(T) + 1
<1>0. Cardinality(T) \in Nat BY FS_CardinalityType
<1>1. /\ IsFiniteSet(T \cup {i})
      /\ Cardinality(T \cup {i}) <= Cardinality(T) + 1
  <2>1. /\ IsFiniteSet(T \cup {i})
        /\ Cardinality(T \cup {i}) = IF i \in T THEN Cardinality(T) ELSE Cardinality(T) + 1
    BY FS_AddElement, Zenon
  <2>. QED BY <1>0, <2>1
<1>2. IsFiniteSet(S) /\ Cardinality(S) <= Cardinality(T \cup {i})
  BY <1>1, FS_Subset
<1>3. Cardinality(S) \in Nat /\ Cardinality(T \cup {i}) \in Nat
  BY <1>1, <1>2, FS_CardinalityType
<1>. QED BY <1>0, <1>1, <1>2, <1>3

LEMMA Fewer ==
  ASSUME NEW S, NEW T, IsFiniteSet(T), S \subseteq T
  PROVE  /\ IsFiniteSet(S) /\ Cardinality(S) \in Nat /\ Cardinality(T) \in Nat
         /\ Cardinality(S) <= Cardinality(T)
BY FS_Subset, FS_CardinalityType

\* Work that ends and work of other sources that ends only make room
LEMMA BacklogShrinks ==
  ASSUME Counted, Live' \subseteq Live, other' \in Nat, other' <= other,
         \A i \in Live' : delivery'[i] = delivery[i]
  PROVE  Counted'
<1>1. /\ IsFiniteSet(Live') /\ Cardinality(Live') \in Nat /\ Cardinality(Live) \in Nat
      /\ Cardinality(Live') <= Cardinality(Live)
  BY Fewer DEF Counted
<1>2. ASSUME NEW s \in Source
      PROVE  Cardinality(LiveOf(EndpointOf[s])') <= EndpointNonTerminal
  <2>1. PICK e : e = EndpointOf[s] OBVIOUS
  <2>2. PICK S, T : S = LiveOf(e)' /\ T = LiveOf(e) OBVIOUS
  <2>3. S \subseteq T /\ T \subseteq Live BY <2>2 DEF LiveOf
  <2>4. IsFiniteSet(T) BY <2>3, Fewer DEF Counted
  <2>5. /\ Cardinality(S) \in Nat /\ Cardinality(T) \in Nat
        /\ Cardinality(S) <= Cardinality(T)
    BY <2>3, <2>4, Fewer
  <2>6. Cardinality(T) <= EndpointNonTerminal
    BY <2>1, <2>2 DEF Counted, CountsWithinLimits
  <2>. QED BY <2>1, <2>2, <2>5, <2>6
<1>. QED BY <1>1, <1>2 DEF Counted, CountsWithinLimits

\* The endpoint's count misses nothing: unfinished work keeps its row
LEMMA LiveHasRow ==
  ASSUME IInv, NEW e
  PROVE  Live \cap EndpointRows(e) = LiveOf(e)
<1>1. Live \subseteq present
  BY DEF IInv, RetentionKeepsItsPromise, Owed, Live, Tables, Minted
<1>. QED BY <1>1 DEF EndpointRows, LiveOf

LEMMA AcceptCounts ==
  ASSUME IInv, Counted, NEW d \in Deliveries, NEW i \in Id, Accept(d, i)
  PROVE  Counted'
<1>0. i \notin Minted /\ Recorded(d.src) = {}
  BY FreshIsUnrecorded DEF IInv
<1>1. /\ work' = [work EXCEPT ![i] = IF d.body \in Pings THEN "none" ELSE "live"]
      /\ delivery' = [delivery EXCEPT ![i] = d] /\ UNCHANGED other
  BY DEF Accept
<1>2. i \notin Live BY <1>0 DEF IInv, Tables, Live
<1>3. CASE d.body \in Pings
  <2>1. Live' = Live BY <1>1, <1>2, <1>3 DEF Live, IInv, Tables
  <2>2. \A j \in Live' : delivery'[j] = delivery[j] BY <1>1, <1>2, <2>1 DEF IInv, Tables
  <2>. QED BY <1>1, <2>1, <2>2, BacklogShrinks DEF Counted
<1>4. CASE d.body \notin Pings
  <2>1. Live' = Live \cup {i} BY <1>1, <1>4 DEF Live, IInv, Tables
  <2>2. EndpointAdmits(EndpointOf[d.src]) /\ WorkspaceAdmits(BytesOf[d.body])
    <3>1. i \in Transaction(d)
      BY <1>0 DEF Accept, Answers, ReceiptOrRefusal, Refusals
    <3>. QED BY <1>0, <1>4, <3>1 DEF Transaction, CheckIngress, Refusals
  <2>3. PICK S, T : S = Live' /\ T = Live OBVIOUS
  <2>4. /\ IsFiniteSet(S) /\ Cardinality(S) \in Nat /\ Cardinality(T) \in Nat
        /\ Cardinality(S) <= Cardinality(T) + 1
    BY <2>1, <2>3, OneMore DEF Counted
  <2>5. Cardinality(S) + other <= WorkspaceNonTerminal
    BY <2>2, <2>3, <2>4 DEF WorkspaceAdmits, Counted
  <2>6. ASSUME NEW s \in Source
        PROVE  Cardinality(LiveOf(EndpointOf[s])') <= EndpointNonTerminal
    <3>1. PICK e : e = EndpointOf[s] OBVIOUS
    <3>2. PICK X, Y : X = LiveOf(e)' /\ Y = LiveOf(e) OBVIOUS
    <3>3. X \subseteq Y \cup {i} /\ Y \subseteq Live
      BY <1>1, <2>1, <3>2 DEF LiveOf, IInv, Tables
    <3>4. IsFiniteSet(Y) BY <3>3, Fewer DEF Counted
    <3>5. /\ Cardinality(X) \in Nat /\ Cardinality(Y) \in Nat
          /\ Cardinality(X) <= Cardinality(Y) + 1
      BY <3>3, <3>4, OneMore
    <3>6. Cardinality(Y) <= EndpointNonTerminal
      BY <3>1, <3>2 DEF Counted, CountsWithinLimits
    <3>7. CASE EndpointOf[d.src] = e
      <4>1. Cardinality(Y) < EndpointNonTerminal
        BY <2>2, <3>2, <3>7, LiveHasRow DEF EndpointAdmits
      <4>. QED BY <3>1, <3>2, <3>5, <4>1
    <3>8. CASE EndpointOf[d.src] # e
      <4>1. X \subseteq Y
        BY <1>1, <1>2, <2>1, <3>2, <3>8 DEF LiveOf, IInv, Tables
      <4>2. Cardinality(X) <= Cardinality(Y) BY <3>4, <4>1, Fewer
      <4>. QED BY <3>1, <3>2, <3>5, <3>6, <4>2
    <3>. QED BY <3>7, <3>8
  <2>. QED BY <1>1, <2>3, <2>4, <2>5, <2>6 DEF Counted, CountsWithinLimits
<1>. QED BY <1>3, <1>4

LEMMA CountStep ==
  ASSUME IInv, Counted, [Next]_vars
  PROVE  Counted'
<1>1. ASSUME UNCHANGED <<work, delivery, other>> PROVE Counted'
  BY <1>1 DEF Counted, CountsWithinLimits, LiveOf, Live
<1>2. ASSUME NEW d \in Deliveries, AcceptDelivery(d) PROVE Counted'
  BY <1>1, <1>2, AcceptCounts DEF AcceptDelivery, Repeat, Refuse, vars, tables
<1>3. CASE AcceptOther
  <2>1. /\ UNCHANGED <<work, delivery>> /\ other' = other + 1
        /\ Cardinality(Live) + other < WorkspaceNonTerminal
    BY <1>3 DEF AcceptOther, WorkspaceAdmits
  <2>2. Cardinality(Live) \in Nat BY FS_CardinalityType DEF Counted
  <2>3. Live' = Live /\ \A s \in Source : LiveOf(EndpointOf[s])' = LiveOf(EndpointOf[s])
    BY <2>1 DEF Live, LiveOf
  <2>. QED BY <2>1, <2>2, <2>3 DEF Counted, CountsWithinLimits
<1>4. CASE OtherEnds
  <2>1. Live' = Live /\ UNCHANGED delivery BY <1>4 DEF OtherEnds, Live
  <2>2. other' \in Nat /\ other' <= other BY <1>4 DEF OtherEnds, Counted
  <2>. QED BY <2>1, <2>2, BacklogShrinks
<1>5. ASSUME NEW i \in Id, WorkEnds(i) PROVE Counted'
  <2>1. Live' \subseteq Live /\ UNCHANGED <<delivery, other>>
    BY <1>5 DEF WorkEnds, Live, IInv, Tables
  <2>. QED BY <2>1, BacklogShrinks DEF Counted
<1>6. ASSUME NEW i \in Id, Ripen(i) \/ GrowOld(i) PROVE Counted'
  BY SMTT(30), <1>1, <1>6 DEF Ripen, GrowOld, tables
<1>7. ASSUME NEW s \in Sweeper, StartSweep(s) \/ SweepStep(s) \/ SweepFails(s) PROVE Counted'
  BY <1>1, <1>7
     DEF StartSweep, SweepStep, SweepFails, WalkBodies, ExpireBodies, WalkReceipts,
         DeleteReceipts, tables
<1>8. CASE UNCHANGED vars
  BY <1>1, <1>8 DEF vars, tables
<1>. QED BY <1>2, <1>3, <1>4, <1>5, <1>6, <1>7, <1>8 DEF Next

LEMMA LiveBytes ==
  ASSUME IInv, NEW i \in Live
  PROVE  BodyBytes[i] = BytesOf[delivery[i].body] /\ BodyBytes[i] \in Nat
<1>1. i \in Minted /\ delivery[i] \in Deliveries
  BY DEF IInv, Tables, Live, Minted
<1>. QED BY <1>1 DEF BodyBytes

\* Every unfinished item's bytes are counted, its row being there
LEMMA HeldIsLive ==
  ASSUME IInv
  PROVE  HeldBytes = SumFunctionOnSet(BodyBytes, Live) + other
<1>1. Live \cap present = Live
  BY DEF IInv, RetentionKeepsItsPromise, Owed, Live, Tables, Minted
<1>. QED BY <1>1 DEF HeldBytes

LEMMA ByteStep ==
  ASSUME IInv, IInv', Counted, Counted', BytesWithinLimits, [Next]_vars
  PROVE  BytesWithinLimits'
<1>. DEFINE f == BodyBytes
            g == BodyBytes'
            S == Live
            T == Live'
<1>1. /\ IsFiniteSet(S) /\ IsFiniteSet(T) /\ other \in Nat /\ other' \in Nat
      /\ SumFunctionOnSet(f, S) + other <= WorkspaceRawBytes
  BY DEF Counted, BytesWithinLimits, OtherBytes
<1>2. \A i \in S : f[i] = BytesOf[delivery[i].body] /\ f[i] \in Nat BY LiveBytes
<1>3. ASSUME NEW i \in T PROVE g[i] = BytesOf[delivery'[i].body] /\ g[i] \in Nat
  <2>1. i \in Minted' /\ delivery'[i] \in Deliveries
    BY DEF IInv, Tables, Live, Minted
  <2>. QED BY <2>1 DEF BodyBytes
<1>4. SumFunctionOnSet(f, S) \in Nat /\ SumFunctionOnSet(g, T) \in Nat
  <2>. HIDE DEF f, g, S, T
  <2>. QED BY <1>1, <1>2, <1>3, SumType
<1>5. SUFFICES SumFunctionOnSet(g, T) + other' <= WorkspaceRawBytes
  BY <1>1 DEF BytesWithinLimits, OtherBytes
<1>6. ASSUME T = S, \A i \in S : delivery'[i] = delivery[i]
      PROVE  SumFunctionOnSet(g, T) = SumFunctionOnSet(f, S)
  <2>1. \A i \in S : f[i] = g[i] BY <1>2, <1>3, <1>6
  <2>. HIDE DEF f, g, S, T
  <2>. QED BY <1>1, <1>6, <2>1, SumSame
<1>7. ASSUME UNCHANGED <<work, delivery, other>>
      PROVE  SumFunctionOnSet(g, T) + other' <= WorkspaceRawBytes
  <2>1. T = S BY <1>7 DEF Live
  <2>. QED BY <1>1, <1>6, <1>7, <2>1
<1>8. ASSUME NEW d \in Deliveries, NEW i \in Id, Accept(d, i)
      PROVE  SumFunctionOnSet(g, T) + other' <= WorkspaceRawBytes
  <2>0. i \notin Minted /\ Recorded(d.src) = {}
    BY <1>8, FreshIsUnrecorded DEF IInv
  <2>1. /\ work' = [work EXCEPT ![i] = IF d.body \in Pings THEN "none" ELSE "live"]
        /\ delivery' = [delivery EXCEPT ![i] = d] /\ UNCHANGED other
    BY <1>8 DEF Accept
  <2>2. i \notin S BY <2>0 DEF IInv, Tables, Live
  <2>3. \A j \in S : delivery'[j] = delivery[j] BY <2>1, <2>2 DEF IInv, Tables
  <2>4. CASE d.body \in Pings
    <3>1. T = S BY <2>1, <2>2, <2>4 DEF Live, IInv, Tables
    <3>. QED BY <1>1, <1>6, <2>1, <2>3, <3>1
  <2>5. CASE d.body \notin Pings
    <3>1. T = S \cup {i} BY <2>1, <2>5 DEF Live, IInv, Tables
    <3>2. i \in Transaction(d)
      BY <1>8, <2>0 DEF Accept, Answers, ReceiptOrRefusal, Refusals
    <3>3. WorkspaceAdmits(BytesOf[d.body])
      BY <2>0, <2>5, <3>2 DEF Transaction, CheckIngress, Refusals
    <3>4. SumFunctionOnSet(f, S) + other + BytesOf[d.body] <= WorkspaceRawBytes
      BY <3>3, HeldIsLive DEF WorkspaceAdmits
    <3>5. g[i] = BytesOf[d.body] /\ BytesOf[d.body] \in Nat
      BY <1>3, <2>1, <3>1 DEF IInv, Tables
    <3>6. T \ {i} = S BY <2>2, <3>1
    <3>7. \A j \in S : f[j] = g[j] BY <1>2, <1>3, <2>3, <3>1
    <3>8. SumFunctionOnSet(g, T) = g[i] + SumFunctionOnSet(g, S)
      <4>1. i \in T BY <3>1
      <4>. HIDE DEF f, g, S, T
      <4>. QED BY <1>1, <1>3, <3>6, <4>1, SumWithout
    <3>9. SumFunctionOnSet(f, S) = SumFunctionOnSet(g, S)
      <4>. HIDE DEF f, g, S, T
      <4>. QED BY <1>1, <3>7, SumSame
    <3>. HIDE DEF f, g, S, T
    <3>. QED BY <1>1, <1>4, <2>1, <3>4, <3>5, <3>8, <3>9
  <2>. QED BY <2>4, <2>5
<1>9. CASE AcceptOther
  <2>1. /\ UNCHANGED <<work, delivery>> /\ other' = other + 1
        /\ HeldBytes + 1 <= WorkspaceRawBytes
    BY <1>9 DEF AcceptOther, WorkspaceAdmits, OtherBytes
  <2>2. T = S BY <2>1 DEF Live
  <2>3. SumFunctionOnSet(g, T) = SumFunctionOnSet(f, S) BY <1>6, <2>1, <2>2
  <2>4. HeldBytes = SumFunctionOnSet(f, S) + other BY HeldIsLive
  <2>. HIDE DEF f, g, S, T
  <2>. QED BY <1>1, <1>4, <2>1, <2>3, <2>4
<1>10. CASE OtherEnds
  <2>1. T = S /\ UNCHANGED delivery /\ other' = other - 1 BY <1>10 DEF OtherEnds, Live
  <2>2. SumFunctionOnSet(g, T) = SumFunctionOnSet(f, S) BY <1>6, <2>1
  <2>. HIDE DEF f, g, S, T
  <2>. QED BY <1>1, <1>4, <2>1, <2>2
<1>11. ASSUME NEW i \in Id, WorkEnds(i)
       PROVE  SumFunctionOnSet(g, T) + other' <= WorkspaceRawBytes
  <2>1. i \in S /\ T = S \ {i} /\ UNCHANGED <<delivery, other>>
    BY <1>11 DEF WorkEnds, Live, IInv, Tables
  <2>2. \A j \in T : f[j] = g[j] BY <1>2, <1>3, <2>1
  <2>. HIDE DEF f, g, S, T
  <2>3. SumFunctionOnSet(f, S) = f[i] + SumFunctionOnSet(f, T)
    BY <1>1, <1>2, <2>1, SumWithout
  <2>4. SumFunctionOnSet(f, T) = SumFunctionOnSet(g, T) BY <1>1, <2>2, SumSame
  <2>5. f[i] \in Nat BY <1>2, <2>1
  <2>. QED BY <1>1, <1>4, <2>1, <2>3, <2>4, <2>5
<1>. HIDE DEF f, g, S, T
<1>12. ASSUME NEW d \in Deliveries, AcceptDelivery(d)
       PROVE  SumFunctionOnSet(g, T) + other' <= WorkspaceRawBytes
  BY <1>7, <1>8, <1>12 DEF AcceptDelivery, Repeat, Refuse, vars, tables
<1>13. ASSUME NEW i \in Id, Ripen(i) \/ GrowOld(i)
       PROVE  SumFunctionOnSet(g, T) + other' <= WorkspaceRawBytes
  BY SMTT(30), <1>7, <1>13 DEF Ripen, GrowOld, tables
<1>14. ASSUME NEW s \in Sweeper, StartSweep(s) \/ SweepStep(s) \/ SweepFails(s)
       PROVE  SumFunctionOnSet(g, T) + other' <= WorkspaceRawBytes
  BY <1>7, <1>14
     DEF StartSweep, SweepStep, SweepFails, WalkBodies, ExpireBodies, WalkReceipts,
         DeleteReceipts, tables
<1>15. CASE UNCHANGED vars
  BY <1>7, <1>15 DEF vars, tables
<1>. QED BY <1>9, <1>10, <1>11, <1>12, <1>13, <1>14, <1>15 DEF Next

\* The unfinished deliveries of an endpoint, the unfinished items of the workspace and
\* the bytes they hold never exceed the ingress limits: retention deletes no row that
\* the endpoint's count and the byte count are driven from.
THEOREM BacklogIsBounded == Spec => []BacklogWithinLimits
<1>1. Init => Counted /\ BytesWithinLimits
  <2>. SUFFICES ASSUME Init PROVE Counted /\ BytesWithinLimits OBVIOUS
  <2>1. Live = {} /\ other = 0 BY DEF Init, Live
  <2>2. \A e : LiveOf(e) = {} BY <2>1 DEF LiveOf
  <2>3. IsFiniteSet(Live) /\ Cardinality(Live) = 0 BY <2>1, FS_EmptySet
  <2>4. \A e : Cardinality(LiveOf(e)) = 0 BY <2>2, FS_EmptySet
  <2>5. Counted BY <2>1, <2>3, <2>4 DEF Counted, CountsWithinLimits
  <2>6. SumFunctionOnSet(BodyBytes, {}) = 0
    <3>1. PICK f : f = BodyBytes OBVIOUS
    <3>2. SumFunctionOnSet(f, {}) = 0 BY SumUnfolds, FS_EmptySet
    <3>. QED BY <3>1, <3>2
  <2>7. BytesWithinLimits BY <2>1, <2>6 DEF BytesWithinLimits, OtherBytes
  <2>. QED BY <2>5, <2>7
<1>2. Counted /\ BytesWithinLimits => BacklogWithinLimits
  BY DEF Counted, BacklogWithinLimits
<1>. QED BY <1>1, <1>2, DeliveryInvariant, CountStep, ByteStep, PTL DEF Spec

-----------------------------------------------------------------------------
(* Pages *)

LEMMA HasLast ==
  ASSUME NEW P \in SUBSET Id, IsFiniteSet(P), P # {}
  PROVE  \E m \in P : \A i \in P : RankOf[i] <= RankOf[m]
<1>. DEFINE Bad == {U \in SUBSET P : U # {} /\ ~ \E m \in U : \A i \in U : RankOf[i] <= RankOf[m]}
<1>. SUFFICES ASSUME Bad # {} PROVE FALSE OBVIOUS
<1>1. PICK U \in Bad : \A V \in Bad : ~(V \subseteq U /\ V # U)
  <2>1. Bad \in SUBSET SUBSET P OBVIOUS
  <2>. HIDE DEF Bad
  <2>. QED BY <2>1, LeastSet
<1>2. PICK x \in U : TRUE OBVIOUS
<1>3. \A i \in U : RankOf[i] \in Nat OBVIOUS
<1>4. U \ {x} \notin Bad BY ZenonT(60), <1>1, <1>2
<1>5. CASE U \ {x} = {}
  <2>1. \A i \in U : i = x BY <1>5
  <2>. QED BY <1>2, <1>3, <2>1
<1>6. CASE U \ {x} # {}
  <2>1. PICK m \in U \ {x} : \A i \in U \ {x} : RankOf[i] <= RankOf[m] BY <1>4, <1>6
  <2>2. \E n \in {m, x} : \A i \in U : RankOf[i] <= RankOf[n] BY <1>2, <1>3, <2>1
  <2>. QED BY <1>2, <2>2
<1>. QED BY <1>5, <1>6

\* A page is what comes first in id order
LEMMA PageIsPrefix ==
  ASSUME NEW C \in SUBSET Id, IsFiniteSet(C), NEW j \in Page(C), NEW i \in C,
         RankOf[i] <= RankOf[j]
  PROVE  i \in Page(C)
<1>. DEFINE Below(k) == {l \in C : RankOf[l] < RankOf[k]}
<1>1. Below(i) \subseteq Below(j) /\ Below(j) \subseteq C BY DEF Page
<1>2. IsFiniteSet(Below(j)) BY <1>1, FS_Subset
<1>3. /\ Cardinality(Below(i)) \in Nat /\ Cardinality(Below(j)) \in Nat
      /\ Cardinality(Below(i)) <= Cardinality(Below(j))
  <2>. HIDE DEF Below
  <2>. QED BY <1>1, <1>2, Fewer
<1>4. Cardinality(Below(j)) < Batch BY DEF Page
<1>. QED BY <1>3, <1>4 DEF Page

\* A page that is not full is the last one
LEMMA ShortPageIsAll ==
  ASSUME NEW C \in SUBSET Id, IsFiniteSet(C), Cardinality(Page(C)) < Batch
  PROVE  Page(C) = C
<1>. DEFINE Out == {RankOf[i] : i \in C \ Page(C)}
<1>1. Page(C) \subseteq C BY DEF Page
<1>. SUFFICES ASSUME C \ Page(C) # {} PROVE FALSE BY <1>1
<1>2. Out \in SUBSET Nat /\ Out # {} OBVIOUS
<1>3. PICK n \in Out : \A m \in Out : ~(m < n)
  <2>. HIDE DEF Out
  <2>. QED BY <1>2, LeastNumber
<1>4. PICK i \in C \ Page(C) : RankOf[i] = n OBVIOUS
<1>5. {j \in C : RankOf[j] < RankOf[i]} \subseteq Page(C) BY <1>3, <1>4
<1>6. IsFiniteSet(Page(C)) BY <1>1, FS_Subset
<1>7. PICK B : B = {j \in C : RankOf[j] < RankOf[i]} OBVIOUS
<1>8. Cardinality(B) \in Nat /\ Cardinality(Page(C)) \in Nat /\ Cardinality(B) <= Cardinality(Page(C))
  BY <1>5, <1>6, <1>7, Fewer
<1>9. Cardinality(B) < Batch BY <1>8
<1>. QED BY <1>4, <1>7, <1>9 DEF Page

\* The cursor stands at the last row of the page
LEMMA LastOfPage ==
  ASSUME NEW C \in SUBSET Id, IsFiniteSet(C), Page(C) # {}
  PROVE  \E m \in Page(C) : /\ LastOf(Page(C)) = RankOf[m]
                            /\ \A i \in Page(C) : RankOf[i] <= RankOf[m]
<1>1. Page(C) \subseteq C BY DEF Page
<1>2. IsFiniteSet(Page(C)) BY <1>1, FS_Subset
<1>3. PICK m \in Page(C) : \A i \in Page(C) : RankOf[i] <= RankOf[m] BY <1>1, <1>2, HasLast
<1>. DEFINE R == {RankOf[i] : i \in Page(C)}
<1>4. R \subseteq Nat /\ RankOf[m] \in R /\ \A y \in R : RankOf[m] >= y BY <1>1, <1>3
<1>5. Max(R) = RankOf[m]
  <2>. HIDE DEF R
  <2>1. \A x \in R : (\A y \in R : x >= y) => x = RankOf[m]
    <3>. SUFFICES ASSUME NEW x \in R, \A y \in R : x >= y PROVE x = RankOf[m] OBVIOUS
    <3>1. x \in Nat /\ RankOf[m] \in Nat /\ x >= RankOf[m] /\ RankOf[m] >= x BY <1>4
    <3>. QED BY <3>1
  <2>. QED BY <1>4, <2>1 DEF Max
<1>. QED BY <1>3, <1>5 DEF LastOf

-----------------------------------------------------------------------------
(* A pass over the payloads *)

\* Where sweeper s is in its pass: no due payload is left behind its cursor but those
\* of the page it is about to clear
Passing(s) ==
  /\ sweep[s].after \in Nat
  /\ sweep[s].at = "bodies" => \A i \in sweep[s].ripe \cap raw : RankOf[i] > sweep[s].after
  /\ sweep[s].at = "expire" =>
       \A i \in sweep[s].ripe \cap raw :
         i \in sweep[s].page \/ (~sweep[s].last /\ RankOf[i] > sweep[s].after)

\* What is ripe stays settled, and the tables are finite
Passes ==
  /\ IsFiniteSet(Minted)
  /\ ripe \subseteq Minted /\ ripe \cap Live = {}
  /\ \A s \in Sweeper : Passing(s)

\* What a walk of the payloads finds
Candidates(s) == {i \in raw : RankOf[i] > sweep[s].after /\ Settled(i)}

Due(s) == Page(Candidates(s)) \cap sweep[s].ripe

Short(s) == Cardinality(Page(Candidates(s))) < Batch

LEMMA WalkFinds ==
  ASSUME IInv, Passes, NEW s \in Sweeper, sweep[s].at = "bodies"
  PROVE  /\ Short(s) => sweep[s].ripe \cap raw = Due(s)
         /\ Due(s) # {} \/ ~Short(s) =>
              /\ LastOf(Page(Candidates(s))) \in Nat
              /\ \A i \in sweep[s].ripe \cap raw :
                   i \in Due(s) \/ RankOf[i] > LastOf(Page(Candidates(s)))
<1>. DEFINE C == Candidates(s)
            due == Due(s)
<1>0. C \subseteq raw /\ \A i \in raw : i \in C <=> RankOf[i] > sweep[s].after /\ Settled(i)
  BY DEF Candidates
<1>. USE DEF Due, Short
<1>1. C \subseteq Minted /\ C \in SUBSET Id /\ C \subseteq raw
  BY <1>0 DEF IInv, Tables, Minted
<1>2. IsFiniteSet(C) BY <1>1, FS_Subset DEF Passes
<1>3. sweep[s].ripe \cap raw \subseteq C
  BY <1>0 DEF Passes, Passing, IInv, Sweepers, Settled, Live, Minted
<1>4. Page(C) \subseteq C BY DEF Page
<1>5. ASSUME Cardinality(Page(C)) < Batch PROVE sweep[s].ripe \cap raw = due
  <2>1. Page(C) = C BY <1>1, <1>2, <1>5, ShortPageIsAll
  <2>. QED BY <1>1, <1>3, <2>1
<1>6. ASSUME due # {} \/ ~(Cardinality(Page(C)) < Batch)
      PROVE  /\ LastOf(Page(C)) \in Nat
             /\ \A i \in sweep[s].ripe \cap raw : i \in due \/ RankOf[i] > LastOf(Page(C))
  <2>1. Page(C) # {}
    <3>1. CASE Page(C) = {}
      <4>1. Cardinality(Page(C)) = 0 BY <3>1, FS_EmptySet
      <4>. QED BY <1>6, <3>1, <4>1
    <3>. QED BY <3>1
  <2>2. PICK m \in Page(C) : /\ LastOf(Page(C)) = RankOf[m]
                             /\ \A i \in Page(C) : RankOf[i] <= RankOf[m]
    BY <1>1, <1>2, <2>1, LastOfPage
  <2>3. m \in C /\ m \in Id /\ RankOf[m] \in Nat BY <1>1, <1>4
  <2>4. ASSUME NEW i \in sweep[s].ripe \cap raw PROVE i \in due \/ RankOf[i] > RankOf[m]
    <3>1. i \in C /\ RankOf[i] \in Nat BY <1>1, <1>3
    <3>2. CASE RankOf[i] <= RankOf[m]
      <4>1. i \in Page(C) BY <1>1, <1>2, <3>1, <3>2, PageIsPrefix
      <4>. QED BY <4>1
    <3>. QED BY <2>3, <3>1, <3>2
  <2>. QED BY <2>2, <2>3, <2>4
<1>. QED BY <1>5, <1>6

Emptied(s) ==
  sweep[s].at \in {"bodies", "expire"} /\ sweep'[s].at = "receipts"
    => sweep[s].ripe \cap raw' = {}

\* Nothing that was due gets a payload again
LEMMA OthersPass ==
  ASSUME IInv, Passes, NEW s \in Sweeper, sweep'[s] = sweep[s], ripe \cap raw' \subseteq raw
  PROVE  Passing(s)' /\ Emptied(s)
<1>1. sweep[s].ripe \cap raw' \subseteq sweep[s].ripe \cap raw BY SMTT(30) DEF IInv, Sweepers
<1>. QED BY <1>1 DEF Passes, Passing, Emptied

LEMMA WalkPasses ==
  ASSUME IInv, Passes, NEW s \in Sweeper, WalkBodies(s)
  PROVE  Passing(s)' /\ Emptied(s)
<1>. DEFINE C == Candidates(s)
            due == Due(s)
            last == Short(s)
<1>0. last \in BOOLEAN BY DEF Short
<1>1. sweep[s].at = "bodies" /\ UNCHANGED raw BY DEF WalkBodies, tables
<1>2. /\ last => sweep[s].ripe \cap raw = due
      /\ due # {} \/ ~last =>
           /\ LastOf(Page(C)) \in Nat
           /\ \A i \in sweep[s].ripe \cap raw : i \in due \/ RankOf[i] > LastOf(Page(C))
  BY SMTT(30), <1>1, WalkFinds
<1>3. \/ due = {} /\ last /\ To(s, "receipts")
      \/ /\ due # {} \/ ~last
         /\ sweep' = [sweep EXCEPT ![s].at = IF due = {} THEN "bodies" ELSE "expire",
                                   ![s].after = LastOf(Page(C)),
                                   ![s].page = due,
                                   ![s].last = last /\ due # {}]
  BY DEF WalkBodies, Cursor, Candidates, Due, Short
<1>. HIDE DEF C, due, last
<1>4. CASE due = {} /\ last /\ To(s, "receipts")
  <2>1. sweep'[s] = [IdleSweep EXCEPT !.at = "receipts", !.old = sweep[s].old]
    BY <1>4 DEF To, IInv, Sweepers
  <2>2. sweep'[s].at = "receipts" /\ sweep'[s].after = 0 BY <2>1 DEF IdleSweep
  <2>. QED BY <1>1, <1>2, <1>4, <2>2 DEF Passing, Emptied
<1>5. ASSUME due # {} \/ ~last, NEW a, NEW l,
             a = (IF due = {} THEN "bodies" ELSE "expire"), l = (last /\ due # {}),
             sweep' = [sweep EXCEPT ![s].at = a, ![s].after = LastOf(Page(C)),
                                    ![s].page = due, ![s].last = l]
      PROVE  Passing(s)' /\ Emptied(s)
  <2>1. /\ sweep'[s].at = a /\ sweep'[s].after = LastOf(Page(C))
        /\ sweep'[s].page = due /\ sweep'[s].last = l /\ sweep'[s].ripe = sweep[s].ripe
    <3>1. sweep'[s] = [sweep[s] EXCEPT !.at = a, !.after = LastOf(Page(C)), !.page = due, !.last = l]
      BY <1>5 DEF IInv, Sweepers
    <3>2. DOMAIN sweep[s] = {"at", "old", "ripe", "after", "page", "last"}
      BY DEF IInv, Sweepers, IdleSweep
    <3>. QED BY <3>1, <3>2
  <2>2. \A i \in sweep[s].ripe \cap raw : last => i \in due BY <1>2
  <2>3. \A i \in sweep[s].ripe \cap raw : i \in due \/ RankOf[i] > LastOf(Page(C))
    BY <1>2, <1>5
  <2>4. LastOf(Page(C)) \in Nat BY <1>2, <1>5
  <2>5. CASE due = {} BY <1>1, <1>5, <2>1, <2>3, <2>4, <2>5 DEF Passing, Emptied
  <2>6. CASE due # {}
    <3>1. sweep'[s].at = "expire" BY <1>5, <2>1, <2>6
    <3>2. l = last BY <1>0, <1>5, <2>6
    <3>3. \A i \in sweep[s].ripe \cap raw : i \in due \/ (~l /\ RankOf[i] > LastOf(Page(C)))
      BY <1>0, <2>2, <2>3, <3>2
    <3>. QED BY <1>1, <2>1, <2>4, <3>1, <3>3 DEF Passing, Emptied
  <2>. QED BY <2>5, <2>6
<1>. QED BY ZenonT(60), <1>3, <1>4, <1>5

LEMMA ExpirePasses ==
  ASSUME IInv, Passes, NEW s \in Sweeper, ExpireBodies(s)
  PROVE  Passing(s)' /\ Emptied(s)
<1>1. sweep[s].at = "expire" BY DEF ExpireBodies
<1>2. \A i \in sweep[s].ripe \cap raw : Settled(i)
  BY DEF Passes, IInv, Sweepers, Settled, Live, Tables, Minted
<1>3. sweep[s].ripe \cap raw' = (sweep[s].ripe \cap raw) \ sweep[s].page
  BY <1>2 DEF ExpireBodies
<1>4. \A i \in sweep[s].ripe \cap raw' : ~sweep[s].last /\ RankOf[i] > sweep[s].after
  BY <1>1, <1>3 DEF Passes, Passing
<1>5. CASE sweep[s].last
  <2>1. sweep'[s] = [IdleSweep EXCEPT !.at = "receipts", !.old = sweep[s].old]
    BY <1>5 DEF ExpireBodies, To, IInv, Sweepers
  <2>2. sweep'[s].at = "receipts" /\ sweep'[s].after = 0 BY <2>1 DEF IdleSweep
  <2>. QED BY <1>4, <1>5, <2>2 DEF Passing, Emptied
<1>6. CASE ~sweep[s].last
  <2>1. /\ sweep'[s].at = "bodies" /\ sweep'[s].after = sweep[s].after
        /\ sweep'[s].ripe = sweep[s].ripe
    BY <1>6 DEF ExpireBodies, IInv, Sweepers, IdleSweep
  <2>. QED BY <1>4, <2>1 DEF Passing, Emptied, Passes
<1>. QED BY <1>5, <1>6

LEMMA SweeperPasses ==
  ASSUME IInv, Passes, NEW s \in Sweeper, StartSweep(s) \/ SweepStep(s) \/ SweepFails(s)
  PROVE  Passing(s)' /\ Emptied(s)
<1>1. CASE StartSweep(s)
  <2>1. /\ sweep'[s].at = "bodies" /\ sweep'[s].after = 0 /\ sweep[s].at = "idle"
        /\ sweep'[s].ripe \subseteq ripe
    BY <1>1 DEF StartSweep, IInv, Sweepers, IdleSweep
  <2>2. \A i \in ripe : RankOf[i] \in Nat /\ RankOf[i] > 0 BY DEF Passes, Minted
  <2>. QED BY <2>1, <2>2 DEF Passing, Emptied
<1>2. CASE WalkReceipts(s) \/ DeleteReceipts(s) \/ SweepFails(s)
  <2>1. \/ sweep'[s] = IdleSweep
        \/ /\ sweep'[s].at \in {"receipts", "delete"} /\ sweep'[s].after \in Nat
           /\ sweep[s].at \in {"receipts", "delete"}
    <3>1. CASE SweepFails(s) BY <3>1 DEF SweepFails, IInv, Sweepers
    <3>2. CASE DeleteReceipts(s)
      <4>1. \/ sweep'[s] = IdleSweep
            \/ sweep'[s] = [sweep[s] EXCEPT !.at = "receipts", !.page = {}]
        BY <3>2 DEF DeleteReceipts, IInv, Sweepers
      <4>2. DOMAIN sweep[s] = {"at", "old", "ripe", "after", "page", "last"}
        BY DEF IInv, Sweepers, IdleSweep
      <4>. QED BY <3>2, <4>1, <4>2 DEF DeleteReceipts, Passes, Passing
    <3>3. CASE WalkReceipts(s)
      <4>. DEFINE C == {i \in present : RankOf[i] > sweep[s].after /\ Forgettable(i, s)}
      <4>1. C \subseteq Minted /\ C \in SUBSET Id BY DEF IInv, Tables, Minted
      <4>2. IsFiniteSet(C) BY <4>1, FS_Subset DEF Passes
      <4>3. Page(C) # {} => LastOf(Page(C)) \in Nat
        <5>1. Page(C) \subseteq Id BY <4>1 DEF Page
        <5>. HIDE DEF C
        <5>. QED BY <4>1, <4>2, <5>1, LastOfPage
      <4>4. sweep[s].at = "receipts" BY <3>3 DEF WalkReceipts
      <4>5. \/ sweep' = [sweep EXCEPT ![s] = IdleSweep]
            \/ /\ Page(C) # {}
               /\ \E l : sweep' = [sweep EXCEPT ![s].at = "delete", ![s].after = LastOf(Page(C)),
                                                ![s].page = Page(C), ![s].last = l]
        BY <3>3 DEF WalkReceipts
      <4>. HIDE DEF C
      <4>6. CASE sweep' = [sweep EXCEPT ![s] = IdleSweep] BY <4>6 DEF IInv, Sweepers
      <4>7. ASSUME Page(C) # {}, NEW l,
                   sweep' = [sweep EXCEPT ![s].at = "delete", ![s].after = LastOf(Page(C)),
                                          ![s].page = Page(C), ![s].last = l]
            PROVE  sweep'[s].at = "delete" /\ sweep'[s].after \in Nat
        <5>1. sweep'[s] = [sweep[s] EXCEPT !.at = "delete", !.after = LastOf(Page(C)),
                                           !.page = Page(C), !.last = l]
          BY <4>7 DEF IInv, Sweepers
        <5>2. DOMAIN sweep[s] = {"at", "old", "ripe", "after", "page", "last"}
          BY DEF IInv, Sweepers, IdleSweep
        <5>. DEFINE a == LastOf(Page(C))
                    q == Page(C)
        <5>3. sweep'[s] = [sweep[s] EXCEPT !.at = "delete", !.after = a, !.page = q, !.last = l]
          BY <5>1
        <5>4. a \in Nat BY <4>3, <4>7
        <5>. HIDE DEF a, q
        <5>5. sweep'[s].at = "delete" BY <5>2, <5>3
        <5>6. sweep'[s].after = a BY <5>2, <5>3
        <5>. QED BY <5>4, <5>5, <5>6
      <4>. QED BY <4>4, <4>5, <4>6, <4>7
    <3>. QED BY <1>2, <3>1, <3>2, <3>3
  <2>2. IdleSweep.at = "idle" /\ IdleSweep.after = 0 BY DEF IdleSweep
  <2>. QED BY <2>1, <2>2 DEF Passing, Emptied
<1>. QED BY <1>1, <1>2, WalkPasses, ExpirePasses DEF SweepStep

LEMMA PassStep ==
  ASSUME IInv, Passes, [Next]_vars
  PROVE  Passes' /\ \A s \in Sweeper : Emptied(s)
<1>1. ASSUME UNCHANGED sweep, ripe \cap raw' \subseteq raw
      PROVE  \A s \in Sweeper : Passing(s)' /\ Emptied(s)
  BY <1>1, OthersPass
<1>2. ASSUME UNCHANGED <<delivery, work, ripe, raw, sweep>>
      PROVE  Passes' /\ \A s \in Sweeper : Emptied(s)
  BY <1>1, <1>2 DEF Passes, Minted, Live
<1>3. ASSUME NEW d \in Deliveries, NEW i \in Id, Accept(d, i)
      PROVE  Passes' /\ \A s \in Sweeper : Emptied(s)
  <2>1. i \notin Minted BY <1>3, FreshIsUnrecorded DEF IInv
  <2>2. UNCHANGED <<ripe, sweep>> /\ raw' = raw \cup {i} BY <1>3 DEF Accept, time
  <2>3. ripe \cap raw' \subseteq raw BY <2>1, <2>2 DEF Passes
  <2>4. Minted' = Minted \cup {i} BY <1>3 DEF Accept, Minted, IInv, Tables
  <2>5. IsFiniteSet(Minted') BY <2>4, FS_AddElement DEF Passes
  <2>6. Live' \subseteq Live \cup {i} BY <1>3 DEF Accept, Live, IInv, Tables
  <2>. QED BY <1>1, <2>1, <2>2, <2>3, <2>4, <2>5, <2>6 DEF Passes
<1>4. ASSUME NEW d \in Deliveries, AcceptDelivery(d)
      PROVE  Passes' /\ \A s \in Sweeper : Emptied(s)
  BY <1>2, <1>3, <1>4 DEF AcceptDelivery, Repeat, Refuse, vars, tables, time
<1>5. CASE AcceptOther \/ OtherEnds
  BY <1>2, <1>5 DEF AcceptOther, OtherEnds, time
<1>6. ASSUME NEW i \in Id, WorkEnds(i)
      PROVE  Passes' /\ \A s \in Sweeper : Emptied(s)
  <2>1. UNCHANGED <<delivery, ripe, raw, sweep>> BY <1>6 DEF WorkEnds, time
  <2>2. Live' \subseteq Live BY <1>6 DEF WorkEnds, Live, IInv, Tables
  <2>3. Minted' = Minted BY <2>1 DEF Minted
  <2>. QED BY <1>1, <2>1, <2>2, <2>3 DEF Passes
<1>7. ASSUME NEW i \in Id, Ripen(i)
      PROVE  Passes' /\ \A s \in Sweeper : Emptied(s)
  <2>1. UNCHANGED <<delivery, work, raw, sweep>> /\ ripe' = ripe \cup {i} BY <1>7 DEF Ripen, tables
  <2>2. Live' = Live /\ Minted' = Minted BY <2>1 DEF Live, Minted
  <2>3. i \in Minted /\ i \notin Live BY <1>7 DEF Ripen, Settled, Live, IInv, Tables
  <2>. QED BY <1>1, <2>1, <2>2, <2>3 DEF Passes
<1>8. ASSUME NEW i \in Id, GrowOld(i)
      PROVE  Passes' /\ \A s \in Sweeper : Emptied(s)
  BY <1>2, <1>8 DEF GrowOld, tables
<1>9. ASSUME NEW s \in Sweeper, StartSweep(s) \/ SweepStep(s) \/ SweepFails(s)
      PROVE  Passes' /\ \A t \in Sweeper : Emptied(t)
  <2>1. /\ UNCHANGED <<ripe, delivery, work>> /\ raw' \subseteq raw
        /\ \A t \in Sweeper \ {s} : sweep'[t] = sweep[t]
    <3>1. CASE StartSweep(s) BY <3>1 DEF StartSweep, time, tables, IInv, Sweepers
    <3>2. CASE SweepFails(s) BY <3>2 DEF SweepFails, time, tables, IInv, Sweepers
    <3>3. CASE WalkBodies(s) BY <3>3 DEF WalkBodies, To, time, tables, IInv, Sweepers
    <3>4. CASE ExpireBodies(s) BY <3>4 DEF ExpireBodies, To, time, IInv, Sweepers
    <3>5. CASE WalkReceipts(s) BY <3>5 DEF WalkReceipts, time, tables, IInv, Sweepers
    <3>6. CASE DeleteReceipts(s) BY <3>6 DEF DeleteReceipts, time, IInv, Sweepers
    <3>. QED BY <1>9, <3>1, <3>2, <3>3, <3>4, <3>5, <3>6 DEF SweepStep
  <2>2. Live' = Live /\ Minted' = Minted BY <2>1 DEF Live, Minted
  <2>3. \A t \in Sweeper : Passing(t)' /\ Emptied(t)
    BY <1>9, <2>1, OthersPass, SweeperPasses
  <2>. QED BY <2>1, <2>2, <2>3 DEF Passes
<1>10. CASE UNCHANGED vars
  BY <1>2, <1>10 DEF vars, tables, time
<1>. QED BY <1>4, <1>5, <1>6, <1>7, <1>8, <1>9, <1>10 DEF Next

\* A pass of any sweeper over the stored payloads clears every one that was due when
\* its sweep began, whatever the page size, however many rows that are kept fill its
\* pages and whatever other sweepers, senders and ending work do meanwhile.
THEOREM PassesAreComplete == Spec => PassLeavesNothingDue
<1>1. Init => Passes
  <2>. SUFFICES ASSUME Init PROVE Passes OBVIOUS
  <2>1. Minted = {} /\ ripe = {} BY DEF Init, Minted
  <2>2. \A s \in Sweeper : sweep[s].at = "idle" /\ sweep[s].after = 0 BY DEF Init, IdleSweep
  <2>. QED BY <2>1, <2>2, FS_EmptySet DEF Passes, Passing
<1>2. ASSUME IInv, Passes, [Next]_vars
      PROVE  Passes' /\ [\A s \in Sweeper :
               sweep[s].at \in {"bodies", "expire"} /\ sweep'[s].at = "receipts"
                 => sweep[s].ripe \cap raw' = {}]_vars
  BY <1>2, PassStep DEF Emptied
<1>. QED BY <1>1, <1>2, DeliveryInvariant, PTL DEF Spec, PassLeavesNothingDue

=============================================================================
