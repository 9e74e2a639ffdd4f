------------------------------ MODULE Delivery ------------------------------
(***************************************************************************)
(* Durable acceptance of webhook deliveries and their retention.           *)
(*                                                                         *)
(* A call of acceptDelivery passes the rate gate, records its delivery and *)
(* the work it produces in one immediate transaction, or answers from the  *)
(* ledger when the gate or the database refuses it.  Of all it does, one   *)
(* transaction counts - the acceptance, or the read-only lookup - so a     *)
(* call is one step here, and calls interleave as their transactions do.   *)
(* An answer may be lost (the sender gave up, the server died after the    *)
(* commit), which changes no state: what a repeated call may answer is the *)
(* same.  Senders repeat deliveries at will.  Sweepers drop payloads and   *)
(* delete receipts page by page: they walk outside any transaction and     *)
(* restate their guards inside one.                                        *)
(*                                                                         *)
(* A delivery is named by its id, the work it produced by the same id      *)
(* (work_items.source_ref).  Of the work ledger only "has it ended" is     *)
(* kept; that an ended item stays ended is OutcomesAreFinal of WorkLedger. *)
(***************************************************************************)
EXTENDS Naturals, FiniteSets, FiniteSetsExt, Functions

CONSTANTS
  Sweeper,             \* retention sweepers (one per process)
  Source,              \* (endpoint, source delivery id)
  EndpointOf,          \* the endpoint of a source
  Body,                \* payloads, told apart by their hash
  Deliveries,          \* what senders send: sources with payloads
  Pings,               \* payloads the filter ignores
  BytesOf,             \* size of a payload
  Id,                  \* delivery ids that can be minted (a bound)
  RankOf,              \* their order: minted ids are random
  MaxOther,            \* bound: non-terminal work of other sources
  EndpointNonTerminal, \* IngressLimits
  WorkspaceNonTerminal,
  WorkspaceRawBytes,
  Batch,               \* RetentionPolicy
  Nothing

\* The answers acceptDelivery gives besides a receipt: 429, 409 and 503
Refusals == {"full", "conflict", "unavailable"}

ASSUME DeliveryAssumption ==
  /\ Pings \subseteq Body
  /\ Deliveries \subseteq [src : Source, body : Body]
  /\ BytesOf \in [Body -> Nat]
  /\ RankOf \in [Id -> Nat \ {0}]
  /\ \A i, j \in Id : RankOf[i] = RankOf[j] => i = j
  /\ MaxOther \in Nat
  /\ EndpointNonTerminal \in Nat /\ WorkspaceNonTerminal \in Nat
  /\ WorkspaceRawBytes \in Nat
  /\ Batch \in Nat \ {0}
  /\ Nothing \notin Id \cup Deliveries
  /\ Id \cap Refusals = {}

VARIABLES
  old,           \* deliveries received DedupWindow ago or earlier
  ripe,          \* deliveries whose work ended, or that were ignored,
                 \* RawBodyAfterTerminal ago or earlier
  delivery,      \* source and body of an id ever minted
  present,       \* webhook_deliveries: the ids that have a row
  raw,           \* rows whose raw_body is not NULL
  tombstone,     \* rows whose raw_body_expires_at is not NULL
  work,          \* work_items by source_ref: "none", "live", "ended"
  other,         \* number of non-terminal work items of other sources
  sweep          \* the sweepers

time == <<old, ripe>>
tables == <<delivery, present, raw, tombstone, work, other>>
vars == <<time, tables, sweep>>

IdleSweep ==
  [at |-> "idle", old |-> {}, ripe |-> {}, after |-> 0, page |-> {}, last |-> FALSE]

Init ==
  /\ old = {} /\ ripe = {}
  /\ delivery = [i \in Id |-> Nothing]
  /\ present = {} /\ raw = {}
  /\ tombstone = {}
  /\ work = [i \in Id |-> "none"]
  /\ other = 0
  /\ sweep = [s \in Sweeper |-> IdleSweep]

Minted == {i \in Id : delivery[i] # Nothing}

-----------------------------------------------------------------------------
(* What the acceptance transaction reads *)

RecordedWhileLive(src) == {i \in present : delivery[i].src = src /\ work[i] = "live"}

\* The row of a source delivery id (unique per endpoint); no content key is set
\* on this surface
Recorded(src) == {i \in present : delivery[i].src = src}

Live == {i \in Id : work[i] = "live"}

EndpointRows(e) == {i \in present : EndpointOf[delivery[i].src] = e}

\* body_bytes
BodyBytes == [i \in Minted |-> BytesOf[delivery[i].body]]

\* The bytes of the deliveries behind non-terminal work, one byte of input for each
\* item of another source
HeldBytes == SumFunctionOnSet(BodyBytes, Live \cap present) + other

OtherBytes == 1

WorkspaceAdmits(bytes) ==
  /\ Cardinality(Live) + other < WorkspaceNonTerminal
  /\ HeldBytes + bytes <= WorkspaceRawBytes

EndpointAdmitsOneMore(e) ==
  Cardinality(Live \cap EndpointRows(e)) <= EndpointNonTerminal

\* The endpoint count is driven from the delivery rows: work whose row is gone
\* would not be counted
EndpointAdmits(e) ==
  Cardinality(Live \cap EndpointRows(e)) < EndpointNonTerminal

CheckIngress(src, body) ==
  /\ EndpointAdmits(EndpointOf[src])
  /\ WorkspaceAdmits(BytesOf[body])

-----------------------------------------------------------------------------
(* acceptDelivery *)

\* What is on record for a delivery: its receipt, or a conflict when the body
\* differs
OnRecord(d) == {IF delivery[i] = d THEN i ELSE "conflict" : i \in Recorded(d.src)}

RefusedUnseen(d, refusal) == {refusal}

\* A refusal is given only to what is not on record
ReceiptOrRefusal(d, refusal) ==
  IF Recorded(d.src) = {} THEN {refusal} ELSE OnRecord(d)

\* AcceptDeliveryTx: a fresh id stands for a new row.  Pings take no capacity
Transaction(d) ==
  IF Recorded(d.src) # {} THEN OnRecord(d)
  ELSE IF d.body \notin Pings /\ ~CheckIngress(d.src, d.body) THEN {"full"}
  ELSE Id \ Minted

\* What a call may answer now: no agent (a 500, which a source retries as it does a
\* 503), no ledger or no answer from the lookup; the rate gate; an acceptance that ran
\* out of its budget, with nothing written; the acceptance
Answers(d) ==
  {"unavailable"}
    \cup ReceiptOrRefusal(d, "full")
    \cup ReceiptOrRefusal(d, "unavailable")
    \cup Transaction(d)

\* The row and the work it produces commit together; a ping gets a row only
Accept(d, i) ==
  /\ i \in Answers(d) \cap (Id \ Minted)
  /\ delivery' = [delivery EXCEPT ![i] = d]
  /\ present' = present \cup {i}
  /\ raw' = raw \cup {i}
  /\ work' = [work EXCEPT ![i] = IF d.body \in Pings THEN "none" ELSE "live"]
  /\ UNCHANGED <<time, tombstone, other, sweep>>

\* A receipt that was given before and a refusal write nothing
Repeat(d, i) ==
  /\ i \in Answers(d) \cap Minted
  /\ UNCHANGED vars

Refuse(d, why) ==
  /\ why \in Answers(d) \cap Refusals
  /\ UNCHANGED vars

-----------------------------------------------------------------------------
(* The rest of the ledger *)

\* Schedules and assignments go through the workspace half of the same check
AcceptOther ==
  /\ other < MaxOther
  /\ WorkspaceAdmits(OtherBytes)
  /\ other' = other + 1
  /\ UNCHANGED <<time, delivery, present, raw, tombstone, work, sweep>>

OtherEnds ==
  /\ other > 0
  /\ other' = other - 1
  /\ UNCHANGED <<time, delivery, present, raw, tombstone, work, sweep>>

WorkEnds(i) ==
  /\ work[i] = "live"
  /\ work' = [work EXCEPT ![i] = "ended"]
  /\ UNCHANGED <<time, delivery, present, raw, tombstone, other, sweep>>

Settled(i) == work[i] # "live"

\* The two periods run from different moments: a payload may be due long before
\* or long after its receipt.  A ping's start together, and the payload's is shorter
Ripen(i) ==
  /\ i \in raw \ ripe
  /\ Settled(i)
  /\ ripe' = ripe \cup {i}
  /\ UNCHANGED <<old, tables, sweep>>

GrowOld(i) ==
  /\ i \in present \ old
  /\ work[i] = "none" => i \in ripe
  /\ old' = old \cup {i}
  /\ UNCHANGED <<ripe, tables, sweep>>

-----------------------------------------------------------------------------
(* Sweep: payloads first, then receipts, against one reading of the clock.  *)
(* A deadline has come at that reading if it had come when the sweep began. *)

\* The next Batch candidates in id order
Page(candidates) ==
  {i \in candidates : Cardinality({j \in candidates : RankOf[j] < RankOf[i]}) < Batch}

LastOf(page) == Max({RankOf[i] : i \in page})

CursorOfDue(page, due, after) == IF due = {} THEN after ELSE LastOf(page)

\* A page moves the cursor past its last row, whether or not a row of it is due
Cursor(page, due, after) == LastOf(page)

\* The second pass starts over
To(s, step) == sweep' = [sweep EXCEPT ![s] = [IdleSweep EXCEPT !.at = step, !.old = sweep[s].old]]

StartSweep(s) ==
  /\ sweep[s].at = "idle"
  /\ sweep' = [sweep EXCEPT ![s] = [IdleSweep EXCEPT !.at = "bodies", !.old = old \cap present,
                                                !.ripe = ripe \cap raw]]
  /\ UNCHANGED <<time, tables>>

\* A page of payloads of settled deliveries; the ones whose deadline has not come
\* are skipped at once
WalkBodies(s) ==
  /\ sweep[s].at = "bodies"
  /\ LET page == Page({i \in raw : RankOf[i] > sweep[s].after /\ Settled(i)})
         due  == page \cap sweep[s].ripe
         last == Cardinality(page) < Batch
     IN  \/ /\ due = {} /\ last
            /\ To(s, "receipts")
         \/ /\ due # {} \/ ~last
            /\ sweep' = [sweep EXCEPT ![s].at = IF due = {} THEN "bodies" ELSE "expire",
                                      ![s].after = Cursor(page, due, sweep[s].after),
                                      ![s].page = due,
                                      ![s].last = last /\ due # {}]
  /\ UNCHANGED <<time, tables>>

\* One transaction clears the page; every statement restates the whole guard and
\* leaves the deadline behind as a tombstone.  raw_body_expires_at of a row that
\* still has its payload is NULL on this surface
ExpireBodies(s) ==
  /\ sweep[s].at = "expire"
  /\ LET gone == {i \in sweep[s].page \cap raw : Settled(i) /\ i \in sweep[s].ripe}
     IN  raw' = raw \ gone /\ tombstone' = tombstone \cup gone
  /\ IF sweep[s].last THEN To(s, "receipts")
                      ELSE sweep' = [sweep EXCEPT ![s].at = "bodies", ![s].page = {}]
  /\ UNCHANGED <<time, delivery, present, work, other>>

ForgettableByAge(i, s) == i \in present /\ i \in sweep[s].old

Forgettable(i, s) == i \in present /\ i \in sweep[s].old /\ Settled(i)

WalkReceipts(s) ==
  /\ sweep[s].at = "receipts"
  /\ LET page == Page({i \in present : RankOf[i] > sweep[s].after /\ Forgettable(i, s)})
     IN  \/ /\ page = {}
            /\ sweep' = [sweep EXCEPT ![s] = IdleSweep]
         \/ /\ page # {}
            /\ sweep' = [sweep EXCEPT ![s].at = "delete", ![s].after = LastOf(page),
                                      ![s].page = page, ![s].last = Cardinality(page) < Batch]
  /\ UNCHANGED <<time, tables>>

DeleteReceipts(s) ==
  /\ sweep[s].at = "delete"
  /\ LET gone == {i \in sweep[s].page : Forgettable(i, s)}
     IN  /\ present' = present \ gone
         /\ raw' = raw \ gone
         /\ tombstone' = tombstone \ gone
  /\ sweep' = [sweep EXCEPT ![s] = IF @.last THEN IdleSweep
                                             ELSE [@ EXCEPT !.at = "receipts", !.page = {}]]
  /\ UNCHANGED <<time, delivery, work, other>>

\* A statement fails or the sweep is cancelled: the committed pages stay
SweepFails(s) ==
  /\ sweep[s].at # "idle"
  /\ sweep' = [sweep EXCEPT ![s] = IdleSweep]
  /\ UNCHANGED <<time, tables>>

-----------------------------------------------------------------------------

AcceptDelivery(d) ==
  \/ \E i \in Id : Accept(d, i) \/ Repeat(d, i)
  \/ \E why \in Refusals : Refuse(d, why)

SweepStep(s) ==
  WalkBodies(s) \/ ExpireBodies(s) \/ WalkReceipts(s) \/ DeleteReceipts(s)

Next ==
  \/ \E d \in Deliveries : AcceptDelivery(d)
  \/ AcceptOther \/ OtherEnds
  \/ \E i \in Id : WorkEnds(i) \/ Ripen(i) \/ GrowOld(i)
  \/ \E s \in Sweeper : StartSweep(s) \/ SweepStep(s) \/ SweepFails(s)

Spec == Init /\ [][Next]_vars

\* A sweep that was started goes on.  Between pages it steps out of a closing
\* quiet window (quiesce.Yield) and waits for it, and every window ends
\* (AdmissionReopens of Quiesce)
FairSpec == Spec /\ \A s \in Sweeper : WF_vars(SweepStep(s))

-----------------------------------------------------------------------------
(* Properties *)

\* A receipt is owed for the window and for the whole life of its work
Owed(i) == i \notin old \/ work[i] = "live"

\* A sender that sends an accepted delivery again, whether or not it heard the
\* answer, gets the receipt of the first time, or 503 while the database cannot be
\* read: never 429, never a conflict with itself, never other work, whatever the
\* rate gate, the backlog and the sweeps do in between; and its id never serves
\* another body ("a duplicate of already-accepted work must not be refused for
\* fullness").
RetryGetsTheReceipt ==
  \A i \in Minted : Owed(i) =>
    \A d \in Deliveries : d.src = delivery[i].src =>
      Answers(d) \subseteq {IF d = delivery[i] THEN i ELSE "conflict", "unavailable"}

\* Retention against stale pages, several sweepers and redelivery: the payload and
\* the row of unfinished work stay, a receipt is kept for its window, and a dropped
\* payload has had its time and leaves a tombstone, so that a replay that is not
\* possible any more can be explained (PayloadStatus).
RetentionKeepsItsPromise ==
  \A i \in Minted :
    /\ Owed(i) => i \in present
    /\ work[i] = "live" => i \in raw
    /\ i \in present \ raw => i \in ripe \cap tombstone

\* The unfinished deliveries of endpoint e.
LiveOf(e) == {i \in Live : EndpointOf[delivery[i].src] = e}

\* The number of unfinished items, of an endpoint and of the workspace, is within the
\* limits that acceptance checks.
CountsWithinLimits ==
  /\ \A s \in Source : Cardinality(LiveOf(EndpointOf[s])) <= EndpointNonTerminal
  /\ Cardinality(Live) + other <= WorkspaceNonTerminal

\* So are the bytes of the bodies they hold.
BytesWithinLimits ==
  SumFunctionOnSet(BodyBytes, Live) + other * OtherBytes <= WorkspaceRawBytes

\* The unfinished work of an endpoint and of the workspace and the bytes it holds
\* stay within the ingress limits, although the endpoint's share is counted over
\* rows that retention deletes.
BacklogWithinLimits == CountsWithinLimits /\ BytesWithinLimits

Promise == INSTANCE Ingress WITH
  Receipt <- Id,
  book <- [s \in Source |->
             IF Recorded(s) = {} THEN Nothing ELSE CHOOSE i \in Recorded(s) : TRUE],
  content <- delivery,
  open <- Live,
  due <- old

\* The ledger, its transactions and its sweeps implement the endpoint's promise:
\* a delivery is recorded once for as long as its receipt is kept, what a receipt
\* stands for never changes, and nothing unfinished is forgotten.
AcceptsOnce == Promise!Spec

\* A pass over the payloads reaches every one that was due when its sweep began,
\* although pages are read outside the transactions that clear them, rows that are
\* not due fill pages, and other sweepers clear rows from under the cursor.
PassLeavesNothingDue ==
  [][\A s \in Sweeper :
       sweep[s].at \in {"bodies", "expire"} /\ sweep'[s].at = "receipts"
         => sweep[s].ripe \cap raw' = {}]_vars

\* A sweep ends: a page of rows that are all kept does not make it walk the same
\* prefix for ever.
SweepEnds ==
  \A s \in Sweeper : []<>(sweep[s].at = "idle")

=============================================================================
