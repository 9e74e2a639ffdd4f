------------------------------ MODULE WorkItem ------------------------------
(***************************************************************************)
(* What the ledger promises for one piece of accepted work, without        *)
(* tables, generations, leases, capacity or callers: it is done by one     *)
(* attempt at a time, no attempt is used twice, only the latest attempt    *)
(* is ever reported on and only once, and an outcome is reached once, by a *)
(* verdict that says the same.                                             *)
(***************************************************************************)
CONSTANT Attempt       \* the attempts that can be made

VARIABLES
  status,     \* absent, queued, held, parked, or the outcome
  last,       \* the attempt that was made last, a set of at most one
  used,       \* the attempts that were ever made
  verdict     \* what was reported on an attempt, "unset" before

vars == <<status, last, used, verdict>>

Outcomes == {"succeeded", "failed", "expired", "cancelled"}

\* The reports that go with an outcome.  Nothing is said of an attempt that was
\* cancelled before it started anything, or that a deadline overtook.
Fitting(o) ==
  CASE o = "succeeded" -> {"COMPLETED"}
    [] o = "failed" -> {"FAILED", "TIMEOUT"}
    [] o = "cancelled" -> {"CANCELLED", "unset"}
    [] o = "expired" -> {"unset"}

\* A report is about the last attempt, and only the first one counts
Report(v) ==
  verdict' = [a \in Attempt |-> IF a \in last /\ verdict[a] = "unset" THEN v
                                ELSE verdict[a]]

Init ==
  /\ status = "absent"
  /\ last = {} /\ used = {}
  /\ verdict = [a \in Attempt |-> "unset"]

Submit ==
  /\ status = "absent"
  /\ status' = "queued"
  /\ UNCHANGED <<last, used, verdict>>

\* An attempt that was never used takes the work, from the queue or on the spot
Grant(a) ==
  /\ status \in {"absent", "queued"}
  /\ a \notin used
  /\ status' = "held"
  /\ last' = {a}
  /\ used' = used \cup {a}
  /\ UNCHANGED verdict

\* Work in the queue may end without an attempt, never as succeeded
Drop(o) ==
  /\ status = "queued"
  /\ o \in Outcomes \ {"succeeded"}
  /\ status' = o
  /\ UNCHANGED <<last, used, verdict>>

\* Back in the queue: the attempt failed, or it did nothing
GiveBack(v) ==
  /\ status = "held" \/ (status = "parked" /\ v = "FAILED")
  /\ v \in {"unset", "FAILED"}
  /\ status' = "queued"
  /\ Report(v)
  /\ UNCHANGED <<last, used>>

\* Nobody knows what became of the attempt, or only that it failed
Park(v) ==
  /\ status = "held" \/ (status = "parked" /\ v = "FAILED")
  /\ v \in {"unset", "FAILED"}
  /\ status' = "parked"
  /\ Report(v)
  /\ UNCHANGED <<last, used>>

Settle(o, v) ==
  /\ status = "held" \/ (status = "parked" /\ v \notin {"unset", "TIMEOUT"})
  /\ v \in Fitting(o)
  /\ status' = o
  /\ Report(v)
  /\ UNCHANGED <<last, used>>

Next ==
  \/ Submit
  \/ \E a \in Attempt : Grant(a)
  \/ \E o \in Outcomes : Drop(o)
  \/ \E v \in {"unset", "FAILED"} : GiveBack(v) \/ Park(v)
  \/ \E o \in Outcomes : \E v \in Fitting(o) : Settle(o, v)

Spec == Init /\ [][Next]_vars

=============================================================================
