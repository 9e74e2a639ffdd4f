------------------------------- MODULE Ingress -------------------------------
(***************************************************************************)
(* What a webhook endpoint promises its senders, without tables, sweeps,   *)
(* clocks or transactions: a delivery is recorded at most once for as long *)
(* as its receipt is kept, a receipt is kept until its work has ended and  *)
(* its window is over, and it stands for exactly one delivery.             *)
(***************************************************************************)
CONSTANTS
  Source,        \* delivery identities: an endpoint and a source delivery id
  Deliveries,    \* what is sent: [src, body] records
  Receipt,       \* receipts that can be given out
  Nothing

VARIABLES
  book,          \* the receipt on record for a source, or Nothing
  content,       \* what a receipt was given for, kept for ever
  open,          \* receipts whose work has not ended
  due            \* receipts whose window is over

vars == <<book, content, open, due>>

Given == {r \in Receipt : content[r] # Nothing}

Init ==
  /\ book = [s \in Source |-> Nothing]
  /\ content = [r \in Receipt |-> Nothing]
  /\ open = {} /\ due = {}

\* A delivery whose source is not on record gets a fresh receipt, and perhaps work
Record(d, r) ==
  /\ book[d.src] = Nothing
  /\ r \notin Given
  /\ book' = [book EXCEPT ![d.src] = r]
  /\ content' = [content EXCEPT ![r] = d]
  /\ open' \in {open, open \cup {r}}
  /\ UNCHANGED due

End(r) ==
  /\ r \in open
  /\ open' = open \ {r}
  /\ UNCHANGED <<book, content, due>>

Age(r) ==
  /\ r \in Given
  /\ due' = due \cup {r}
  /\ UNCHANGED <<book, content, open>>

\* Only receipts past their window whose work has ended are forgotten
Forget(S) ==
  /\ \A s \in S : book[s] \in due \ open
  /\ book' = [s \in Source |-> IF s \in S THEN Nothing ELSE book[s]]
  /\ UNCHANGED <<content, open, due>>

Next ==
  \/ \E d \in Deliveries, r \in Receipt : Record(d, r)
  \/ \E r \in Receipt : End(r) \/ Age(r)
  \/ \E S \in SUBSET Source : Forget(S)

Spec == Init /\ [][Next]_vars

=============================================================================
