---------------------------- MODULE MCAdmission ----------------------------
(* A small instance of the admission gate *)
EXTENDS Admission

MCTTL == [f \in Fact |-> IF f = "limits" THEN 2 ELSE 1]

\* One start at a time, paced and gated on memory and pressure; or one at a time only
MCPolicy ==
  {[memory |-> TRUE, pressure |-> TRUE, starts |-> 1, interval |-> 2],
   [memory |-> FALSE, pressure |-> FALSE, starts |-> 1, interval |-> 0]}

=============================================================================
