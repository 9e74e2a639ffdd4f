--------------------------- MODULE MCPendingRuns ---------------------------
(* A small instance of deferred runs *)
EXTENDS PendingRuns

CONSTANTS a, b, t1, t2, t3, v1, v2

\* Rows of different kinds do not meet: the instance has two of the same kind, or a
\* once start
MCKinds ==
  {[r \in Row |-> "scheduled"], [r \in Row |-> "debounced"],
   [r \in Row |-> IF r = a THEN "once" ELSE "unused"]}

\* An automation without a pin, and two triggers pinned to different versions
MCPinOf == [t \in Trigger |-> CASE t = t1 -> None [] t = t2 -> v1 [] t = t3 -> v2]
MCDepthOf == [t \in Trigger |-> CASE t = t1 -> 1 [] t = t2 -> 0 [] t = t3 -> 2]

\* Nobody judges the inputs of t1, which suit neither version.  Those of t3 suit the
\* version of t2 too, those of t2 only their own
MCFits == {<<t2, v1>>, <<t3, v1>>, <<t3, v2>>}

\* A burst has its interleavings in the triggers, the others in what goes wrong
MCMaxFaults == [k \in Kind |-> CASE k = "unused" -> 0 [] k = "debounced" -> 1 [] OTHER -> 2]

=============================================================================
