----------------------------- MODULE MCDispatch -----------------------------
(* Small instances of the dispatcher over the ledger: one webhook work item. *)
EXTENDS Dispatch, TLC

CONSTANTS hook, r1, r2, d1, d2

MCClassOf == [w \in Work |-> "background"]
MCAgentOf == [w \in Work |-> "agent"]
MCSessionOf == [w \in Work |-> "session"]
MCCrewOf == [w \in Work |-> "crew"]
MCCrewRow == [c \in {"crew"} |-> [maxAgents |-> Nothing, memoryMB |-> 4096]]

\* SerialAgentLimits: one run per agent, the server limits of DefaultLimits
MCLimits ==
  [ServerTotal |-> 8, ServerBackground |-> 6, ServerChatReserv |-> 2,
   AgentTotal |-> 1, AgentChat |-> 1, AgentBackground |-> 1]

MCKinds == {Work}

MCSymmetry == Permutations(RunId) \cup Permutations(Server)
=============================================================================
