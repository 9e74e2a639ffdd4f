---------------------------- MODULE MCWorkLedger ----------------------------
(* Small instances of the work ledger. *)
EXTENDS WorkLedger, TLC

CONSTANTS chat, hook, task, r1, r2, r3, r4

MCClassOf == [w \in Work |-> IF w \in HostChat THEN "chat" ELSE "background"]
MCAgentOf == [w \in Work |-> "agent"]
MCSessionOf == [w \in Work |-> "session"]
MCCrewOf == [w \in Work |-> "crew"]
MCCrewRow == [c \in {"crew"} |-> [maxAgents |-> Nothing, memoryMB |-> 4096]]

\* SerialAgentLimits: one run per agent, the server limits of DefaultLimits
MCSerialLimits ==
  [ServerTotal |-> 8, ServerBackground |-> 6, ServerChatReserv |-> 2,
   AgentTotal |-> 1, AgentChat |-> 1, AgentBackground |-> 1]

\* Every pair of chat, hook and task is kept apart by another rule: chat and hook
\* share an agent, chat and task a crew of one, hook and task would both eat
\* into the chat reserve
MCPairLimits ==
  [ServerTotal |-> 2, ServerBackground |-> 2, ServerChatReserv |-> 1,
   AgentTotal |-> 1, AgentChat |-> 1, AgentBackground |-> 1]
MCPairAgent == [w \in Work |-> IF w = task THEN "solo" ELSE "agent"]
MCPairCrew == [w \in Work |-> IF w = hook THEN Nothing ELSE "pair"]
MCPairCrewRow == [c \in {"pair"} |-> [maxAgents |-> 1, memoryMB |-> Nothing]]

\* Room for a chat turn beside a background run
MCRoomyLimits ==
  [ServerTotal |-> 2, ServerBackground |-> 1, ServerChatReserv |-> 1,
   AgentTotal |-> 2, AgentChat |-> 1, AgentBackground |-> 1]

MCDispatchable == {Work \ HostChat}
MCNoSession == [w \in Work |-> Nothing]

\* What Transition is asked for by its only caller, the dispatcher
MCShippedTargets ==
  {"succeeded", "failed", "cancelled", "retry_wait", "needs_reconciliation"}

MCSettling == {"succeeded", "failed", "cancelled"}

MCSymmetry == Permutations(RunId)
=============================================================================
