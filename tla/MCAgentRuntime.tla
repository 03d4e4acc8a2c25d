--------------------------- MODULE MCAgentRuntime ---------------------------
(* Instances of AgentRuntime small enough for TLC.                         *)
EXTENDS AgentRuntimeProperties

MCDocuments == 1..3

MCRequests ==
  [topics : {{}, {"data"}, {"data", "security"}}, injected : {FALSE}]
    \cup {[topics |-> {"data"}, injected |-> TRUE]}

(* Overlaps on both sides of the cap on relevance.                         *)
MCKinds ==
  [tags : {{}, {"general"}, {"data"}}, overlap : {0, 3, 5}, tainted : BOOLEAN]

=============================================================================
