-------------------------------- MODULE Task --------------------------------
(***************************************************************************)
(* task.rs: the registry of agents.  An agent's name is only displayed and *)
(* is left out; its identifier is the key it is stored under.              *)
(***************************************************************************)
EXTENDS Integers, Sequences

CONSTANT MaxAgents   \* bound: no more than MaxAgents agents are ever spawned

ASSUME TaskAssumption == MaxAgents \in Nat

VARIABLES
  agents,    \* Registry::agents: a map from AgentId to capabilities and state
  next_id    \* Registry::next_id

AgentState == {"Running", "Terminated"}

(* spawn_agent: the identifiers in capabilities become the agent's list.   *)
(* NewAgentId is the returned identifier.                                  *)
NewAgentId == next_id

spawn_agent(capabilities) ==
  /\ next_id <= MaxAgents
  /\ next_id' = next_id + 1
  /\ agents' = [a \in DOMAIN agents \cup {next_id} |->
                  IF a = next_id
                  THEN [capabilities |-> capabilities, state |-> "Running"]
                  ELSE agents[a]]

(* agent_capabilities: the empty list for an unknown agent. *)
agent_capabilities(a) ==
  IF a \in DOMAIN agents THEN agents[a].capabilities ELSE << >>

(* grant_capability_to_agent: no effect on an unknown agent. *)
grant_capability_to_agent(a, cap_id) ==
  /\ agents' = [b \in DOMAIN agents |->
                  IF b = a
                  THEN [capabilities |-> Append(agents[b].capabilities, cap_id),
                        state |-> agents[b].state]
                  ELSE agents[b]]
  /\ UNCHANGED next_id

(* terminate_agent: only the state changes; the agent keeps its entry and  *)
(* its list of capabilities.                                               *)
terminate_agent(a) ==
  /\ agents' = [b \in DOMAIN agents |->
                  IF b = a
                  THEN [capabilities |-> agents[b].capabilities, state |-> "Terminated"]
                  ELSE agents[b]]
  /\ UNCHANGED next_id

-----------------------------------------------------------------------------
TaskInit == agents = << >> /\ next_id = 1

TaskTypeOK ==
  /\ next_id \in 1 .. MaxAgents + 1
  /\ agents \in [DOMAIN agents -> [capabilities : Seq(Nat), state : AgentState]]
  /\ DOMAIN agents \subseteq 1 .. (next_id - 1)
=============================================================================
