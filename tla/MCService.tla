------------------------------- MODULE MCService -------------------------------
(***************************************************************************)
(* The parts of the service that keep state in the process beside the      *)
(* tables: the limiter, the connection manager and the sessions to         *)
(* external MCP servers, in one run.  They meet only in the request a user *)
(* sends, so that a behaviour is about one of them and leaves the others   *)
(* where they start.                                                       *)
(***************************************************************************)
EXTENDS QueryLimits, ConnectionPools, McpServers, TLC

VARIABLE focus  \* the part this behaviour is about, never changed

ServiceInit == focus \in {"limits", "pools", "mcp"} /\ LimitsInit /\ PoolsInit /\ McpInit

Part(name, Step, others) == focus = name /\ Step /\ UNCHANGED <<focus, others>>

ServiceNext ==
  \/ Part("limits", LimitsNext, <<poolVars, mcpVars>>)
  \/ Part("pools", PoolsNext, <<limitVars, mcpVars>>)
  \/ Part("mcp", McpNext, <<limitVars, poolVars>>)

ServiceSpec == ServiceInit /\ [][ServiceNext]_<<focus, limitVars, poolVars, mcpVars>>

MCLimits == [f \in Fields |-> 2]
MCBodies == {"rate" :> 1, "slots" :> 1}

(* A server whose one tool is listed as it was, or changed. *)
MCListings == {{[name |-> "t", digest |-> d]} : d \in 1..2}

(* What is told apart by its name alone, each of two values. *)
Symmetry == Permutations(Asks) \cup Permutations(Savers)
===============================================================================
