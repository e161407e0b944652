------------------------------ MODULE MCServices ------------------------------
(* Small instances of four parts that share no state, explored side by side: *)
(* the sidecar's port-forward manager, the path of a forward from its row to *)
(* the sidecar, the MCP server and the life cycle of the sidecar process.    *)
EXTENDS PortForward, ForwardPath, McpServer, SidecarProcess, TLC

CONSTANTS m1, m2, m3   \* tool calls

const_longest == (m1 :> 4) @@ (m2 :> 1) @@ (m3 :> 0)

VARIABLE part   \* the part that runs; the others stay as they start

all == <<vars, fwdVars, mcpVars, procVars, part>>

ServicesInit ==
  /\ part \in {"tunnels", "path", "mcp", "process"}
  /\ Init /\ FwdInit /\ McpInit /\ ProcInit

ServicesNext ==
  /\ UNCHANGED part
  /\ \/ part = "tunnels" /\ Next     /\ UNCHANGED <<fwdVars, mcpVars, procVars>>
     \/ part = "path"    /\ FwdNext  /\ UNCHANGED <<vars, mcpVars, procVars>>
     \/ part = "mcp"     /\ McpNext  /\ UNCHANGED <<vars, fwdVars, procVars>>
     \/ part = "process" /\ ProcNext /\ UNCHANGED <<vars, fwdVars, mcpVars>>

\* No fair action of a part is enabled where the part starts, so the fairness of
\* a part that does not run asks nothing.
ServicesSpec ==
  /\ ServicesInit /\ [][ServicesNext]_all
  /\ Fairness /\ FwdFairness /\ McpFairness /\ ProcFairness

\* Whatever the parts have begun ends: a tunnel that has died is reported, a row
\* settles, a tool call is answered, and so are a start and a quit.
WorkEnds == DeadForwardReported /\ RowsSettle /\ McpCallsEnd /\ ProcessCallsEnd
=============================================================================
