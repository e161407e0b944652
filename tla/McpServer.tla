----------------------------- MODULE McpServer -----------------------------
(***************************************************************************)
(* The podscape-mcp server: tools that each hold bundleMu for reading from *)
(* their start to their answer, and switch_context, which swaps the bundle *)
(* of clients under the write lock.                                        *)
(*                                                                         *)
(* A tool is the set of call sequences its arguments can lead to.  The     *)
(* transport may run several calls at a time (external).  Arguments are    *)
(* checked, and an unconfirmed delete or uninstall is answered, before the *)
(* lock is taken: such calls have no effect and are left out.              *)
(***************************************************************************)
EXTENDS Naturals, Sequences

CONSTANTS ToolCalls,    \* calls of tools by the MCP client
          McpContexts,  \* contexts of the kubeconfig
          Attempts,     \* attempts of retry.RetryOnConflict
          MaxSwaps,     \* bound on switches of context
          Longest,      \* how many API calls the tool of a call may make (a bound)
          Nobody

ASSUME McpAssumption ==
  /\ Nobody \notin ToolCalls \cup McpContexts /\ McpContexts # {}
  /\ Attempts \in Nat \ {0}
  /\ MaxSwaps \in Nat /\ Longest \in [ToolCalls -> Nat]

VARIABLES
  bundle,   \* the context whose clients are in the bundle
  swaps,    \* switches begun (bounded)
  holders,  \* calls that hold bundleMu for reading
  pending,  \* the switch that waits for, or has, bundleMu for writing
  phase,    \* where a call is
  tool,     \* its API calls and whether they have a deadline, or a switch's target
  took,     \* the bundle a call works with
  next,     \* the API call it makes next
  attempt,  \* attempts under RetryOnConflict
  lost,     \* API calls that failed
  wrote,    \* history: writes the API servers carried out
  answer    \* what the client is told

mcpVars == <<bundle, swaps, holders, pending, phase, tool, took, next, attempt, lost, wrote,
             answer>>

--------------------------------------------------------------------------
(* API calls.  A failure ends the tool ("get", "write", "update"), is      *)
(* ignored ("ask"), is the tool's error once the calls made with it have   *)
(* ended ("join"), or is counted in its answer ("evict").  A conflict      *)
(* sends an update back to the get before it.                              *)

Writing   == {"write", "update", "evict"}
Tolerated == {"ask", "join", "evict"}

\* internal/ops, and the dynamic client for kinds it does not know.
OpsScale          == {<<"get", "update">>}
OpsDelete         == {<<"write">>, <<"ask", "write">>}
OpsRolloutRestart == {<<"write">>}
OpsRolloutUndo    == {<<"get", "get", "write">>}
OpsApplyYAML      == {<<"get", "write">>}
OpsListResource   == {<<"get">>}
OpsGetResource    == {<<"get">>}
Dynamic           == {<<"get", "get">>}

Within(calls)  == [calls : calls, timed : {TRUE}]   \* apiTimeout, or one of its own
Forever(calls) == [calls : calls, timed : {FALSE}]  \* Helm's actions take no context

handleScaleResource   == Within(OpsScale)
handleDeleteResource  == Within(OpsDelete)
handleRolloutRestart  == Within(OpsRolloutRestart)
handleRolloutUndo     == Within(OpsRolloutUndo)
handleApplyYAML       == Within(OpsApplyYAML)
handleCordonNode      == Within({<<"write">>})
handleDrainNode       == Within({<<"get">>, <<"get", "evict">>, <<"get", "evict", "evict">>})
handleTriggerCronJob  == Within({<<"get", "write">>})
handleExecCommand     == Within({<<"write">>, <<"get", "write">>})

handleListResources   == Within(OpsListResource \cup Dynamic)
handleGetResource     == Within(OpsGetResource \cup Dynamic)
handleGetResourceYAML == Within(OpsGetResource \cup Dynamic)
handleGetPodLogs      == Within({<<"get">>, <<"get", "get">>})
handleListEvents      == Within({<<"get">>})
handleListContexts    == Within({<<>>})
handleGetCurrentContext == Within({<<>>})
handleListNamespaces  == Within({<<"get">>})
handleListCRDs        == Within({<<"get">>})
handleGetMetrics      == Within({<<"get">>})

handlePodSummary      == Within({<<"get", "ask", "ask">>, <<"get", "ask", "ask", "ask">>})
handleClusterHealth   == Within({<<"join", "join", "ask">>})
handleListFailingPods == Within({<<"get">>})
handleGetResourceEvents == Within({<<"get">>})
handleDescribeResource == Within({<<"get", "ask">>, <<"get", "get", "ask">>})
handleSecurityScan    == Within({<<"get">>})
handleDetectProviders == Within({<<"ask", "ask", "ask">>})

handleHelmList        == Forever({<<"get">>})
handleHelmStatus      == Forever({<<"get">>})
handleHelmValues      == Forever({<<"get">>})
handleHelmHistory     == Forever({<<"get">>})
handleHelmRollback    == Forever({<<"get", "write">>})
handleHelmUpgrade     == Forever({<<"get", "write">>})
handleHelmUninstall   == Forever({<<"get", "write">>})

ToolSet ==
  UNION {handleScaleResource, handleDeleteResource, handleRolloutRestart, handleRolloutUndo,
         handleApplyYAML, handleCordonNode, handleDrainNode, handleTriggerCronJob,
         handleExecCommand, handleListResources, handleGetResource, handleGetResourceYAML,
         handleGetPodLogs, handleListEvents, handleListContexts, handleGetCurrentContext,
         handleListNamespaces, handleListCRDs, handleGetMetrics, handlePodSummary,
         handleClusterHealth, handleListFailingPods, handleGetResourceEvents,
         handleDescribeResource, handleSecurityScan, handleDetectProviders, handleHelmList,
         handleHelmStatus, handleHelmValues, handleHelmHistory, handleHelmRollback,
         handleHelmUpgrade, handleHelmUninstall}
Switches == [target : McpContexts]
Unset    == [calls |-> <<>>, timed |-> TRUE]

--------------------------------------------------------------------------
McpTypeOK ==
  /\ bundle \in McpContexts
  /\ swaps \in 0 .. MaxSwaps
  /\ holders \subseteq ToolCalls
  /\ pending \in ToolCalls \cup {Nobody}
  /\ phase \in [ToolCalls -> {"idle", "blocked", "path", "preparing", "queued", "swapping",
                              "calling", "done"}]
  /\ tool \in [ToolCalls -> ToolSet \cup Switches \cup {Unset}]
  /\ took \in [ToolCalls -> McpContexts \cup {Nobody}]
  /\ next \in [ToolCalls -> 1 .. 5]
  /\ attempt \in [ToolCalls -> 1 .. Attempts]
  /\ lost \in [ToolCalls -> SUBSET (1 .. 4)]
  /\ wrote \subseteq [call : ToolCalls, at : 1 .. 4, on : McpContexts]
  /\ answer \in [ToolCalls -> {"none", "ok", "error"}]

McpInit ==
  /\ bundle = CHOOSE c \in McpContexts : TRUE
  /\ swaps = 0
  /\ holders = {} /\ pending = Nobody
  /\ phase = [r \in ToolCalls |-> "idle"]
  /\ tool = [r \in ToolCalls |-> Unset]
  /\ took = [r \in ToolCalls |-> Nobody]
  /\ next = [r \in ToolCalls |-> 1]
  /\ attempt = [r \in ToolCalls |-> 1]
  /\ lost = [r \in ToolCalls |-> {}]
  /\ wrote = {}
  /\ answer = [r \in ToolCalls |-> "none"]

--------------------------------------------------------------------------
(* bundleMu: sync.RWMutex.  A writer that waits holds up new readers; when *)
(* it is done, all of them go ahead of the next writer.                    *)

Inside(t) == IF t \in Switches THEN "path" ELSE "calling"

\* Slip: the lock is released as soon as the bundle has been read.
SlipBegin(r, t) ==
  /\ phase[r] = "idle" /\ pending = Nobody
  /\ tool' = [tool EXCEPT ![r] = t]
  /\ took' = [took EXCEPT ![r] = bundle]
  /\ phase' = [phase EXCEPT ![r] = Inside(t)]
  /\ UNCHANGED <<bundle, holders, pending, next, attempt, lost, wrote, answer>>

Begin(r, t) ==
  /\ phase[r] = "idle"
  /\ tool' = [tool EXCEPT ![r] = t]
  /\ IF pending = Nobody
     THEN /\ holders' = holders \cup {r}
          /\ took' = [took EXCEPT ![r] = bundle]
          /\ phase' = [phase EXCEPT ![r] = Inside(t)]
     ELSE /\ phase' = [phase EXCEPT ![r] = "blocked"]
          /\ UNCHANGED <<holders, took>>
  /\ UNCHANGED <<bundle, pending, next, attempt, lost, wrote, answer>>

BeginTool(r)   == \E t \in ToolSet : /\ Len(t.calls) <= Longest[r]
                                     /\ Begin(r, t) /\ UNCHANGED swaps
BeginSwitch(r) == /\ swaps < MaxSwaps /\ swaps' = swaps + 1
                  /\ \E t \in Switches : Begin(r, t)

End(r, a) ==
  /\ phase' = [phase EXCEPT ![r] = "done"]
  /\ answer' = [answer EXCEPT ![r] = a]

--------------------------------------------------------------------------
(* A tool                                                                  *)

Making(r)  == phase[r] = "calling" /\ next[r] <= Len(tool[r].calls)
ApiCall(r) == tool[r].calls[next[r]]
CarriedOut(r) ==
  wrote' = IF ApiCall(r) \in Writing
           THEN wrote \cup {[call |-> r, at |-> next[r], on |-> took[r]]} ELSE wrote

ApiSucceeds(r) ==
  /\ Making(r)
  /\ CarriedOut(r)
  /\ next' = [next EXCEPT ![r] = @ + 1]
  /\ UNCHANGED <<bundle, swaps, holders, pending, phase, tool, took, attempt, lost, answer>>

ApiConflicts(r) ==
  /\ Making(r) /\ ApiCall(r) = "update" /\ attempt[r] < Attempts
  /\ attempt' = [attempt EXCEPT ![r] = @ + 1]
  /\ next' = [next EXCEPT ![r] = @ - 1]
  /\ UNCHANGED <<bundle, swaps, holders, pending, phase, tool, took, lost, wrote, answer>>

\* Slip: no failure ends the tool, as if its error were not looked at.
SlipEnding(r) == FALSE
Ending(r)     == ApiCall(r) \notin Tolerated

\* An error, or the deadline: a write may have been carried out or not.
ApiFails(r) ==
  /\ Making(r)
  /\ CarriedOut(r) \/ UNCHANGED wrote
  /\ lost' = [lost EXCEPT ![r] = @ \cup {next[r]}]
  /\ IF Ending(r)
     THEN End(r, "error") /\ holders' = holders \ {r} /\ UNCHANGED next
     ELSE next' = [next EXCEPT ![r] = @ + 1] /\ UNCHANGED <<phase, answer, holders>>
  /\ UNCHANGED <<bundle, swaps, pending, tool, took, attempt>>

\* A tool without API calls reads the kubeconfig file, which may fail.
ReturnAnswer(r) ==
  /\ phase[r] = "calling" /\ next[r] > Len(tool[r].calls)
  /\ \/ End(r, IF \E i \in lost[r] : tool[r].calls[i] = "join" THEN "error" ELSE "ok")
     \/ tool[r].calls = <<>> /\ End(r, "error")
  /\ holders' = holders \ {r}
  /\ UNCHANGED <<bundle, swaps, pending, tool, took, next, attempt, lost, wrote>>

--------------------------------------------------------------------------
(* switch_context                                                          *)

\* Slip: the read lock is released by a deferred call, when the tool returns.
SlipReadKubeconfigPath(r) ==
  /\ phase[r] = "path"
  /\ phase' = [phase EXCEPT ![r] = "preparing"]
  /\ UNCHANGED <<bundle, swaps, holders, pending, tool, took, next, attempt, lost, wrote, answer>>

ReadKubeconfigPath(r) ==
  /\ phase[r] = "path"
  /\ phase' = [phase EXCEPT ![r] = "preparing"]
  /\ holders' = holders \ {r}
  /\ UNCHANGED <<bundle, swaps, pending, tool, took, next, attempt, lost, wrote, answer>>

\* ValidateContext and InitWithContext, then the clear of Helm's cache.
InitWithContext(r) ==
  /\ phase[r] = "preparing"
  /\ \/ phase' = [phase EXCEPT ![r] = "queued"] /\ UNCHANGED answer
     \/ End(r, "error")
  /\ UNCHANGED <<bundle, swaps, holders, pending, tool, took, next, attempt, lost, wrote>>

CallLock(r) ==
  /\ phase[r] = "queued" /\ pending = Nobody
  /\ pending' = r
  /\ phase' = [phase EXCEPT ![r] = "swapping"]
  /\ UNCHANGED <<bundle, swaps, holders, tool, took, next, attempt, lost, wrote, answer>>

\* With the readers gone: the swap, and the calls that wait go in.
SwapBundle(r) ==
  /\ phase[r] = "swapping" /\ holders = {}
  /\ bundle' = tool[r].target
  /\ pending' = Nobody
  /\ LET waiting == {h \in ToolCalls : phase[h] = "blocked"}
     IN  /\ holders' = waiting
         /\ took' = [h \in ToolCalls |-> IF h \in waiting THEN bundle' ELSE took[h]]
         /\ phase' = [h \in ToolCalls |-> IF h \in waiting THEN Inside(tool[h])
                                          ELSE IF h = r THEN "done" ELSE phase[h]]
  /\ answer' = [answer EXCEPT ![r] = "ok"]
  /\ UNCHANGED <<swaps, tool, next, attempt, lost, wrote>>

ApiStep(r)  == ApiSucceeds(r) \/ ApiConflicts(r) \/ ApiFails(r)
OwnStep(r)  == ReturnAnswer(r) \/ ReadKubeconfigPath(r) \/ InitWithContext(r) \/ CallLock(r)
               \/ SwapBundle(r)

McpNext == \E r \in ToolCalls : BeginTool(r) \/ BeginSwitch(r) \/ ApiStep(r) \/ OwnStep(r)

\* Deadlines end the API calls of all tools but Helm's; the rest is the server's.
TimedStep(r) == phase[r] = "calling" /\ tool[r].timed /\ ApiStep(r)
McpFairness  == \A r \in ToolCalls : WF_mcpVars(OwnStep(r)) /\ WF_mcpVars(TimedStep(r))

McpSpec == McpInit /\ [][McpNext]_mcpVars /\ McpFairness

--------------------------------------------------------------------------
(* Properties                                                              *)

\* Every API call a tool makes, its first and its last, goes to the bundle in
\* place at that moment, so no write reaches a cluster that the client has been
\* told is no longer the current one: a switch waits for the tools under way.
CallsReachServed == \A r \in ToolCalls : phase[r] = "calling" => took[r] = bundle

\* A tool answers without an error only if all its writes were carried out, on
\* the one cluster it worked with, but for the evictions the answer counts as
\* failed; nothing the answer needs was lost on the way.
AnswersTrue ==
  \A r \in ToolCalls : answer[r] = "ok" /\ tool[r] \notin Switches =>
     /\ \A i \in DOMAIN tool[r].calls :
           tool[r].calls[i] \in Writing =>
              \/ [call |-> r, at |-> i, on |-> took[r]] \in wrote
              \/ tool[r].calls[i] = "evict" /\ i \in lost[r]
     /\ \A i \in lost[r] : tool[r].calls[i] \in {"ask", "evict"}

\* Every call ends, whatever hangs in the cluster and however many switches
\* queue for the lock, as long as no tool of Helm is running: those have no
\* deadline, and one that hangs holds up a switch, and the switch every tool.
HelmRunning == \E h \in holders : phase[h] = "calling" /\ ~tool[h].timed
McpCallsEnd == \A r \in ToolCalls : phase[r] # "idle" ~> (phase[r] = "done" \/ HelmRunning)

\* What a tool call does, and says it did, to the cluster it took.
McpTrue == McpTypeOK /\ CallsReachServed /\ AnswersTrue
=============================================================================
