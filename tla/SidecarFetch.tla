----------------------------- MODULE SidecarFetch -----------------------------
(***************************************************************************)
(* What the main process asks of the sidecar and how it asks: sidecarFetch *)
(* with its retries (api.ts), the requests of ipc/kubectl.ts and           *)
(* ipc/helm.ts by method and by what an error status becomes, and the      *)
(* streamed requests, which go through node's http and are never repeated. *)
(*                                                                         *)
(* A call makes one request.  The sidecar may be starting (connections are *)
(* refused) or up; a connection may be reset before or after the sidecar   *)
(* has done what was asked.                                                *)
(***************************************************************************)
EXTENDS Naturals

CONSTANTS Fetches,      \* calls
          Tries         \* maxRetries

ASSUME TriesAssumption == Tries \in Nat \ {0}

\* A request by its path: may it be repeated, does it change anything, and is an
\* error of the sidecar's reported or shown as an empty answer.
Asks(path)    == [path |-> path, repeat |-> TRUE,  changes |-> FALSE, strict |-> TRUE]
Lenient(path) == [Asks(path) EXCEPT !.strict = FALSE]
Posts(path)   == [Asks(path) EXCEPT !.repeat = FALSE]
Changes(path) == [Posts(path) EXCEPT !.changes = TRUE]
Does(path)    == [Asks(path) EXCEPT !.changes = TRUE]

\* getResources answers an empty list for a built-in kind that failed, and for a
\* custom resource that is not served; a denied list is told from an empty one.
ListRequests ==
  {Asks("config/contexts"), Asks("config/current-context"), Does("config/switch"),
   Lenient("list"), Asks("customresource"), Lenient("metrics/pods"), Lenient("metrics/nodes")}

ResourceRequests ==
  {Changes("debugpod/create"), Lenient("providers"), Asks("secret/value"), Changes("scale"),
   Changes("rollout/restart"), Asks("rollout/history"), Changes("rollout/undo"),
   Lenient("events"), Changes("node/cordon"), Changes("node/drain"), Changes("delete"),
   Asks("getYAML"), Changes("apply"), Does("exec/oneshot")}

\* The rest of the provider: copies, scans, cron jobs, permissions, topology.
TransferRequests ==
  {Changes("cp/to"), Asks("cp/from"), Asks("security/scan"), Posts("security/kubesec"),
   Changes("cronjob/trigger"), Lenient("rbac"), Asks("topology")}

\* A refused stop of a forward is only logged.
TunnelRequests ==
  {Does("portforward"), [Does("stopPortForward") EXCEPT !.strict = FALSE], Lenient("health")}

PanelRequests ==
  {Asks("prometheus/status"), Posts("prometheus/query_range_batch"),
   Changes("prometheus/cache/clear"), Asks("owner-chain"), Asks("tls-certs"), Asks("gitops"),
   Changes("gitops/reconcile"), Changes("gitops/suspend")}

HelmRequests ==
  {Asks("helm/list"), Asks("helm/status"), Asks("helm/values"), Asks("helm/history"),
   Changes("helm/rollback"), Changes("helm/uninstall"), Asks("helm/repos"),
   Changes("helm/repos/add"), Asks("helm/repos/search"), Asks("helm/repos/latest")}

\* Streams of events: the outcome is the stream's last event.
StreamRequests == {Changes("helm/repos/refresh"), Changes("helm/install")}
ScanRequests   == {Asks("security/scan/stream"), Posts("security/trivy/images")}

Streamed == StreamRequests \cup ScanRequests
FetchRequests == ListRequests \cup ResourceRequests \cup TransferRequests \cup TunnelRequests
              \cup PanelRequests \cup HelmRequests \cup Streamed

Nothing == Asks("none")

VARIABLES
  serving,  \* the sidecar accepts connections
  fetch,    \* each call: "idle", "trying", "ok", "error" (status), "empty", "threw"
  fetchAsks,     \* its request
  tried,    \* attempts made
  carried,  \* history: how often the sidecar has done what was asked
  answerFailed,   \* history: how often it has refused to
  cut       \* history: connections reset

fetchVars == <<serving, fetch, fetchAsks, tried, carried, answerFailed, cut>>

FetchTypeOK ==
  /\ serving \in BOOLEAN
  /\ fetch \in [Fetches -> {"idle", "trying", "ok", "error", "empty", "threw"}]
  /\ fetchAsks \in [Fetches -> FetchRequests \cup {Nothing}]
  /\ tried \in [Fetches -> 0..Tries]
  /\ carried \in [Fetches -> 0..Tries] /\ answerFailed \in [Fetches -> 0..Tries]
  /\ cut \in [Fetches -> 0..Tries]

FetchInit ==
  /\ serving \in BOOLEAN
  /\ fetch = [f \in Fetches |-> "idle"]
  /\ fetchAsks = [f \in Fetches |-> Nothing]
  /\ tried = [f \in Fetches |-> 0]
  /\ carried = tried /\ answerFailed = tried /\ cut = tried

FetchCall(f) ==
  /\ fetch[f] = "idle"
  /\ \E r \in FetchRequests : fetchAsks' = [fetchAsks EXCEPT ![f] = r]
  /\ fetch' = [fetch EXCEPT ![f] = "trying"]
  /\ UNCHANGED <<serving, tried, carried, answerFailed, cut>>

Attempts(f) == fetch[f] = "trying" /\ tried' = [tried EXCEPT ![f] = @ + 1]

\* Slip: every request is repeated after a reset.
SlipRepeats(f) == fetchAsks[f] \notin Streamed

\* Requests of methods other than POST, PUT and PATCH are repeated at once.
Repeats(f) == fetchAsks[f].repeat /\ fetchAsks[f] \notin Streamed

\* The connection is refused: again after 500 ms, whatever the method.
FetchRefused(f) ==
  /\ Attempts(f) /\ ~serving
  /\ fetch' = [fetch EXCEPT ![f] = IF fetchAsks[f] \notin Streamed /\ tried'[f] < Tries
                                   THEN "trying" ELSE "threw"]
  /\ UNCHANGED <<serving, fetchAsks, carried, answerFailed, cut>>

\* The connection is reset, with the request carried out or not.
Reset(f) ==
  /\ Attempts(f) /\ serving
  /\ cut' = [cut EXCEPT ![f] = @ + 1]
  /\ \E n \in 0..1 : carried' = [carried EXCEPT ![f] = @ + n]
  /\ fetch' = [fetch EXCEPT ![f] = IF Repeats(f) /\ tried'[f] < Tries THEN "trying" ELSE "threw"]
  /\ UNCHANGED <<serving, fetchAsks, answerFailed>>

FetchAnswered(f) ==
  /\ Attempts(f) /\ serving
  /\ carried' = [carried EXCEPT ![f] = @ + 1]
  /\ fetch' = [fetch EXCEPT ![f] = "ok"]
  /\ UNCHANGED <<serving, fetchAsks, answerFailed, cut>>

\* Slip: the status of an answer is not looked at.
SlipErrorShown(f) == "empty"
\* checkedSidecarFetch throws; the lenient callers look at res.ok.
ErrorShown(f) == IF fetchAsks[f].strict THEN "error" ELSE "empty"

\* An error status, or an error event on a stream.
Failed(f) ==
  /\ Attempts(f) /\ serving
  /\ answerFailed' = [answerFailed EXCEPT ![f] = @ + 1]
  /\ fetch' = [fetch EXCEPT ![f] = ErrorShown(f)]
  /\ UNCHANGED <<serving, fetchAsks, carried, cut>>

\* A stream of helm's ends without a result: that counts as one (a scan's is an
\* error, `Reset').
StreamEnds(f) ==
  /\ Attempts(f) /\ serving /\ fetchAsks[f] \in StreamRequests
  /\ cut' = [cut EXCEPT ![f] = @ + 1]
  /\ \E n \in 0..1 : carried' = [carried EXCEPT ![f] = @ + n]
  /\ fetch' = [fetch EXCEPT ![f] = "ok"]
  /\ UNCHANGED <<serving, fetchAsks, answerFailed>>

Serve ==
  /\ ~serving /\ serving' = TRUE
  /\ UNCHANGED <<fetch, fetchAsks, tried, carried, answerFailed, cut>>

FetchNext ==
  \/ \E f \in Fetches :
       \/ FetchCall(f) \/ FetchRefused(f) \/ Reset(f) \/ FetchAnswered(f) \/ Failed(f)
                        \/ StreamEnds(f)
  \/ Serve

FetchSpec == FetchInit /\ [][FetchNext]_fetchVars

--------------------------------------------------------------------------
(* Properties                                                              *)

\* What the main process tells the renderer of a request is what the sidecar
\* did: a change is carried out at most once, except one asked for by GET whose
\* connection was reset; success means that it was carried out, except for a
\* stream of helm's that broke off; and an error is reported, except by the
\* callers that show an empty answer.
RequestsTrue ==
  /\ FetchTypeOK
  /\ \A f \in Fetches :
       /\ fetchAsks[f].changes => carried[f] <= 1 \/ (fetchAsks[f].repeat /\ cut[f] > 0)
       /\ fetch[f] = "ok" => carried[f] > 0 \/ (fetchAsks[f] \in StreamRequests /\ cut[f] > 0)
       /\ answerFailed[f] > 0 =>
            fetch[f] = "error" \/ (fetch[f] = "empty" /\ ~fetchAsks[f].strict)
       /\ fetch[f] = "threw" /\ carried[f] > 0 => cut[f] > 0
=============================================================================
