----------------------------- MODULE Operations -----------------------------
(***************************************************************************)
(* The sidecar's handlers that change a cluster (scale, delete, restart,   *)
(* apply, exec, copy, debug pod, undo, cordon, drain, trigger, and Helm's  *)
(* three) and the audit entries they leave, while context switches commit. *)
(*                                                                         *)
(* A handler is a plan: the API calls it makes in order, what each failure *)
(* leads to, and the moment it reads the name of the context that its      *)
(* audit entries will carry.  Request parameters are checked before any of *)
(* this and are left out: a request that fails them changes nothing.       *)
(***************************************************************************)
EXTENDS Naturals, Sequences

CONSTANTS Requests,    \* mutating requests
          Clusters,    \* contexts the sidecar can serve
          Steps,       \* attempts of retry.RetryOnConflict
          MaxCommits,  \* bound on context switches
          Nil

ASSUME OperationsAssumption ==
  /\ Clusters # {} /\ Nil \notin Clusters
  /\ Steps \in Nat \ {0}
  /\ MaxCommits \in Nat

VARIABLES
  served,   \* store.Store.ActiveContextName; ActiveCache changes with it
  commits,  \* number of switches committed (bounded)
  stage,    \* where a request is
  kind,     \* the handler that runs it
  client,   \* the cluster of the clientset it holds
  name,     \* the context name it read for its audit entries
  at,       \* the call it makes next
  tries,    \* attempts under RetryOnConflict
  failed,   \* calls that returned an error
  absent,   \* calls answered by NotFound that the handler accepts
  missed,   \* calls whose audit entry could not be written
  changes,  \* history: what the API servers carried out
  trail,    \* the audit entries
  reply     \* the answer

opsVars == <<served, commits, stage, kind, client, name, at, tries, failed,
             absent, missed, changes, trail, reply>>

--------------------------------------------------------------------------
(* Plans.  A call may end the handler when it fails or let it go on;       *)
(* NotFound may be an error, a success or nothing to count; a conflict may *)
(* be retried from the call before; a failure may be silent (no entry).    *)

Reads  == [writes |-> FALSE, onward |-> FALSE, gone |-> FALSE, retried |-> FALSE,
           silent |-> FALSE]
Writes == [Reads EXCEPT !.writes = TRUE]
Update == [Writes EXCEPT !.retried = TRUE]

\* When the identity is read: before the clientset is taken, after so many
\* calls, or (99) only when an entry is about to be written.
Before == 98
Late   == 99

Plan(named, calls) ==
  [named |-> named, calls |-> calls, audited |-> TRUE, each |-> FALSE,
   announced |-> FALSE, streams |-> FALSE]

Scale          == Plan(Late, <<Reads, Update>>)
Delete         == Plan(Late, <<[Writes EXCEPT !.gone = TRUE]>>)
RolloutRestart == Plan(Late, <<Writes>>)
ApplyYAML      == LET Document == [Writes EXCEPT !.onward = TRUE]
                  IN  [Plan(1, <<[Reads EXCEPT !.silent = TRUE], Document, Document>>)
                         EXCEPT !.each = TRUE]
ExecOneShot    == [Plan(Late, <<Writes>>) EXCEPT !.audited = FALSE]
Exec           == [Plan(0, <<Writes>>) EXCEPT !.announced = TRUE]
CPFrom         == [Plan(Late, <<Reads, Reads>>) EXCEPT !.streams = TRUE]
CPTo           == Plan(Late, <<Reads, Writes>>)
CreateDebugPod == Plan(Late, <<Writes>>)
RolloutUndo    == Plan(Before, <<Reads, Reads, Reads, Update>>)
CordonNode     == Plan(Late, <<Writes>>)
DrainNode      == LET Evict == [Writes EXCEPT !.onward = TRUE, !.gone = TRUE]
                  IN  Plan(Late, <<Writes, Reads, Evict, Evict>>)
\* Slip: the return after a failed create writes no entry.
SlipTriggerCronJob == Plan(Late, <<Reads, [Writes EXCEPT !.silent = TRUE]>>)
TriggerCronJob == Plan(Late, <<Reads, Writes>>)
HelmRollback   == [Plan(Late, <<Writes>>) EXCEPT !.audited = FALSE]
HelmUninstall  == [Plan(Late, <<Writes>>) EXCEPT !.audited = FALSE]
HelmInstall    == [Plan(Late, <<Writes>>) EXCEPT !.audited = FALSE]

Handlers ==
  [scale |-> Scale, delete |-> Delete, restart |-> RolloutRestart,
   apply |-> ApplyYAML, execOnce |-> ExecOneShot, exec |-> Exec,
   cpFrom |-> CPFrom, cpTo |-> CPTo, debugPod |-> CreateDebugPod,
   undo |-> RolloutUndo, cordon |-> CordonNode, drain |-> DrainNode,
   trigger |-> TriggerCronJob, rollback |-> HelmRollback,
   uninstall |-> HelmUninstall, install |-> HelmInstall]

ASSUME NilAssumption == Nil \notin DOMAIN Handlers

PlanOf(r) == Handlers[kind[r]]
Calls(r)  == PlanOf(r).calls
Call(r)   == Calls(r)[at[r]]

--------------------------------------------------------------------------
Entry == [req : Requests, call : Nat, named : Clusters, cluster : Clusters,
          outcome : {"started", "success", "failure"}]

OpsTypeOK ==
  /\ served \in Clusters
  /\ commits \in 0 .. MaxCommits
  /\ stage \in [Requests -> {"idle", "taking", "calling", "recording",
                             "replying", "done", "killed"}]
  /\ kind \in [Requests -> DOMAIN Handlers \cup {Nil}]
  /\ \A r \in Requests : stage[r] \notin {"idle", "killed"} => kind[r] # Nil
  /\ client \in [Requests -> Clusters \cup {Nil}]
  /\ name \in [Requests -> Clusters \cup {Nil}]
  /\ at \in [Requests -> Nat]
  /\ tries \in [Requests -> 1 .. Steps]
  /\ failed \in [Requests -> SUBSET Nat]
  /\ absent \in [Requests -> SUBSET Nat]
  /\ missed \in [Requests -> SUBSET Nat]
  /\ changes \subseteq [req : Requests, call : Nat, cluster : Clusters]
  /\ trail \subseteq Entry
  /\ reply \in [Requests -> {"none", "ok", "error"}]

OpsInit ==
  /\ served = CHOOSE c \in Clusters : TRUE
  /\ commits = 0
  /\ stage = [r \in Requests |-> "idle"]
  /\ kind = [r \in Requests |-> Nil]
  /\ client = [r \in Requests |-> Nil]
  /\ name = [r \in Requests |-> Nil]
  /\ at = [r \in Requests |-> 1]
  /\ tries = [r \in Requests |-> 1]
  /\ failed = [r \in Requests |-> {}]
  /\ absent = [r \in Requests |-> {}]
  /\ missed = [r \in Requests |-> {}]
  /\ changes = {}
  /\ trail = {}
  /\ reply = [r \in Requests |-> "none"]

Move(r, s) == stage' = [stage EXCEPT ![r] = s]

--------------------------------------------------------------------------
(* A handler                                                               *)

\* ActiveClientset, or for an undo the identity, is read on entry.
Enter(r, k) ==
  /\ stage[r] = "idle"
  /\ kind' = [kind EXCEPT ![r] = k]
  /\ IF Handlers[k].named = Before
     THEN /\ name' = [name EXCEPT ![r] = served]
          /\ Move(r, "taking")
          /\ UNCHANGED client
     ELSE /\ client' = [client EXCEPT ![r] = served]
          /\ Move(r, "calling")
          /\ UNCHANGED name
  /\ UNCHANGED <<served, commits, at, tries, failed, absent, missed, changes, trail, reply>>

\* undoDeploymentRollout asks for the active clientset again.
TakeClient(r) ==
  /\ stage[r] = "taking"
  /\ client' = [client EXCEPT ![r] = served]
  /\ Move(r, "calling")
  /\ UNCHANGED <<served, commits, kind, name, at, tries, failed, absent, missed, changes,
                 trail, reply>>

NameDue(r) ==
  /\ PlanOf(r).audited /\ name[r] = Nil
  /\ \/ stage[r] = "calling" /\ PlanOf(r).named = at[r] - 1
     \/ stage[r] = "recording"

\* auditIdentity reads ActiveContextName without the lock and apart from the
\* clientset.  An interactive exec announces itself in the trail at once.
AuditIdentity(r) ==
  /\ stage[r] \in {"calling", "recording"} /\ NameDue(r)
  /\ name' = [name EXCEPT ![r] = served]
  /\ IF PlanOf(r).announced
     THEN \/ trail' = trail \cup {[req |-> r, call |-> 0, named |-> served,
                                   cluster |-> client[r], outcome |-> "started"]}
          \/ UNCHANGED trail
     ELSE UNCHANGED trail
  /\ UNCHANGED <<served, commits, stage, kind, client, at, tries, failed, absent, missed,
                 changes, reply>>

Calling(r) == stage[r] = "calling" /\ ~NameDue(r)
Applied(r) == changes' = IF Call(r).writes
                         THEN changes \cup {[req |-> r, call |-> at[r], cluster |-> client[r]]}
                         ELSE changes

\* Where a handler is after its call: an entry per document for apply, else
\* the next call, else the entry for the whole request.
Proceed(r, over) ==
  LET last == over \/ at[r] = Len(Calls(r))
  IN  IF ~PlanOf(r).audited /\ last THEN Move(r, "replying")
      ELSE IF last \/ (PlanOf(r).each /\ Call(r).writes) THEN Move(r, "recording")
      ELSE UNCHANGED stage

Advance(r) == at' = [at EXCEPT ![r] = IF PlanOf(r).each /\ Call(r).writes THEN @ ELSE @ + 1]

Succeeds(r) ==
  /\ Calling(r)
  /\ Applied(r)
  /\ Advance(r)
  /\ Proceed(r, FALSE)
  /\ UNCHANGED <<served, commits, kind, client, name, tries, failed, absent, missed, trail,
                 reply>>

\* NotFound on a delete: an idempotent success, or a pod that is gone.
IsAbsent(r) ==
  /\ Calling(r) /\ Call(r).gone
  /\ absent' = [absent EXCEPT ![r] = @ \cup {at[r]}]
  /\ Advance(r)
  /\ Proceed(r, FALSE)
  /\ UNCHANGED <<served, commits, kind, client, name, tries, failed, missed, changes, trail,
                 reply>>

\* A conflicting update starts over from the get before it.
Conflicts(r) ==
  /\ Calling(r) /\ Call(r).retried /\ tries[r] < Steps
  /\ tries' = [tries EXCEPT ![r] = @ + 1]
  /\ at' = [at EXCEPT ![r] = @ - 1]
  /\ UNCHANGED <<served, commits, stage, kind, client, name, failed, absent, missed, changes,
                 trail, reply>>

\* An error, after the server carried the call out (the answer was lost, the
\* client went away and cancelled the request) or not.
Fails(r) ==
  /\ Calling(r)
  /\ Applied(r) \/ UNCHANGED changes
  /\ failed' = [failed EXCEPT ![r] = @ \cup {at[r]}]
  /\ Advance(r)
  /\ IF Call(r).silent THEN Move(r, "replying") ELSE Proceed(r, ~Call(r).onward)
  /\ UNCHANGED <<served, commits, kind, client, name, tries, absent, missed, trail, reply>>

\* A document of a manifest without a kind is reported, but leaves no entry.
SkipsDocument(r) ==
  /\ Calling(r) /\ PlanOf(r).each /\ Call(r).writes
  /\ failed' = [failed EXCEPT ![r] = @ \cup {at[r]}]
  /\ IF at[r] < Len(Calls(r))
     THEN at' = [at EXCEPT ![r] = @ + 1] /\ UNCHANGED stage
     ELSE Move(r, "replying") /\ UNCHANGED at
  /\ UNCHANGED <<served, commits, kind, client, name, tries, absent, missed, changes, trail,
                 reply>>

\* Slip: only the last call's error is remembered.
SlipOutcome(r) == IF \/ PlanOf(r).each /\ at[r] \in failed[r]
                     \/ ~PlanOf(r).each /\ at[r] - 1 \in failed[r]
                  THEN "failure" ELSE "success"

Outcome(r) == IF \/ PlanOf(r).each /\ at[r] \in failed[r]
                 \/ ~PlanOf(r).each /\ failed[r] # {}
              THEN "failure" ELSE "success"

\* audit.Global.Record: an error is only logged.
Record(r) ==
  /\ stage[r] = "recording" /\ ~NameDue(r)
  /\ \/ /\ trail' = trail \cup {[req |-> r, call |-> at[r], named |-> name[r],
                                 cluster |-> client[r], outcome |-> Outcome(r)]}
        /\ UNCHANGED missed
     \/ /\ missed' = [missed EXCEPT ![r] = @ \cup {at[r]}]
        /\ UNCHANGED trail
  /\ IF PlanOf(r).each /\ at[r] < Len(Calls(r))
     THEN Move(r, "calling") /\ at' = [at EXCEPT ![r] = @ + 1]
     ELSE Move(r, "replying") /\ UNCHANGED at
  /\ UNCHANGED <<served, commits, kind, client, name, tries, failed, absent, changes, reply>>

\* The copy from a pod has sent its header before the stream breaks.
Answer(r) == IF failed[r] = {} \/ (PlanOf(r).streams /\ failed[r] = {Len(Calls(r))})
             THEN "ok" ELSE "error"

Reply(r) ==
  /\ stage[r] = "replying"
  /\ reply' = [reply EXCEPT ![r] = Answer(r)]
  /\ Move(r, "done")
  /\ UNCHANGED <<served, commits, kind, client, name, at, tries, failed, absent, missed,
                 changes, trail>>

--------------------------------------------------------------------------
\* runContextSwitch's caller commits name and cache in one critical section.
CommitSwitch(c) ==
  /\ commits < MaxCommits /\ c # served
  /\ served' = c
  /\ commits' = commits + 1
  /\ UNCHANGED <<stage, kind, client, name, at, tries, failed, absent, missed, changes, trail,
                 reply>>

\* The application stops the sidecar, whatever runs.
Killed ==
  /\ \E r \in Requests : stage[r] \notin {"done", "killed"}
  /\ stage' = [r \in Requests |-> IF stage[r] = "done" THEN "done" ELSE "killed"]
  /\ UNCHANGED <<served, commits, kind, client, name, at, tries, failed, absent, missed,
                 changes, trail, reply>>

OpsNext ==
  \/ \E r \in Requests :
        \/ \E k \in DOMAIN Handlers : Enter(r, k)
        \/ TakeClient(r) \/ AuditIdentity(r)
        \/ Succeeds(r) \/ IsAbsent(r) \/ Conflicts(r) \/ Fails(r) \/ SkipsDocument(r)
        \/ Record(r) \/ Reply(r)
  \/ \E c \in Clusters : CommitSwitch(c)
  \/ Killed

OpsSpec == OpsInit /\ [][OpsNext]_opsVars

--------------------------------------------------------------------------
(* Properties                                                              *)

\* The handler is past the point where it writes the entry for a change.
Past(ch) == \/ stage[ch.req] = "done"
            \/ PlanOf(ch.req).each /\ stage[ch.req] = "calling" /\ at[ch.req] > ch.call

\* Every change a handler has made to a cluster, whatever failed around it
\* (a lost answer, a conflict, half of a drain, the third document of a
\* manifest), is in the audit trail by the time the handler is past it.  Left
\* out of the trail are a one-shot exec and Helm's roll back, uninstall and
\* install, entries whose write failed, and what the end of the process cut off.
ChangesAudited ==
  \A ch \in changes :
     Past(ch) =>
       \/ kind[ch.req] \in {"execOnce", "rollback", "uninstall", "install"}
       \/ IF PlanOf(ch.req).each THEN ch.call \in missed[ch.req] ELSE missed[ch.req] # {}
       \/ \E e \in trail : /\ e.req = ch.req /\ e.outcome # "started"
                          /\ PlanOf(ch.req).each => e.call = ch.call

\* Calls an entry speaks of: its document, or all of the request's.
Covers(e) == IF PlanOf(e.req).each THEN {e.call} ELSE DOMAIN Calls(e.req)

\* An entry says "success" only of writes that were carried out (or whose
\* object was already gone), and "failure" only if a call failed; and a caller
\* is told of every failure in the trail, except of a copy from a pod that
\* broke after its header was sent.
OutcomesTrue ==
  \A e \in trail :
     /\ e.outcome = "success" =>
           \A i \in Covers(e) :
              Calls(e.req)[i].writes =>
                \/ i \in absent[e.req]
                \/ \E ch \in changes : ch.req = e.req /\ ch.call = i /\ ch.cluster = e.cluster
     /\ e.outcome = "failure" =>
           /\ Covers(e) \cap failed[e.req] # {}
           /\ reply[e.req] = "ok" => kind[e.req] = "cpFrom"

\* The comment in HandleRolloutUndo: the identity of an entry is bound to the
\* context the operation runs against, as in the other handlers.
IdentityOfTarget == \A e \in trail : e.named = e.cluster

\* What the trail and the answers say of the operations, whatever fails or is cut
\* off around them.
OpsTrue == OpsTypeOK /\ ChangesAudited /\ OutcomesTrue
=============================================================================
