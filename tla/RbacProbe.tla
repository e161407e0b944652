------------------------------ MODULE RbacProbe ------------------------------
(***************************************************************************)
(* The permission probe of a cluster cache: CheckVerbAccess asks the       *)
(* cluster, with a bounded number of calls at once, what the user may do;  *)
(* RunRBACProbe keeps the verdict in the cache; lists (MakeHandler,        *)
(* HandleEvents, HandleCRDs) and the buttons of the window follow it.      *)
(***************************************************************************)
EXTENDS Naturals, FiniteSets

CONSTANTS Probed,          \* AllResources
          ClusterScoped,   \* those asked about once, not per namespace
          Verbs,           \* "list" and "watch" among them
          MaxCalls,        \* calls at once: 16 in the code
          MaxProbes,       \* a bound
          NoVerdict        \* nil: not probed

ASSUME ProbeAssumption ==
  /\ ClusterScoped \subseteq Probed
  /\ MaxCalls \in Nat \ {0} /\ MaxProbes \in Nat
  /\ NoVerdict \notin [Probed -> [Verbs -> BOOLEAN]]

VARIABLES
  probe,      \* ProbeRunning, with its calls: [k \in ProbeCalls |-> state], or NoVerdict
  cutShort,   \* its context is done: deadline, switch away, or exit
  verdict,    \* AllowedVerbs, from which AllowedResources is derived: or NoVerdict
  probes,
  basis       \* history: what the calls of the probe of `verdict` came to

probeVars == <<probe, cutShort, verdict, probes, basis>>

Namespaces(r) == IF r \in ClusterScoped THEN {""} ELSE {"", "default"}
ProbeCalls == UNION {{<<r, v, ns>> : v \in Verbs, ns \in Namespaces(r)} : r \in Probed}
CallsOf(r, v) == {<<r, v, ns>> : ns \in Namespaces(r)}
Running == IF probe = NoVerdict THEN {} ELSE {k \in ProbeCalls : probe[k] = "sent"}

ProbeInit ==
  /\ probe = NoVerdict /\ cutShort = FALSE /\ verdict = NoVerdict
  /\ probes = 0 /\ basis = NoVerdict

\* RunRBACProbe: at startup, and by each switch to the cluster; not while one runs.
RunRBACProbe ==
  /\ probe = NoVerdict /\ probes < MaxProbes
  /\ probe' = [k \in ProbeCalls |-> "waiting"] /\ probes' = probes + 1
  /\ cutShort' \in BOOLEAN          \* the context it is given may be cancelled by now
  /\ UNCHANGED <<verdict, basis>>

CutShort ==
  /\ probe # NoVerdict /\ ~cutShort /\ cutShort' = TRUE
  /\ UNCHANGED <<probe, verdict, probes, basis>>

Becomes(k, state) == probe' = [probe EXCEPT ![k] = state]

\* A call takes a slot. If the context is done as well, either may be picked;
\* with a slot, the context is asked again.
Send(k) ==
  /\ probe # NoVerdict /\ probe[k] = "waiting" /\ ~cutShort
  /\ Cardinality(Running) < MaxCalls
  /\ Becomes(k, "sent") /\ UNCHANGED <<cutShort, verdict, probes, basis>>

\* A call is not made, or its answer does not come.
Fail(k) ==
  /\ probe # NoVerdict
  /\ probe[k] = "sent" \/ (probe[k] = "waiting" /\ cutShort)
  /\ Becomes(k, "failed") /\ UNCHANGED <<cutShort, verdict, probes, basis>>

Answers(k) ==
  /\ probe # NoVerdict /\ probe[k] = "sent"
  /\ \E a \in {"allowed", "denied"} : Becomes(k, a)
  /\ UNCHANGED <<cutShort, verdict, probes, basis>>

\* Slip: what was not answered is refused.
SlipAllowed(r, v) == \E k \in CallsOf(r, v) : probe[k] = "allowed"

\* CheckVerbAccess: allowed in a namespace asked about, or refused in none.
Allowed(r, v) ==
  \/ \E k \in CallsOf(r, v) : probe[k] = "allowed"
  \/ ~ \E k \in CallsOf(r, v) : probe[k] = "denied"

\* Slip: a probe none of whose calls was answered counts.
SlipUnreachable == FALSE

Unreachable == \A k \in ProbeCalls : probe[k] = "failed"

\* The verdict is kept, also when the context was done before every call was
\* answered; it is not if no call was.
Conclude ==
  /\ probe # NoVerdict /\ \A k \in ProbeCalls : probe[k] \notin {"waiting", "sent"}
  /\ IF Unreachable THEN UNCHANGED <<verdict, basis>>
     ELSE /\ verdict' = [r \in Probed |-> [v \in Verbs |-> Allowed(r, v)]]
          /\ basis' = probe
  /\ probe' = NoVerdict /\ UNCHANGED <<cutShort, probes>>

ProbeNext ==
  \/ RunRBACProbe \/ CutShort \/ Conclude
  \/ \E k \in ProbeCalls : Send(k) \/ Fail(k) \/ Answers(k)
ProbeSpec == ProbeInit /\ [][ProbeNext]_probeVars

--------------------------------------------------------------------------
(* What follows the verdict                                                *)

\* CheckAccess and RunRBACProbe: AllowedResources.
ListDenied(r) ==
  verdict # NoVerdict /\ ~(verdict[r]["list"] /\ verdict[r]["watch"])

\* canVerb of the window, with the verbs HandleGetAllowedVerbs answers.
CanVerb(r, v) == verdict = NoVerdict \/ verdict[r][v]

--------------------------------------------------------------------------
(* Properties                                                              *)

ProbeTypeOK ==
  /\ cutShort \in BOOLEAN /\ probes \in 0..MaxProbes
  /\ probe = NoVerdict
       \/ probe \in [ProbeCalls -> {"waiting", "sent", "allowed", "denied", "failed"}]
  /\ verdict = NoVerdict \/ verdict \in [Probed -> [Verbs -> BOOLEAN]]
  /\ verdict = NoVerdict <=> basis = NoVerdict
  /\ Cardinality(Running) <= MaxCalls

\* Nothing is hidden for want of an answer: a button or a list is withheld only
\* after the cluster refused the verb in one namespace and allowed it in none that
\* was asked about.
DenialsExplained ==
  \A r \in Probed :
    /\ \A v \in Verbs : ~CanVerb(r, v) =>
         /\ \E k \in CallsOf(r, v) : basis[k] = "denied"
         /\ \A k \in CallsOf(r, v) : basis[k] # "allowed"
    /\ ListDenied(r) => \E v \in {"list", "watch"} : ~CanVerb(r, v)

\* A verdict rests on an answer: a cluster that answers nothing, or a probe cut off
\* before its first answer, leaves the verdict before it, and what a verdict allows
\* against the cluster's will is a verb none of whose calls was answered.
VerdictsRest ==
  verdict # NoVerdict =>
    /\ \E k \in ProbeCalls : basis[k] # "failed"
    /\ \A r \in Probed, v \in Verbs :
         (CanVerb(r, v) /\ \A k \in CallsOf(r, v) : basis[k] # "allowed")
           => \A k \in CallsOf(r, v) : basis[k] = "failed"

\* What the window withholds and shows is what the cluster answered.
VerdictExplained == ProbeTypeOK /\ DenialsExplained /\ VerdictsRest
=============================================================================
