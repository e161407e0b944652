----------------------------- MODULE AuditTrail -----------------------------
(***************************************************************************)
(* What the audit log promises to whoever reads it: a trail of events in   *)
(* the order they were recorded.  An event is appended at the end; only    *)
(* one that was never acknowledged may be withdrawn, and only from the     *)
(* end; events go away otherwise only by expiring.                         *)
(***************************************************************************)
EXTENDS Naturals, Sequences, SequencesExt

CONSTANT Events

VARIABLES
  trail,   \* the readable events, oldest first
  acked    \* the readable events whose recording was reported successful

Init == trail = <<>> /\ acked = {}

\* Recording is reported at once or not at all: a crash or a failed sync may
\* leave an event on the trail that nobody was told about.
Write(e) ==
  /\ ~Contains(trail, e)
  /\ trail' = Append(trail, e)
  /\ acked' \in {acked, acked \cup {e}}

Withdraw ==
  /\ trail # <<>> /\ Last(trail) \notin acked
  /\ trail' = Front(trail)
  /\ UNCHANGED acked

Expire(old) ==
  /\ trail' = SelectSeq(trail, LAMBDA e : e \notin old)
  /\ acked' = acked \ old

Next ==
  \/ \E e \in Events : Write(e)
  \/ Withdraw
  \/ \E old \in SUBSET ToSet(trail) : Expire(old)

Spec == Init /\ [][Next]_<<trail, acked>>

\* Nothing acknowledged is missing, and nothing is on the trail twice.
Kept == acked \subseteq ToSet(trail) /\ IsInjective(trail)
=============================================================================
