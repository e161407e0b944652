--------------------------- MODULE SidecarProofs ----------------------------
(* What the handlers of the sidecar do, answer and record, the verdict they *)
(* are guarded by and what becomes of the requests to them, and what the    *)
(* sidecar keeps of the clusters in memory.  Each component's invariant is  *)
(* inductive for its own specification; at the end they are joined for the  *)
(* specification in which the components stand side by side.                *)
EXTENDS MCSidecar, FiniteSetTheorems, SequenceTheorems, WellFoundedInduction, TLAPS

(***************************************************************************)
(* Operations: what a handler does, answers and records                    *)
(***************************************************************************)

\* The record of a call to the API server: all its marks are Booleans.
CallSound(c) ==
  /\ c.writes \in BOOLEAN /\ c.onward \in BOOLEAN /\ c.gone \in BOOLEAN
  /\ c.retried \in BOOLEAN /\ c.silent \in BOOLEAN

\* The handlers that write no audit entry.
Unaudited == {"execOnce", "rollback", "uninstall", "install"}

\* What the proofs use of the plan p of handler k: one to four calls; the first is
\* never retried and is silent exactly in a plan of documents (apply), whose other
\* calls all write; only handlers listed above go unaudited, and only a copy out of
\* a pod streams its answer.
PlanSound(k, p) ==
  /\ p.audited \in BOOLEAN /\ p.each \in BOOLEAN /\ p.announced \in BOOLEAN /\ p.streams \in BOOLEAN
  /\ Len(p.calls) \in 1 .. 4 /\ DOMAIN p.calls = 1 .. Len(p.calls)
  /\ \A i \in 1 .. Len(p.calls) :
       /\ CallSound(p.calls[i])
       /\ p.calls[i].retried => i > 1 /\ ~p.each
       /\ p.calls[i].silent <=> p.each /\ i = 1
       /\ p.each => (p.calls[i].writes <=> i > 1)
  /\ p.each => p.audited /\ Len(p.calls) > 1
  /\ ~p.audited => k \in Unaudited
  /\ p.streams => k = "cpFrom"

\* The three kinds of call a plan is made of.
LEMMA CallsSound ==
  /\ CallSound(Reads) /\ CallSound(Writes) /\ CallSound(Update)
  /\ ~Reads.writes /\ ~Reads.retried /\ ~Reads.silent
  /\ Writes.writes /\ ~Writes.retried /\ ~Writes.silent
  /\ Update.writes /\ Update.retried /\ ~Update.silent
BY DEF CallSound, Reads, Writes, Update

\* Calls none of which is silent, and of which the first is not retried.
PlainList(calls) ==
  /\ Len(calls) \in 1 .. 4 /\ DOMAIN calls = 1 .. Len(calls)
  /\ \A i \in 1 .. Len(calls) :
       CallSound(calls[i]) /\ ~calls[i].silent /\ (calls[i].retried => i > 1)

\* A list of up to four such calls is plain if none is silent and the first is not
\* retried.
LEMMA PlainLists ==
  ASSUME NEW c, CallSound(c), ~c.silent, ~c.retried,
         NEW d, CallSound(d), ~d.silent, NEW e, CallSound(e), ~e.silent,
         NEW f, CallSound(f), ~f.silent
  PROVE  /\ PlainList(<<c>>) /\ PlainList(<<c, d>>) /\ PlainList(<<c, d, e>>)
         /\ PlainList(<<c, d, e, f>>)
<1>1. PlainList(<<c>>)
  BY DEF PlainList
<1>2. PlainList(<<c, d>>)
  BY DEF PlainList
<1>3. PlainList(<<c, d, e>>)
  BY DEF PlainList
<1>4. PlainList(<<c, d, e, f>>)
  BY DEF PlainList
<1> QED BY <1>1, <1>2, <1>3, <1>4

\* Plan(named, calls) is sound, and stays so with the marks the handlers set.
LEMMA PlainPlans ==
  ASSUME NEW named, NEW calls, PlainList(calls), NEW k
  PROVE  /\ PlanSound(k, Plan(named, calls))
         /\ PlanSound(k, [Plan(named, calls) EXCEPT !.announced = TRUE])
         /\ k = "cpFrom" => PlanSound(k, [Plan(named, calls) EXCEPT !.streams = TRUE])
         /\ k \in Unaudited => PlanSound(k, [Plan(named, calls) EXCEPT !.audited = FALSE])
<1>1. ASSUME NEW p, p.calls = calls, p.each = FALSE, p.audited \in BOOLEAN,
             p.announced \in BOOLEAN, p.streams \in BOOLEAN,
             p.audited \/ k \in Unaudited, p.streams => k = "cpFrom"
      PROVE  PlanSound(k, p)
  BY <1>1 DEF PlanSound, PlainList
<1>2. PlanSound(k, Plan(named, calls))
  <2> DEFINE p == Plan(named, calls)
  <2>1. /\ p.calls = calls /\ p.each = FALSE /\ p.audited = TRUE
        /\ p.announced = FALSE /\ p.streams = FALSE
    BY DEF Plan
  <2> HIDE DEF p
  <2>2. PlanSound(k, p)
    BY <1>1, <2>1
  <2> QED BY <2>2 DEF p
<1>3. PlanSound(k, [Plan(named, calls) EXCEPT !.announced = TRUE])
  <2> DEFINE p == [Plan(named, calls) EXCEPT !.announced = TRUE]
  <2>1. /\ p.calls = calls /\ p.each = FALSE /\ p.audited = TRUE
        /\ p.announced = TRUE /\ p.streams = FALSE
    BY DEF Plan
  <2> HIDE DEF p
  <2>2. PlanSound(k, p)
    BY <1>1, <2>1
  <2> QED BY <2>2 DEF p
<1>4. k = "cpFrom" => PlanSound(k, [Plan(named, calls) EXCEPT !.streams = TRUE])
  <2> DEFINE p == [Plan(named, calls) EXCEPT !.streams = TRUE]
  <2>1. /\ p.calls = calls /\ p.each = FALSE /\ p.audited = TRUE
        /\ p.announced = FALSE /\ p.streams = TRUE
    BY DEF Plan
  <2> HIDE DEF p
  <2>2. k = "cpFrom" => PlanSound(k, p)
    BY <1>1, <2>1
  <2> QED BY <2>2 DEF p
<1>5. k \in Unaudited => PlanSound(k, [Plan(named, calls) EXCEPT !.audited = FALSE])
  <2> DEFINE p == [Plan(named, calls) EXCEPT !.audited = FALSE]
  <2>1. /\ p.calls = calls /\ p.each = FALSE /\ p.audited = FALSE
        /\ p.announced = FALSE /\ p.streams = FALSE
    BY DEF Plan
  <2> HIDE DEF p
  <2>2. k \in Unaudited => PlanSound(k, p)
    BY <1>1, <2>1
  <2> QED BY <2>2 DEF p
<1> QED BY <1>2, <1>3, <1>4, <1>5

\* The plan of each handler of operations.go, exec.go and helm.go is sound.
LEMMA PlansSound == \A k \in DOMAIN Handlers : PlanSound(k, Handlers[k])
<1>1. DOMAIN Handlers =
        {"scale", "delete", "restart", "apply", "execOnce", "exec", "cpFrom", "cpTo", "debugPod",
         "undo", "cordon", "drain", "trigger", "rollback", "uninstall", "install"}
  BY DEF Handlers
<1> DEFINE GoneCall  == [Writes EXCEPT !.gone = TRUE]
           Evict == [Writes EXCEPT !.onward = TRUE, !.gone = TRUE]
           Lists == {<<Writes>>, <<GoneCall>>,
                     <<Reads, Update>>, <<Reads, Reads>>, <<Reads, Writes>>,
                     <<Reads, Reads, Reads, Update>>, <<Writes, Reads, Evict, Evict>>}
<1>2. /\ CallSound(GoneCall) /\ ~GoneCall.silent /\ ~GoneCall.retried
      /\ CallSound(Evict) /\ ~Evict.silent /\ ~Evict.retried
  BY DEF Writes, Reads, CallSound
<1> HIDE DEF GoneCall, Evict
<1>3. \A calls \in Lists : PlainList(calls)
  <2>1. PlainList(<<Writes>>) /\ PlainList(<<GoneCall>>)
    BY <1>2, CallsSound, PlainLists
  <2>2. PlainList(<<Reads, Update>>) /\ PlainList(<<Reads, Reads>>) /\ PlainList(<<Reads, Writes>>)
    BY CallsSound, PlainLists
  <2>3. PlainList(<<Reads, Reads, Reads, Update>>)
    BY CallsSound, PlainLists
  <2>4. PlainList(<<Writes, Reads, Evict, Evict>>)
    BY <1>2, CallsSound, PlainLists
  <2> QED BY <2>1, <2>2, <2>3, <2>4
<1>5. /\ PlanSound("scale", Scale) /\ PlanSound("delete", Delete)
      /\ PlanSound("restart", RolloutRestart) /\ PlanSound("cpTo", CPTo)
      /\ PlanSound("debugPod", CreateDebugPod) /\ PlanSound("undo", RolloutUndo)
      /\ PlanSound("cordon", CordonNode) /\ PlanSound("drain", DrainNode)
      /\ PlanSound("trigger", TriggerCronJob)
  BY <1>3, PlainPlans DEF Scale, Delete, RolloutRestart, CPTo, CreateDebugPod, RolloutUndo,
     CordonNode, DrainNode, TriggerCronJob, GoneCall, Evict
<1>6. PlanSound("exec", Exec) /\ PlanSound("cpFrom", CPFrom)
  BY <1>3, PlainPlans DEF Exec, CPFrom
<1>7. /\ PlanSound("execOnce", ExecOneShot) /\ PlanSound("rollback", HelmRollback)
      /\ PlanSound("uninstall", HelmUninstall) /\ PlanSound("install", HelmInstall)
  BY <1>3, PlainPlans DEF ExecOneShot, HelmRollback, HelmUninstall, HelmInstall, Unaudited
<1>8. PlanSound("apply", ApplyYAML)
  <2> DEFINE Silent == [Reads EXCEPT !.silent = TRUE]
             Document == [Writes EXCEPT !.onward = TRUE]
             calls == <<Silent, Document, Document>>
  <2>1. /\ CallSound(Silent) /\ Silent.silent /\ ~Silent.retried /\ ~Silent.writes
        /\ CallSound(Document) /\ ~Document.silent /\ ~Document.retried /\ Document.writes
    BY DEF Reads, Writes, CallSound
  <2>2. ApplyYAML = [Plan(1, calls) EXCEPT !.each = TRUE]
    BY DEF ApplyYAML
  <2> HIDE DEF Silent, Document
  <2>3. /\ Len(calls) = 3 /\ DOMAIN calls = 1 .. 3
        /\ calls[1] = Silent /\ calls[2] = Document /\ calls[3] = Document
    OBVIOUS
  <2> HIDE DEF calls
  <2>4. /\ ApplyYAML.calls = calls /\ ApplyYAML.each = TRUE /\ ApplyYAML.audited = TRUE
        /\ ApplyYAML.announced = FALSE /\ ApplyYAML.streams = FALSE
    BY <2>2 DEF Plan
  <2>5. ASSUME NEW i \in 1 .. 3
        PROVE  /\ CallSound(calls[i]) /\ ~calls[i].retried /\ (calls[i].silent <=> i = 1)
               /\ calls[i].writes <=> i > 1
    BY <2>1, <2>3
  <2>6. ASSUME NEW p, p.calls = calls, p.each, p.each \in BOOLEAN, p.audited, p.audited \in BOOLEAN,
               p.announced \in BOOLEAN, ~p.streams, p.streams \in BOOLEAN
        PROVE  PlanSound("apply", p)
    <3>1. Len(p.calls) = 3 /\ DOMAIN p.calls = 1 .. 3
      BY <2>3, <2>6
    <3>2. \A i \in 1 .. Len(p.calls) :
            /\ CallSound(p.calls[i])
            /\ p.calls[i].retried => i > 1 /\ ~p.each
            /\ p.calls[i].silent <=> p.each /\ i = 1
            /\ p.each => (p.calls[i].writes <=> i > 1)
      BY <2>5, <2>6, <3>1
    <3> QED BY <2>6, <3>1, <3>2 DEF PlanSound
  <2> QED BY <2>4, <2>6
<1>9. /\ Handlers["scale"] = Scale /\ Handlers["delete"] = Delete
      /\ Handlers["restart"] = RolloutRestart /\ Handlers["apply"] = ApplyYAML
      /\ Handlers["execOnce"] = ExecOneShot /\ Handlers["exec"] = Exec
      /\ Handlers["cpFrom"] = CPFrom /\ Handlers["cpTo"] = CPTo
      /\ Handlers["debugPod"] = CreateDebugPod /\ Handlers["undo"] = RolloutUndo
      /\ Handlers["cordon"] = CordonNode /\ Handlers["drain"] = DrainNode
      /\ Handlers["trigger"] = TriggerCronJob /\ Handlers["rollback"] = HelmRollback
      /\ Handlers["uninstall"] = HelmUninstall /\ Handlers["install"] = HelmInstall
  BY DEF Handlers
<1> QED BY <1>1, <1>5, <1>6, <1>7, <1>8, <1>9, Zenon

\* The stages of a request, those in which its plan runs, and the change its i-th
\* call makes.
Stages  == {"idle", "taking", "calling", "recording", "replying", "done", "killed"}
Started == {"calling", "recording", "replying", "done"}
Change(r, i) == [req |-> r, call |-> i, cluster |-> client[r]]

\* How far a request is in its plan.
Place(r) ==
  /\ stage[r] \in {"idle", "taking"} => at[r] = 1 /\ failed[r] = {}
  /\ stage[r] \in Started =>
       /\ client[r] \in Clusters /\ at[r] \in 1 .. Len(Calls(r)) + 1
       /\ failed[r] \subseteq 1 .. Len(Calls(r))
  /\ stage[r] = "calling" => at[r] <= Len(Calls(r))
  /\ stage[r] = "recording" =>
       /\ PlanOf(r).audited
       /\ IF PlanOf(r).each THEN at[r] <= Len(Calls(r)) /\ Call(r).writes
          ELSE at[r] = Len(Calls(r)) + 1 \/ failed[r] # {}

\* A write that was made has failed, found nothing, or is a change of the cluster.
Carried(r) ==
  stage[r] \in Started =>
    \A i \in 1 .. Len(Calls(r)) :
      /\ Calls(r)[i].writes
      /\ IF PlanOf(r).each THEN i = at[r] /\ stage[r] = "recording" ELSE i < at[r]
      => i \in failed[r] \/ i \in absent[r] \/ Change(r, i) \in changes

\* Call i of a request that changed something has its outcome in the trail, or an
\* entry that was lost (missed); a plan that is not of documents has one entry for all.
Entered(r, i) ==
  \/ IF PlanOf(r).each THEN i \in missed[r] ELSE missed[r] # {}
  \/ \E e \in trail : /\ e.req = r /\ e.outcome # "started"
                      /\ PlanOf(r).each => e.call = i

\* What a request has changed has an entry, or is about to have one.
Audited(r) ==
  /\ \A ch \in changes : ch.req = r => stage[r] \notin {"idle", "taking"}
  /\ \A ch \in changes : ch.req = r /\ stage[r] \in Started /\ PlanOf(r).each =>
       \/ ch.call < at[r] /\ Entered(r, ch.call)
       \/ ch.call = at[r] /\ stage[r] = "recording"
       \/ ch.call = at[r] /\ stage[r] \in {"replying", "done"} /\ Entered(r, ch.call)
  /\ stage[r] \in {"replying", "done"} /\ PlanOf(r).audited /\ ~PlanOf(r).each => Entered(r, 0)

\* An entry of success covers only writes that were made in the cluster it names or
\* found nothing to do; an entry of failure covers a call that failed.
EntryTrue(e) ==
  /\ e.outcome = "success" =>
        \A i \in Covers(e) :
           Calls(e.req)[i].writes =>
             \/ i \in absent[e.req]
             \/ \E ch \in changes : ch.req = e.req /\ ch.call = i /\ ch.cluster = e.cluster
  /\ e.outcome = "failure" => Covers(e) \cap failed[e.req] # {}

\* The entries of a request are true, and its answer hides no failure.
Told(r) ==
  /\ \A e \in trail : e.req = r => stage[r] \notin {"idle", "taking"} /\ EntryTrue(e)
  /\ reply[r] # "none" => stage[r] = "done"
  /\ reply[r] = "ok" => failed[r] = {} \/ kind[r] = "cpFrom"

\* The inductive invariant of the operations.
OpsInv == OpsTypeOK /\ \A r \in Requests : Place(r) /\ Carried(r) /\ Audited(r) /\ Told(r)

\* The plan of a request that runs.
LEMMA PlanRuns ==
  ASSUME OpsInv, NEW r \in Requests, stage[r] \notin {"idle", "killed"}
  PROVE  kind[r] \in DOMAIN Handlers /\ PlanSound(kind[r], PlanOf(r))
<1>1. kind[r] \in DOMAIN Handlers
  BY DEF OpsInv, OpsTypeOK
<1> QED BY <1>1, PlansSound DEF PlanOf

\* A step of one request, which may add to the changes and the trail what is its
\* own, leaves the others as they are.
LEMMA OtherRequestsStay ==
  ASSUME NEW r \in Requests, OpsInv, OpsTypeOK',
         \A g \in Requests \ {r} :
            /\ stage'[g] = stage[g] /\ kind'[g] = kind[g] /\ client'[g] = client[g]
            /\ at'[g] = at[g] /\ failed'[g] = failed[g] /\ absent'[g] = absent[g]
            /\ missed'[g] = missed[g] /\ reply'[g] = reply[g],
         changes \subseteq changes', \A ch \in changes' \ changes : ch.req = r,
         trail \subseteq trail', \A e \in trail' \ trail : e.req = r,
         Place(r)', Carried(r)', Audited(r)', Told(r)'
  PROVE  OpsInv'
<1> SUFFICES ASSUME NEW g \in Requests, g # r
             PROVE  (Place(g) /\ Carried(g) /\ Audited(g) /\ Told(g))'
  BY DEF OpsInv
<1>1. Place(g) /\ Carried(g) /\ Audited(g) /\ Told(g)
  BY DEF OpsInv
<1>2. /\ stage'[g] = stage[g] /\ kind'[g] = kind[g] /\ client'[g] = client[g]
      /\ at'[g] = at[g] /\ failed'[g] = failed[g] /\ absent'[g] = absent[g]
      /\ missed'[g] = missed[g] /\ reply'[g] = reply[g]
  OBVIOUS
<1>3. PlanOf(g)' = PlanOf(g) /\ Calls(g)' = Calls(g) /\ Call(g)' = Call(g)
  BY <1>2 DEF PlanOf, Calls, Call
<1>4. \A i : Change(g, i)' = Change(g, i)
  BY <1>2 DEF Change
<1>5. \A i : Entered(g, i) => Entered(g, i)'
  BY <1>2, <1>3 DEF Entered
<1>6. ASSUME NEW e \in trail, e.req = g, EntryTrue(e) PROVE EntryTrue(e)'
  <2>1. Covers(e)' = Covers(e) /\ Calls(e.req)' = Calls(e.req)
    BY <1>3, <1>6 DEF Covers
  <2> QED BY <1>2, <1>6, <2>1 DEF EntryTrue
<1>7. Place(g)'
  BY <1>1, <1>2, <1>3 DEF Place
<1>8. Carried(g)'
  BY <1>1, <1>2, <1>3, <1>4 DEF Carried
<1>9. Audited(g)'
  <2>1. \A ch \in changes' : ch.req = g => ch \in changes
    OBVIOUS
  <2> QED BY <1>1, <1>2, <1>3, <1>5, <2>1 DEF Audited
<1>10. Told(g)'
  <2>1. \A e \in trail' : e.req = g => e \in trail
    OBVIOUS
  <2> QED BY <1>1, <1>2, <1>6, <2>1 DEF Told
<1> QED BY <1>7, <1>8, <1>9, <1>10

\* A request arrives.
LEMMA EnterKeeps ==
  ASSUME OpsInv, NEW r \in Requests, NEW k \in DOMAIN Handlers, Enter(r, k)
  PROVE  OpsInv'
<1>1. /\ stage[r] = "idle" /\ kind' = [kind EXCEPT ![r] = k]
      /\ stage'[r] \in {"taking", "calling"}
      /\ stage' = [stage EXCEPT ![r] = stage'[r]]
      /\ name' = [name EXCEPT ![r] = name'[r]] /\ name'[r] \in Clusters \cup {Nil}
      /\ client' = [client EXCEPT ![r] = client'[r]] /\ client'[r] \in Clusters \cup {Nil}
      /\ stage'[r] = "calling" => client'[r] \in Clusters
      /\ UNCHANGED <<served, commits, at, tries, failed, absent, missed, changes, trail, reply>>
  BY DEF Enter, Move, OpsInv, OpsTypeOK
<1>2. OpsTypeOK'
  <2>1. kind' \in [Requests -> DOMAIN Handlers \cup {Nil}] /\ kind'[r] # Nil
    BY <1>1, NilAssumption DEF OpsInv, OpsTypeOK
  <2>2. /\ stage' \in [Requests -> Stages]
        /\ \A g \in Requests : stage'[g] \notin {"idle", "killed"} => kind'[g] # Nil
    BY <1>1, <2>1 DEF OpsInv, OpsTypeOK, Stages
  <2>3. client' \in [Requests -> Clusters \cup {Nil}] /\ name' \in [Requests -> Clusters \cup {Nil}]
    BY <1>1 DEF OpsInv, OpsTypeOK
  <2> QED BY <1>1, <2>1, <2>2, <2>3 DEF OpsInv, OpsTypeOK, Stages
<1>3. at[r] = 1 /\ failed[r] = {} /\ Audited(r) /\ Told(r)
  BY <1>1 DEF OpsInv, Place
<1>4. PlanOf(r)' = Handlers[k] /\ PlanSound(k, Handlers[k]) /\ kind'[r] = k
  <2>1. kind'[r] = k
    BY <1>1 DEF OpsInv, OpsTypeOK
  <2>2. PlanSound(k, Handlers[k])
    BY PlansSound, Zenon
  <2>3. PlanOf(r)' = Handlers[k]
    BY <2>1, Zenon DEF PlanOf
  <2> QED BY <2>1, <2>2, <2>3, Zenon
<1>5. Place(r)'
  <2>1. Len(Calls(r))' \in 1 .. 4
    BY <1>4 DEF Calls, PlanSound
  <2>2. 1 \in 1 .. Len(Calls(r))' + 1 /\ 1 <= Len(Calls(r))'
    <3>1. \A l \in 1 .. 4 : 1 \in 1 .. l + 1 /\ 1 <= l
      OBVIOUS
    <3> QED BY <2>1, <3>1, Zenon
  <2>3. at'[r] = 1 /\ failed'[r] = {}
    BY <1>1, <1>3
  <2> QED BY <1>1, <2>2, <2>3 DEF Place, Started
<1>6. Carried(r)'
  BY <1>1, <1>3 DEF Carried
<1>7. Audited(r)'
  BY <1>1, <1>3 DEF Audited
<1>8. Told(r)'
  BY <1>1, <1>3 DEF Told
<1> QED BY <1>1, <1>2, <1>5, <1>6, <1>7, <1>8, OtherRequestsStay DEF OpsInv, OpsTypeOK

\* A request takes the client of the context served.
LEMMA TakeKeeps ==
  ASSUME OpsInv, NEW r \in Requests, TakeClient(r)
  PROVE  OpsInv'
<1>1. /\ stage[r] = "taking" /\ stage' = [stage EXCEPT ![r] = "calling"]
      /\ client' = [client EXCEPT ![r] = served] /\ served \in Clusters
      /\ UNCHANGED <<served, commits, kind, name, at, tries, failed, absent, missed, changes,
                     trail, reply>>
  BY DEF TakeClient, Move, OpsInv, OpsTypeOK
<1>2. OpsTypeOK'
  BY <1>1 DEF OpsInv, OpsTypeOK
<1>3. at[r] = 1 /\ failed[r] = {} /\ Audited(r) /\ Told(r)
  BY <1>1 DEF OpsInv, Place
<1>4. PlanSound(kind[r], PlanOf(r)) /\ PlanOf(r)' = PlanOf(r) /\ Calls(r)' = Calls(r)
  BY <1>1, PlanRuns DEF PlanOf, Calls
<1>5. Len(Calls(r)) \in 1 .. 4
  BY <1>4 DEF Calls, PlanSound
<1>6. stage'[r] = "calling" /\ client'[r] \in Clusters
  BY <1>1 DEF OpsInv, OpsTypeOK
<1>7. Place(r)'
  <2>1. 1 \in 1 .. Len(Calls(r)) + 1 /\ 1 <= Len(Calls(r))
    BY <1>5
  <2>2. at'[r] = 1 /\ failed'[r] = {}
    BY <1>1, <1>3
  <2> QED BY <1>4, <1>6, <2>1, <2>2 DEF Place
<1>8. Carried(r)'
  BY <1>1, <1>3, <1>4, <1>5, <1>6 DEF Carried
<1>9. Audited(r)'
  BY <1>1, <1>3, <1>6 DEF Audited
<1>10. Told(r)'
  BY <1>1, <1>3, <1>6 DEF Told
<1> QED BY <1>1, <1>2, <1>7, <1>8, <1>9, <1>10, OtherRequestsStay DEF OpsInv, OpsTypeOK

\* What a request that is unchanged keeps when the trail grows by an entry of its own.
LEMMA TrailGrows ==
  ASSUME OpsInv, NEW r \in Requests, OpsTypeOK',
         stage[r] \notin {"idle", "taking"},
         UNCHANGED <<stage, kind, client, at, failed, absent, missed, changes, reply>>,
         trail \subseteq trail',
         \A e \in trail' \ trail : e.req = r /\ EntryTrue(e)
  PROVE  OpsInv'
<1>1. /\ PlanOf(r)' = PlanOf(r) /\ Calls(r)' = Calls(r) /\ Call(r)' = Call(r)
      /\ \A i : Change(r, i)' = Change(r, i)
  BY DEF PlanOf, Calls, Call, Change
<1>2. \A i : Entered(r, i) => Entered(r, i)'
  BY <1>1 DEF Entered
<1>3. \A e : EntryTrue(e) => EntryTrue(e)'
  BY DEF EntryTrue, Covers, Calls, PlanOf
<1>4. Place(r) /\ Carried(r) /\ Audited(r) /\ Told(r)
  BY DEF OpsInv
<1>5. Place(r)' /\ Carried(r)'
  BY <1>1, <1>4 DEF Place, Carried
<1>6. Audited(r)'
  BY <1>1, <1>2, <1>4 DEF Audited
<1>7. Told(r)'
  BY <1>3, <1>4 DEF Told
<1> QED BY <1>5, <1>6, <1>7, OtherRequestsStay

\* The audit identity is looked up for a request.
LEMMA IdentityKeeps ==
  ASSUME OpsInv, NEW r \in Requests, AuditIdentity(r)
  PROVE  OpsInv'
<1> DEFINE entry == [req |-> r, call |-> 0, named |-> served, cluster |-> client[r],
                     outcome |-> "started"]
<1>1. /\ stage[r] \in {"calling", "recording"} /\ name' = [name EXCEPT ![r] = served]
      /\ trail' \in {trail, trail \cup {entry}}
      /\ UNCHANGED <<served, commits, stage, kind, client, at, tries, failed, absent, missed,
                     changes, reply>>
  BY DEF AuditIdentity
<1>2. client[r] \in Clusters /\ served \in Clusters
  BY <1>1 DEF OpsInv, OpsTypeOK, Place, Started
<1>3. entry \in Entry /\ entry.req = r /\ entry.outcome = "started"
  BY <1>2 DEF Entry
<1> HIDE DEF entry
<1>4. OpsTypeOK'
  BY <1>1, <1>2, <1>3 DEF OpsInv, OpsTypeOK
<1>5. EntryTrue(entry)
  BY <1>3 DEF EntryTrue
<1> QED BY <1>1, <1>3, <1>4, <1>5, TrailGrows

\* After a call: where the request is, whatever became of the call.
LEMMA CallEnds ==
  ASSUME OpsInv, NEW r \in Requests, NEW over \in BOOLEAN, Calling(r),
         changes' = changes \/ (Call(r).writes /\ changes' = changes \cup {Change(r, at[r])}),
         failed' = [failed EXCEPT ![r] = failed'[r]], failed[r] \subseteq failed'[r],
         failed'[r] \subseteq failed[r] \cup {at[r]},
         absent' = [absent EXCEPT ![r] = absent'[r]], absent[r] \subseteq absent'[r],
         absent'[r] \subseteq absent[r] \cup {at[r]},
         Call(r).writes => \/ at[r] \in failed'[r] \/ at[r] \in absent'[r]
                           \/ Change(r, at[r]) \in changes',
         over => failed'[r] # {} /\ ~Call(r).silent,
         Advance(r),
         \/ Proceed(r, over)
         \/ Call(r).silent /\ Move(r, "replying"),
         UNCHANGED <<served, commits, kind, client, name, tries, missed, trail, reply>>
  PROVE  OpsInv'
<1> DEFINE p == PlanOf(r)
           n == Len(Calls(r))
           i == at[r]
<1>1. /\ stage[r] = "calling" /\ Place(r) /\ Carried(r) /\ Audited(r) /\ Told(r)
      /\ PlanSound(kind[r], p)
  BY PlanRuns DEF Calling, OpsInv
<1>2. /\ n \in 1 .. 4 /\ i \in 1 .. n /\ client[r] \in Clusters
      /\ failed[r] \subseteq 1 .. n /\ DOMAIN Calls(r) = 1 .. n
  BY <1>1 DEF Place, Started, Calls, PlanSound
<1>3. /\ Call(r) = Calls(r)[i] /\ CallSound(Call(r))
      /\ (Call(r).silent <=> p.each /\ i = 1)
      /\ (p.each => (Call(r).writes <=> i > 1))
      /\ p.each \in BOOLEAN /\ p.audited \in BOOLEAN /\ (p.each => p.audited /\ n > 1)
  BY <1>1, <1>2 DEF Calls, Call, PlanSound
<1>4. /\ PlanOf(r)' = p /\ Calls(r)' = Calls(r)
      /\ \A j : Change(r, j)' = Change(r, j)
  BY DEF PlanOf, Calls, Change
<1>5. Call(r).writes \in BOOLEAN /\ Call(r).silent \in BOOLEAN
  BY <1>3 DEF CallSound
<1> HIDE DEF p, n
<1>6. at'[r] = IF p.each /\ Call(r).writes THEN i ELSE i + 1
  BY DEF Advance, OpsInv, OpsTypeOK, p
<1>7. \/ stage'[r] = "replying" /\ Call(r).silent /\ p.each /\ i = 1
      \/ stage'[r] = "replying" /\ ~p.audited /\ (over \/ i = n)
      \/ stage'[r] = "recording" /\ p.audited /\ (over \/ i = n) /\ ~Call(r).silent
      \/ stage'[r] = "recording" /\ p.each /\ Call(r).writes
      \/ stage'[r] = "calling" /\ ~over /\ i < n /\ ~(p.each /\ Call(r).writes)
  <2>1. CASE Call(r).silent /\ Move(r, "replying")
    BY <1>3, <2>1 DEF Move, OpsInv, OpsTypeOK
  <2>2. CASE Proceed(r, over)
    <3>1. CASE ~p.audited /\ (over \/ i = n)
      BY <2>2, <3>1 DEF Proceed, Move, OpsInv, OpsTypeOK, p, n
    <3>2. CASE ~(~p.audited /\ (over \/ i = n)) /\ ((over \/ i = n) \/ (p.each /\ Call(r).writes))
      <4>1. stage'[r] = "recording"
        BY <2>2, <3>2 DEF Proceed, Move, OpsInv, OpsTypeOK, p, n
      <4> QED BY <2>2, <3>2, <4>1, <1>2, <1>3, <1>5
    <3>3. CASE ~(over \/ i = n) /\ ~(p.each /\ Call(r).writes)
      <4>1. stage' = stage
        BY <2>2, <3>3 DEF Proceed, p, n
      <4> QED BY <1>1, <1>2, <3>3, <4>1
    <3> QED BY <3>1, <3>2, <3>3
  <2> QED BY <2>1, <2>2
<1>8. stage'[r] \in {"calling", "recording", "replying"} /\ stage' = [stage EXCEPT ![r] = stage'[r]]
  BY <1>7 DEF Move, Proceed, OpsInv, OpsTypeOK
<1>9. at' = [at EXCEPT ![r] = at'[r]] /\ at'[r] \in 1 .. n + 1 /\ at'[r] \in Nat
  BY <1>2, <1>6 DEF Advance, OpsInv, OpsTypeOK
<1>10. OpsTypeOK'
  <2>1. Change(r, i) \in [req : Requests, call : Nat, cluster : Clusters]
    BY <1>2 DEF Change
  <2>2. changes' \subseteq [req : Requests, call : Nat, cluster : Clusters]
    BY <2>1 DEF OpsInv, OpsTypeOK
  <2>3. failed'[r] \in SUBSET Nat /\ absent'[r] \in SUBSET Nat
    BY <1>2 DEF OpsInv, OpsTypeOK
  <2>4. /\ failed' \in [Requests -> SUBSET Nat] /\ absent' \in [Requests -> SUBSET Nat]
        /\ at' \in [Requests -> Nat]
    BY <1>9, <2>3 DEF OpsInv, OpsTypeOK
  <2>5. stage' \in [Requests -> Stages]
    BY <1>8 DEF OpsInv, OpsTypeOK, Stages
  <2>6. \A g \in Requests : stage'[g] \notin {"idle", "killed"} => kind[g] # Nil
    BY <1>1, <1>8 DEF OpsInv, OpsTypeOK
  <2> QED BY <2>2, <2>4, <2>5, <2>6 DEF OpsInv, OpsTypeOK, Stages
<1>11. Place(r)'
  <2>1. failed'[r] \subseteq 1 .. n
    BY <1>2
  <2>2. stage'[r] = "recording" =>
          /\ p.audited
          /\ IF p.each THEN at'[r] <= n /\ Calls(r)[at'[r]].writes
             ELSE at'[r] = n + 1 \/ failed'[r] # {}
    <3>1. CASE p.each
      BY <1>2, <1>3, <1>6, <1>7, <3>1
    <3>2. CASE ~p.each
      BY <1>2, <1>3, <1>6, <1>7, <3>2
    <3> QED BY <3>1, <3>2, <1>3
  <2>3. stage'[r] = "calling" => at'[r] <= n
    BY <1>2, <1>6, <1>7
  <2> QED BY <1>2, <1>4, <1>8, <1>9, <2>1, <2>2, <2>3 DEF Place, Started, Call, p, n
<1>12. Carried(r)'
  <2> SUFFICES ASSUME NEW j \in 1 .. n, Calls(r)[j].writes,
                      IF p.each THEN j = at'[r] /\ stage'[r] = "recording" ELSE j < at'[r]
               PROVE  j \in failed'[r] \/ j \in absent'[r] \/ Change(r, j) \in changes'
    BY <1>4 DEF Carried, p, n
  <2>1. CASE j = i
    BY <1>3, <2>1
  <2>2. CASE j # i
    <3>1. ~p.each /\ j < i
      BY <1>2, <1>3, <1>6, <1>7, <2>2
    <3>2. j \in failed[r] \/ j \in absent[r] \/ Change(r, j) \in changes
      BY <1>1, <3>1 DEF Carried, Started, p, n
    <3> QED BY <3>2
  <2> QED BY <2>1, <2>2
<1>13. Audited(r)'
  <2>1. \A j : Entered(r, j)' <=> Entered(r, j)
    BY <1>4 DEF Entered, p
  <2>2. ASSUME NEW ch \in changes', ch.req = r, p.each
        PROVE  \/ ch.call < at'[r] /\ Entered(r, ch.call)
               \/ ch.call = at'[r] /\ stage'[r] = "recording"
    <3>1. CASE ch \in changes
      <4>1. ch.call < i /\ Entered(r, ch.call)
        BY <1>1, <2>2, <3>1 DEF Audited, Started, p
      <4>2. ch.call \in Nat
        BY <3>1 DEF OpsInv, OpsTypeOK
      <4> QED BY <1>2, <1>6, <4>1, <4>2
    <3>2. CASE ch \notin changes
      <4>1. Call(r).writes /\ ch.call = i
        BY <3>2 DEF Change
      <4> QED BY <1>3, <1>6, <1>7, <2>2, <4>1
    <3> QED BY <3>1, <3>2
  <2>3. ~(stage'[r] \in {"replying", "done"} /\ p.audited /\ ~p.each)
    BY <1>3, <1>7
  <2> QED BY <1>4, <1>8, <2>1, <2>2, <2>3 DEF Audited, p
<1>14. Told(r)'
  <2>1. ASSUME NEW e \in trail, e.req = r PROVE EntryTrue(e)'
    <3>1. EntryTrue(e) /\ Covers(e)' = Covers(e) /\ Calls(e.req)' = Calls(e.req)
      BY <1>1, <2>1 DEF Told, Covers, Calls, PlanOf
    <3>2. failed[e.req] \subseteq failed'[e.req] /\ absent[e.req] \subseteq absent'[e.req]
      BY <2>1
    <3> QED BY <3>1, <3>2 DEF EntryTrue
  <2>2. reply'[r] = "none"
    BY <1>1 DEF Told, OpsInv, OpsTypeOK
  <2> QED BY <1>8, <2>1, <2>2 DEF Told
<1>15. /\ changes \subseteq changes' /\ \A ch \in changes' \ changes : ch.req = r
  BY DEF Change
<1> QED
  BY <1>8, <1>9, <1>10, <1>11, <1>12, <1>13, <1>14, <1>15, OtherRequestsStay
     DEF OpsInv, OpsTypeOK

\* What is known of a call when it is made.
LEMMA CallIs ==
  ASSUME OpsInv, NEW r \in Requests, Calling(r)
  PROVE  /\ stage[r] = "calling" /\ at[r] \in 1 .. Len(Calls(r)) /\ Len(Calls(r)) \in 1 .. 4
         /\ CallSound(Call(r)) /\ PlanSound(kind[r], PlanOf(r))
         /\ Call(r).silent <=> PlanOf(r).each /\ at[r] = 1
         /\ Call(r).retried => at[r] > 1 /\ ~PlanOf(r).each
         /\ PlanOf(r).each => (Call(r).writes <=> at[r] > 1)
<1>1. stage[r] = "calling" /\ Place(r) /\ PlanSound(kind[r], PlanOf(r))
  BY PlanRuns DEF Calling, OpsInv
<1>2. at[r] \in 1 .. Len(Calls(r)) /\ Len(Calls(r)) \in 1 .. 4
  BY <1>1 DEF Place, Started, Calls, PlanSound
<1> QED BY <1>1, <1>2 DEF Calls, Call, PlanSound

\* A call succeeds, ...
LEMMA SucceedsKeeps ==
  ASSUME OpsInv, NEW r \in Requests, Succeeds(r)
  PROVE  OpsInv'
<1>1. /\ Calling(r) /\ Advance(r) /\ Proceed(r, FALSE)
      /\ changes' = changes \/ (Call(r).writes /\ changes' = changes \cup {Change(r, at[r])})
      /\ Call(r).writes => Change(r, at[r]) \in changes'
      /\ UNCHANGED <<served, commits, kind, client, name, tries, failed, absent, missed, trail,
                     reply>>
  BY DEF Succeeds, Applied, Change
<1>2. failed = [failed EXCEPT ![r] = failed[r]] /\ absent = [absent EXCEPT ![r] = absent[r]]
  BY DEF OpsInv, OpsTypeOK
<1> QED BY <1>1, <1>2, CallEnds

\* ... finds nothing, ...
LEMMA AbsentKeeps ==
  ASSUME OpsInv, NEW r \in Requests, IsAbsent(r)
  PROVE  OpsInv'
<1>1. /\ Calling(r) /\ Advance(r) /\ Proceed(r, FALSE)
      /\ absent' = [absent EXCEPT ![r] = absent[r] \cup {at[r]}]
      /\ UNCHANGED <<served, commits, kind, client, name, tries, failed, missed, changes, trail,
                     reply>>
  BY DEF IsAbsent
<1>2. /\ failed = [failed EXCEPT ![r] = failed[r]] /\ absent'[r] = absent[r] \cup {at[r]}
      /\ absent' = [absent EXCEPT ![r] = absent'[r]]
  BY <1>1 DEF OpsInv, OpsTypeOK
<1> QED BY <1>1, <1>2, CallEnds

\* ... fails, ...
LEMMA FailsKeeps ==
  ASSUME OpsInv, NEW r \in Requests, Fails(r)
  PROVE  OpsInv'
<1> DEFINE over == ~Call(r).silent /\ ~Call(r).onward
<1>1. /\ Calling(r) /\ Advance(r)
      /\ Call(r).silent \/ Proceed(r, over)
      /\ Call(r).silent => Move(r, "replying")
      /\ changes' = changes \/ (Call(r).writes /\ changes' = changes \cup {Change(r, at[r])})
      /\ failed' = [failed EXCEPT ![r] = failed[r] \cup {at[r]}]
      /\ UNCHANGED <<served, commits, kind, client, name, tries, absent, missed, trail, reply>>
  <2>1. Calling(r) /\ Call(r).silent \in BOOLEAN /\ Call(r).onward \in BOOLEAN
    BY CallIs DEF Fails, CallSound
  <2> QED BY <2>1 DEF Fails, Applied, Change
<1>2. /\ absent = [absent EXCEPT ![r] = absent[r]] /\ failed'[r] = failed[r] \cup {at[r]}
      /\ failed' = [failed EXCEPT ![r] = failed'[r]]
  BY <1>1 DEF OpsInv, OpsTypeOK
<1>3. over \in BOOLEAN /\ (over => ~Call(r).silent)
  OBVIOUS
<1> HIDE DEF over
<1> QED BY <1>1, <1>2, <1>3, CallEnds

\* ... or meets a conflict and is tried again.
LEMMA ConflictsKeeps ==
  ASSUME OpsInv, NEW r \in Requests, Conflicts(r)
  PROVE  OpsInv'
<1>1. /\ Calling(r) /\ Call(r).retried /\ tries[r] < Steps
      /\ tries' = [tries EXCEPT ![r] = tries[r] + 1] /\ at' = [at EXCEPT ![r] = at[r] - 1]
      /\ UNCHANGED <<served, commits, stage, kind, client, name, failed, absent, missed,
                     changes, trail, reply>>
  BY DEF Conflicts
<1>2. /\ stage[r] = "calling" /\ at[r] \in 1 .. Len(Calls(r)) /\ Len(Calls(r)) \in 1 .. 4
      /\ at[r] > 1 /\ ~PlanOf(r).each
  BY <1>1, CallIs
<1>3. Place(r) /\ Carried(r) /\ Audited(r) /\ Told(r)
  BY DEF OpsInv
<1>4. at'[r] = at[r] - 1 /\ at[r] - 1 \in 1 .. Len(Calls(r)) /\ at[r] - 1 \in Nat
  BY <1>1, <1>2 DEF OpsInv, OpsTypeOK
<1>5. OpsTypeOK'
  <2>1. tries[r] + 1 \in 1 .. Steps
    BY <1>1, OperationsAssumption DEF OpsInv, OpsTypeOK
  <2>2. tries' \in [Requests -> 1 .. Steps] /\ at' \in [Requests -> Nat]
    BY <1>1, <1>4, <2>1 DEF OpsInv, OpsTypeOK
  <2> QED BY <1>1, <2>2 DEF OpsInv, OpsTypeOK
<1>6. /\ PlanOf(r)' = PlanOf(r) /\ Calls(r)' = Calls(r)
      /\ \A j : Change(r, j)' = Change(r, j)
  BY <1>1 DEF PlanOf, Calls, Change
<1>7. Place(r)'
  BY <1>1, <1>2, <1>3, <1>4, <1>6 DEF Place, Started
<1>8. Carried(r)'
  <2> SUFFICES ASSUME NEW j \in 1 .. Len(Calls(r)), Calls(r)[j].writes, j < at[r] - 1
               PROVE  j \in failed[r] \/ j \in absent[r] \/ Change(r, j) \in changes
    BY <1>1, <1>2, <1>4, <1>6 DEF Carried
  <2>1. j < at[r]
    BY <1>2
  <2> QED BY <1>2, <1>3, <2>1 DEF Carried, Started
<1>9. \A j : Entered(r, j)' <=> Entered(r, j)
  BY <1>1, <1>6 DEF Entered
<1>10. Audited(r)'
  BY <1>1, <1>2, <1>3, <1>6, <1>9 DEF Audited
<1>11. \A e \in trail : e.req = r => EntryTrue(e)'
  BY <1>1, <1>3 DEF Told, EntryTrue, Covers, Calls, PlanOf
<1>12. Told(r)'
  BY <1>1, <1>3, <1>11 DEF Told
<1> QED BY <1>1, <1>5, <1>7, <1>8, <1>10, <1>12, OtherRequestsStay DEF OpsInv, OpsTypeOK

\* A document of an apply that cannot be parsed is skipped.
LEMMA SkipsKeeps ==
  ASSUME OpsInv, NEW r \in Requests, SkipsDocument(r)
  PROVE  OpsInv'
<1>1. /\ Calling(r) /\ PlanOf(r).each /\ Call(r).writes
      /\ failed' = [failed EXCEPT ![r] = failed[r] \cup {at[r]}]
      /\ \/ at[r] < Len(Calls(r)) /\ at' = [at EXCEPT ![r] = at[r] + 1] /\ UNCHANGED stage
         \/ stage' = [stage EXCEPT ![r] = "replying"] /\ UNCHANGED at
      /\ UNCHANGED <<served, commits, kind, client, name, tries, absent, missed, changes, trail,
                     reply>>
  BY DEF SkipsDocument, Move
<1>2. /\ stage[r] = "calling" /\ at[r] \in 1 .. Len(Calls(r)) /\ Len(Calls(r)) \in 1 .. 4
  BY <1>1, CallIs
<1>3. Place(r) /\ Carried(r) /\ Audited(r) /\ Told(r)
  BY DEF OpsInv
<1>4. /\ failed'[r] = failed[r] \cup {at[r]} /\ at'[r] \in {at[r], at[r] + 1}
      /\ stage'[r] \in {"calling", "replying"}
      /\ stage'[r] = "calling" => at'[r] = at[r] + 1 /\ at[r] < Len(Calls(r))
      /\ stage'[r] = "replying" => at'[r] = at[r]
      /\ stage' = [stage EXCEPT ![r] = stage'[r]] /\ at' = [at EXCEPT ![r] = at'[r]]
  BY <1>1, <1>2 DEF OpsInv, OpsTypeOK
<1>5. at'[r] \in 1 .. Len(Calls(r)) + 1 /\ at'[r] \in Nat
  BY <1>2, <1>4
<1>6. OpsTypeOK'
  <2>1. failed' \in [Requests -> SUBSET Nat] /\ at' \in [Requests -> Nat]
    BY <1>1, <1>2, <1>4, <1>5 DEF OpsInv, OpsTypeOK
  <2>2. stage' \in [Requests -> Stages]
    BY <1>4 DEF OpsInv, OpsTypeOK, Stages
  <2>3. \A g \in Requests : stage'[g] \notin {"idle", "killed"} => kind[g] # Nil
    BY <1>2, <1>4 DEF OpsInv, OpsTypeOK
  <2> QED BY <1>1, <2>1, <2>2, <2>3 DEF OpsInv, OpsTypeOK, Stages
<1>7. /\ PlanOf(r)' = PlanOf(r) /\ Calls(r)' = Calls(r)
      /\ \A j : Change(r, j)' = Change(r, j)
  BY <1>1 DEF PlanOf, Calls, Change
<1>8. Place(r)'
  BY <1>1, <1>2, <1>3, <1>4, <1>5, <1>7 DEF Place, Started
<1>9. Carried(r)'
  BY <1>1, <1>4, <1>7 DEF Carried
<1>10. \A j : Entered(r, j)' <=> Entered(r, j)
  BY <1>1, <1>7 DEF Entered
<1>11. Audited(r)'
  <2>1. ASSUME NEW ch \in changes, ch.req = r
        PROVE  ch.call < at'[r] /\ Entered(r, ch.call)
    <3>1. ch.call < at[r] /\ Entered(r, ch.call) /\ ch.call \in Nat
      BY <1>1, <1>2, <1>3, <2>1 DEF Audited, Started, OpsInv, OpsTypeOK
    <3> QED BY <1>2, <1>4, <3>1
  <2> QED BY <1>1, <1>4, <1>7, <1>10, <2>1 DEF Audited
<1>12. Told(r)'
  <2>1. ASSUME NEW e \in trail, e.req = r PROVE EntryTrue(e)'
    <3>1. EntryTrue(e) /\ Covers(e)' = Covers(e) /\ Calls(e.req)' = Calls(e.req)
      BY <1>1, <1>3, <2>1 DEF Told, Covers, Calls, PlanOf
    <3>2. failed[e.req] \subseteq failed'[e.req]
      BY <1>4, <2>1
    <3> QED BY <1>1, <3>1, <3>2 DEF EntryTrue
  <2>2. reply'[r] = "none"
    BY <1>1, <1>2, <1>3 DEF Told, OpsInv, OpsTypeOK
  <2> QED BY <1>1, <1>4, <2>1, <2>2 DEF Told
<1> QED BY <1>1, <1>4, <1>6, <1>8, <1>9, <1>11, <1>12, OtherRequestsStay DEF OpsInv, OpsTypeOK

\* The outcome is recorded.
LEMMA RecordKeeps ==
  ASSUME OpsInv, NEW r \in Requests, Record(r)
  PROVE  OpsInv'
<1> DEFINE p == PlanOf(r)
           n == Len(Calls(r))
           entry == [req |-> r, call |-> at[r], named |-> name[r], cluster |-> client[r],
                     outcome |-> Outcome(r)]
<1>1. /\ stage[r] = "recording" /\ ~NameDue(r)
      /\ \/ trail' = trail \cup {entry} /\ missed' = missed
         \/ trail' = trail /\ missed' = [missed EXCEPT ![r] = missed[r] \cup {at[r]}]
      /\ \/ /\ p.each /\ at[r] < n /\ stage' = [stage EXCEPT ![r] = "calling"]
            /\ at' = [at EXCEPT ![r] = at[r] + 1]
         \/ /\ ~(p.each /\ at[r] < n) /\ stage' = [stage EXCEPT ![r] = "replying"] /\ at' = at
      /\ UNCHANGED <<served, commits, kind, client, name, tries, failed, absent, changes, reply>>
  BY DEF Record, Move
<1>2. Place(r) /\ Carried(r) /\ Audited(r) /\ Told(r) /\ PlanSound(kind[r], p)
  BY <1>1, PlanRuns DEF OpsInv
<1>3. /\ n \in 1 .. 4 /\ DOMAIN Calls(r) = 1 .. n /\ p.each \in BOOLEAN /\ p.audited
      /\ client[r] \in Clusters /\ at[r] \in 1 .. n + 1 /\ failed[r] \subseteq 1 .. n
      /\ p.each => at[r] \in 1 .. n /\ Calls(r)[at[r]].writes
      /\ ~p.each => at[r] = n + 1 \/ failed[r] # {}
  BY <1>1, <1>2 DEF Place, Started, PlanSound, Calls, Call
<1>4. name[r] \in Clusters
  BY <1>1, <1>3 DEF NameDue, OpsInv, OpsTypeOK
<1>5. /\ PlanOf(r)' = p /\ Calls(r)' = Calls(r)
      /\ \A j : Change(r, j)' = Change(r, j)
  BY <1>1 DEF PlanOf, Calls, Change
<1>6. Outcome(r) = IF (p.each /\ at[r] \in failed[r]) \/ (~p.each /\ failed[r] # {})
                   THEN "failure" ELSE "success"
  BY DEF Outcome
<1>7. /\ entry \in Entry /\ entry.req = r /\ entry.call = at[r] /\ entry.cluster = client[r]
      /\ entry.outcome = Outcome(r) /\ entry.outcome # "started"
  BY <1>3, <1>4, <1>6 DEF Entry
<1> HIDE DEF entry, p, n
<1>8. EntryTrue(entry)
  <2>1. Covers(entry) = IF p.each THEN {at[r]} ELSE 1 .. n
    BY <1>3, <1>7 DEF Covers, p, n
  <2>2. ASSUME Outcome(r) = "success", NEW j \in Covers(entry), Calls(r)[j].writes
        PROVE  j \in absent[r] \/ Change(r, j) \in changes
    <3>1. CASE p.each
      <4>1. j = at[r] /\ j \in 1 .. n /\ j \notin failed[r]
        BY <1>3, <1>6, <2>1, <2>2, <3>1
      <4> QED BY <1>1, <1>2, <2>2, <3>1, <4>1 DEF Carried, Started, p, n
    <3>2. CASE ~p.each
      <4>1. j < at[r] /\ j \in 1 .. n /\ j \notin failed[r]
        BY <1>3, <1>6, <2>1, <2>2, <3>2
      <4> QED BY <1>1, <1>2, <2>2, <3>2, <4>1 DEF Carried, Started, p, n
    <3> QED BY <1>3, <3>1, <3>2
  <2>3. Outcome(r) = "failure" => Covers(entry) \cap failed[r] # {}
    BY <1>3, <1>6, <2>1
  <2>4. \A j : Change(r, j) \in changes =>
           \E ch \in changes : ch.req = r /\ ch.call = j /\ ch.cluster = client[r]
    BY DEF Change
  <2> QED BY <1>7, <2>2, <2>3, <2>4 DEF EntryTrue
<1>9. /\ stage'[r] \in {"calling", "replying"} /\ stage' = [stage EXCEPT ![r] = stage'[r]]
      /\ at' = [at EXCEPT ![r] = at'[r]] /\ at'[r] \in Nat /\ at'[r] \in 1 .. n + 1
      /\ stage'[r] = "calling" => p.each /\ at'[r] = at[r] + 1 /\ at'[r] <= n
      /\ stage'[r] = "replying" => at'[r] = at[r]
      /\ missed' = [missed EXCEPT ![r] = missed'[r]] /\ missed[r] \subseteq missed'[r]
      /\ missed'[r] \in SUBSET Nat
      /\ entry \in trail' \/ at[r] \in missed'[r]
  BY <1>1, <1>3 DEF OpsInv, OpsTypeOK
<1>10. OpsTypeOK'
  <2>1. trail' \subseteq Entry
    BY <1>1, <1>7 DEF OpsInv, OpsTypeOK
  <2>2. missed' \in [Requests -> SUBSET Nat] /\ at' \in [Requests -> Nat]
    BY <1>9 DEF OpsInv, OpsTypeOK
  <2>3. stage' \in [Requests -> Stages]
    BY <1>9 DEF OpsInv, OpsTypeOK, Stages
  <2>4. \A g \in Requests : stage'[g] \notin {"idle", "killed"} => kind[g] # Nil
    BY <1>1, <1>9 DEF OpsInv, OpsTypeOK
  <2> QED BY <1>1, <2>1, <2>2, <2>3, <2>4 DEF OpsInv, OpsTypeOK, Stages
<1>11. Place(r)'
  BY <1>1, <1>3, <1>5, <1>9 DEF Place, Started, n
<1>12. Carried(r)'
  <2>1. CASE p.each
    BY <1>5, <1>9, <2>1 DEF Carried
  <2>2. CASE ~p.each
    BY <1>1, <1>2, <1>5, <1>9, <2>2 DEF Carried, Started, p
  <2> QED BY <1>3, <2>1, <2>2
<1>13. ASSUME NEW j
       PROVE  /\ Entered(r, j) => Entered(r, j)'
              /\ j = at[r] \/ ~p.each => Entered(r, j)'
  <2>1. trail \subseteq trail' /\ missed[r] \subseteq missed'[r] /\ PlanOf(r)' = p
    BY <1>1, <1>5, <1>9
  <2> DEFINE Wanted(e) == e.req = r /\ e.outcome # "started" /\ (p.each => e.call = j)
             Without   == IF p.each THEN j \in missed[r] ELSE missed[r] # {}
             Without1  == IF p.each THEN j \in missed'[r] ELSE missed'[r] # {}
  <2>2. Entered(r, j) <=> Without \/ \E e \in trail : Wanted(e)
    BY DEF Entered, p
  <2>3. Entered(r, j)' <=> Without1 \/ \E e \in trail' : Wanted(e)
    BY <2>1 DEF Entered
  <2>4. Without => Without1
    BY <2>1
  <2>5. j = at[r] \/ ~p.each => Wanted(entry) /\ (at[r] \in missed'[r] => Without1)
    BY <1>7
  <2> HIDE DEF Wanted, Without, Without1
  <2> QED BY <1>9, <2>1, <2>2, <2>3, <2>4, <2>5
<1>14. \A j : j = at[r] \/ ~p.each => Entered(r, j)'
  BY <1>13
<1>15. Audited(r)'
  <2>1. ASSUME NEW ch \in changes, ch.req = r, p.each
        PROVE  ch.call <= at[r] /\ ch.call \in Nat /\ Entered(r, ch.call)'
    <3>1. ch \in changes /\ ch.call \in Nat /\ at[r] \in Nat
      BY <1>1, <2>1 DEF OpsInv, OpsTypeOK
    <3>2. \/ ch.call < at[r] /\ Entered(r, ch.call)
          \/ ch.call = at[r]
      BY <1>1, <1>2, <2>1, <3>1, Zenon DEF Audited, Started, p
    <3>3. Entered(r, ch.call)'
      BY <1>13, <1>14, <3>2
    <3> QED BY <3>1, <3>2, <3>3
  <2>2. ASSUME NEW ch \in changes, ch.req = r, p.each
        PROVE  \/ ch.call < at'[r] /\ Entered(r, ch.call)'
               \/ ch.call = at'[r] /\ stage'[r] = "replying" /\ Entered(r, ch.call)'
    BY <1>3, <1>9, <2>1, <2>2
  <2>3. stage'[r] \notin {"idle", "taking"}
    BY <1>9
  <2> QED BY <1>1, <1>5, <1>14, <2>2, <2>3 DEF Audited
<1>16. Told(r)'
  <2>1. ASSUME NEW e \in trail', e.req = r PROVE EntryTrue(e)'
    <3>1. EntryTrue(e)
      BY <1>1, <1>2, <1>8, <2>1 DEF Told
    <3> QED BY <1>1, <3>1 DEF EntryTrue, Covers, Calls, PlanOf
  <2>2. reply'[r] = "none"
    BY <1>1, <1>2 DEF Told, OpsInv, OpsTypeOK
  <2> QED BY <1>9, <2>1, <2>2 DEF Told
<1> QED
  BY <1>1, <1>7, <1>9, <1>10, <1>11, <1>12, <1>15, <1>16, OtherRequestsStay
     DEF OpsInv, OpsTypeOK

\* The answer is given.
LEMMA ReplyKeeps ==
  ASSUME OpsInv, NEW r \in Requests, Reply(r)
  PROVE  OpsInv'
<1>1. /\ stage[r] = "replying" /\ stage' = [stage EXCEPT ![r] = "done"]
      /\ reply' = [reply EXCEPT ![r] = Answer(r)]
      /\ UNCHANGED <<served, commits, kind, client, name, at, tries, failed, absent, missed,
                     changes, trail>>
  BY DEF Reply, Move
<1>2. Place(r) /\ Carried(r) /\ Audited(r) /\ Told(r) /\ PlanSound(kind[r], PlanOf(r))
  BY <1>1, PlanRuns DEF OpsInv
<1>3. /\ PlanOf(r)' = PlanOf(r) /\ Calls(r)' = Calls(r)
      /\ \A j : Change(r, j)' = Change(r, j)
  BY <1>1 DEF PlanOf, Calls, Change
<1>4. stage'[r] = "done" /\ reply'[r] = Answer(r) /\ Answer(r) \in {"ok", "error"}
  BY <1>1 DEF OpsInv, OpsTypeOK, Answer
<1>5. OpsTypeOK'
  BY <1>1, <1>4 DEF OpsInv, OpsTypeOK
<1>6. Place(r)' /\ Carried(r)'
  BY <1>1, <1>2, <1>3, <1>4 DEF Place, Carried, Started
<1>7. \A j : Entered(r, j)' <=> Entered(r, j)
  BY <1>1, <1>3 DEF Entered
<1>8. Audited(r)'
  BY <1>1, <1>2, <1>3, <1>4, <1>7 DEF Audited, Started
<1>9. Told(r)'
  <2>1. \A e \in trail : e.req = r => EntryTrue(e)'
    BY <1>1, <1>2 DEF Told, EntryTrue, Covers, Calls, PlanOf
  <2>2. Answer(r) = "ok" => failed[r] = {} \/ kind[r] = "cpFrom"
    BY <1>2 DEF Answer, PlanSound
  <2> QED BY <1>1, <1>4, <2>1, <2>2 DEF Told
<1> QED BY <1>1, <1>5, <1>6, <1>8, <1>9, OtherRequestsStay DEF OpsInv, OpsTypeOK

\* The sidecar is killed in the midst of its requests.
LEMMA KilledKeeps ==
  ASSUME OpsInv, Killed
  PROVE  OpsInv'
<1>1. /\ stage' = [r \in Requests |-> IF stage[r] = "done" THEN "done" ELSE "killed"]
      /\ UNCHANGED <<served, commits, kind, client, name, at, tries, failed, absent, missed,
                     changes, trail, reply>>
  BY DEF Killed
<1>2. OpsTypeOK'
  BY <1>1 DEF OpsInv, OpsTypeOK
<1> SUFFICES ASSUME NEW r \in Requests
             PROVE  (Place(r) /\ Carried(r) /\ Audited(r) /\ Told(r))'
  BY <1>2 DEF OpsInv
<1>3. Place(r) /\ Carried(r) /\ Audited(r) /\ Told(r)
  BY DEF OpsInv
<1>4. /\ PlanOf(r)' = PlanOf(r) /\ Calls(r)' = Calls(r)
      /\ \A j : Change(r, j)' = Change(r, j)
  BY <1>1 DEF PlanOf, Calls, Change
<1>5. /\ \A j : Entered(r, j)' <=> Entered(r, j)
      /\ \A e : EntryTrue(e)' <=> EntryTrue(e)
  BY <1>1, <1>4 DEF Entered, EntryTrue, Covers, Calls, PlanOf
<1>6. stage'[r] \in {"done", "killed"} /\ (stage'[r] = "done" <=> stage[r] = "done")
  BY <1>1
<1>7. Place(r)' /\ Carried(r)'
  BY <1>1, <1>3, <1>4, <1>6 DEF Place, Carried, Started
<1>8. Audited(r)' /\ Told(r)'
  BY <1>1, <1>3, <1>4, <1>5, <1>6 DEF Audited, Told, Started
<1> QED BY <1>7, <1>8

\* A switch is committed, or nothing happens: no request is touched.
LEMMA StillKeeps ==
  ASSUME OpsInv, (\E c \in Clusters : CommitSwitch(c)) \/ UNCHANGED opsVars
  PROVE  OpsInv'
<1>1. UNCHANGED <<stage, kind, client, name, at, tries, failed, absent, missed, changes, trail,
                  reply>>
  BY DEF CommitSwitch, opsVars
<1>2. served' \in Clusters /\ commits' \in 0 .. MaxCommits
  BY OperationsAssumption DEF CommitSwitch, opsVars, OpsInv, OpsTypeOK
<1>3. OpsTypeOK'
  BY <1>1, <1>2 DEF OpsInv, OpsTypeOK
<1>4. changes' = changes
  BY DEF CommitSwitch, opsVars
<1> SUFFICES ASSUME NEW r \in Requests
             PROVE  (Place(r) /\ Carried(r) /\ Audited(r) /\ Told(r))'
  BY <1>3 DEF OpsInv
<1>5. Place(r) /\ Carried(r) /\ Audited(r) /\ Told(r)
  BY DEF OpsInv
<1>6. /\ PlanOf(r)' = PlanOf(r) /\ Calls(r)' = Calls(r) /\ Call(r)' = Call(r)
      /\ \A j : Change(r, j)' = Change(r, j)
  BY <1>1 DEF PlanOf, Calls, Call, Change
<1>7. /\ \A j : Entered(r, j)' <=> Entered(r, j)
      /\ \A e : EntryTrue(e)' <=> EntryTrue(e)
  BY <1>1, <1>4, <1>6 DEF Entered, EntryTrue, Covers, Calls, PlanOf
<1>8. Place(r)' /\ Carried(r)'
  BY <1>1, <1>4, <1>5, <1>6 DEF Place, Carried, Started
<1>9. Audited(r)' /\ Told(r)'
  BY <1>1, <1>4, <1>5, <1>6, <1>7 DEF Audited, Told, Started
<1> QED BY <1>8, <1>9

\* Every step keeps the invariant.
LEMMA OperationsKeep ==
  ASSUME OpsInv, [OpsNext]_opsVars
  PROVE  OpsInv'
BY EnterKeeps, TakeKeeps, IdentityKeeps, SucceedsKeeps, AbsentKeeps, FailsKeeps, ConflictsKeeps,
   SkipsKeeps, RecordKeeps, ReplyKeeps, KilledKeeps, StillKeeps, Zenon DEF OpsNext

\* The invariant implies what the run checks.
LEMMA OperationsTrue == ASSUME OpsInv PROVE OpsTrue
<1>1. ASSUME NEW ch \in changes, Past(ch)
      PROVE  \/ kind[ch.req] \in {"execOnce", "rollback", "uninstall", "install"}
             \/ IF PlanOf(ch.req).each THEN ch.call \in missed[ch.req] ELSE missed[ch.req] # {}
             \/ \E e \in trail : /\ e.req = ch.req /\ e.outcome # "started"
                                 /\ PlanOf(ch.req).each => e.call = ch.call
  <2> DEFINE r == ch.req
  <2>1. r \in Requests /\ Audited(r) /\ ch.call \in Nat /\ at[r] \in Nat
    BY DEF OpsInv, OpsTypeOK
  <2>2. \/ stage[r] = "done"
        \/ PlanOf(r).each /\ stage[r] = "calling" /\ at[r] > ch.call
    BY <1>1 DEF Past
  <2>3. PlanSound(kind[r], PlanOf(r))
    BY <2>1, <2>2, PlanRuns
  <2>4. CASE PlanOf(r).each
    <3>1. Entered(r, ch.call)
      BY <2>1, <2>2, <2>4 DEF Audited, Started
    <3> QED BY <3>1 DEF Entered
  <2>5. CASE ~PlanOf(r).each /\ PlanOf(r).audited
    <3>1. Entered(r, 0)
      BY <2>1, <2>2, <2>5 DEF Audited
    <3> QED BY <2>5, <3>1 DEF Entered
  <2>6. CASE ~PlanOf(r).each /\ ~PlanOf(r).audited
    BY <2>3, <2>6 DEF PlanSound, Unaudited
  <2> QED BY <2>4, <2>5, <2>6
<1>2. ASSUME NEW e \in trail
      PROVE  /\ EntryTrue(e)
             /\ e.outcome = "failure" /\ reply[e.req] = "ok" => kind[e.req] = "cpFrom"
  <2>1. e.req \in Requests
    BY DEF OpsInv, OpsTypeOK, Entry
  <2>2. EntryTrue(e) /\ (reply[e.req] = "ok" => failed[e.req] = {} \/ kind[e.req] = "cpFrom")
    BY <2>1 DEF OpsInv, Told
  <2> QED BY <2>2 DEF EntryTrue
<1>3. ChangesAudited
  BY <1>1, Zenon DEF ChangesAudited
<1>4. OutcomesTrue
  BY <1>2, Zenon DEF OutcomesTrue, EntryTrue
<1> QED BY <1>3, <1>4 DEF OpsTrue, OpsInv

\* However requests, switches, failures and a kill interleave: every
\* change made has an entry by the time its handler is past it, unless the handler is
\* one of the four that keep none or the entry could not be written; success is
\* recorded only of what was carried out in the cluster of the entry, failure only of
\* a failed call, which the answer then tells of.
THEOREM OpsHold == OpsSpec => []OpsTrue
<1>1. OpsInit => OpsInv
  <2> SUFFICES ASSUME OpsInit PROVE OpsInv
    OBVIOUS
  <2>1. served \in Clusters
    BY OperationsAssumption DEF OpsInit
  <2>2. OpsTypeOK
    BY <2>1, OperationsAssumption DEF OpsInit, OpsTypeOK
  <2>3. ASSUME NEW r \in Requests PROVE Place(r) /\ Carried(r) /\ Audited(r) /\ Told(r)
    <3>1. /\ stage[r] = "idle" /\ at[r] = 1 /\ failed[r] = {} /\ reply[r] = "none"
          /\ changes = {} /\ trail = {}
      BY DEF OpsInit
    <3> QED BY <3>1 DEF Place, Carried, Audited, Told, Started
  <2> QED BY <2>2, <2>3 DEF OpsInv
<1> QED BY <1>1, OperationsKeep, OperationsTrue, PTL DEF OpsSpec

(***************************************************************************)
(* RbacProbe: the verdict on a verb                                        *)
(***************************************************************************)

\* The rule of CheckVerbAccess, of the answers of a probe.
AllowedBy(answers, r, v) ==
  \/ \E k \in CallsOf(r, v) : answers[k] = "allowed"
  \/ ~ \E k \in CallsOf(r, v) : answers[k] = "denied"

\* The values of the probe's state.
ProbeTypes ==
  /\ cutShort \in BOOLEAN /\ probes \in 0..MaxProbes
  /\ probe = NoVerdict
       \/ probe \in [ProbeCalls -> {"waiting", "sent", "allowed", "denied", "failed"}]

\* The calls that hold a slot.
SlotsHeld == IsFiniteSet(Running) /\ Cardinality(Running) <= MaxCalls

\* The verdict is the rule's, of a probe that ended with an answer.
Concluded ==
  \/ verdict = NoVerdict /\ basis = NoVerdict
  \/ /\ basis # NoVerdict /\ verdict # NoVerdict
     /\ basis \in [ProbeCalls -> {"allowed", "denied", "failed"}]
     /\ \E k \in ProbeCalls : basis[k] # "failed"
     /\ verdict = [r \in Probed |-> [v \in Verbs |-> AllowedBy(basis, r, v)]]

\* The inductive invariant of the probe.
ProbeInv == ProbeTypes /\ SlotsHeld /\ Concluded

\* A set of running calls that only shrinks stays within the slots.
LEMMA SlotsKept ==
  ASSUME ProbeInv, NEW S, S \subseteq Running \/ S = {},
         Running' = S
  PROVE  SlotsHeld'
<1>1. IsFiniteSet(S) /\ Cardinality(S) <= Cardinality(Running)
  BY FS_Subset, FS_EmptySet, FS_CardinalityType DEF ProbeInv, SlotsHeld
<1>2. Cardinality(S) \in Nat /\ Cardinality(Running) \in Nat
  BY <1>1, FS_CardinalityType DEF ProbeInv, SlotsHeld
<1> QED BY <1>1, <1>2, ProbeAssumption DEF ProbeInv, SlotsHeld

\* Every step keeps the invariant.
LEMMA ProbeKeeps ==
  ASSUME ProbeInv, [ProbeNext]_probeVars
  PROVE  ProbeInv'
<1> USE ProbeAssumption
<1>1. CASE RunRBACProbe
  <2>1. Running' = {}
    BY <1>1 DEF RunRBACProbe, Running
  <2>2. SlotsHeld'
    BY <2>1, SlotsKept
  <2>3. probes + 1 \in 0 .. MaxProbes
    BY <1>1 DEF RunRBACProbe, ProbeInv, ProbeTypes
  <2> QED BY <1>1, <2>2, <2>3 DEF RunRBACProbe, ProbeInv, ProbeTypes, Concluded
<1>2. CASE CutShort
  <2>1. Running' = Running
    BY <1>2 DEF CutShort, Running
  <2> QED BY <1>2, <2>1 DEF CutShort, ProbeInv, ProbeTypes, SlotsHeld, Concluded
<1>3. ASSUME NEW k \in ProbeCalls, Send(k) PROVE ProbeInv'
  <2>1. Running' \subseteq Running \cup {k} /\ k \notin Running
    BY <1>3 DEF Send, Becomes, Running, ProbeInv, ProbeTypes
  <2>2. /\ IsFiniteSet(Running \cup {k})
        /\ Cardinality(Running \cup {k}) = Cardinality(Running) + 1
    BY <2>1, FS_AddElement DEF ProbeInv, SlotsHeld
  <2>3. IsFiniteSet(Running') /\ Cardinality(Running') <= Cardinality(Running \cup {k})
    BY <2>1, <2>2, FS_Subset
  <2>4. Cardinality(Running) < MaxCalls
    BY <1>3 DEF Send
  <2>5. Cardinality(Running) \in Nat /\ Cardinality(Running') \in Nat
    BY <2>3, FS_CardinalityType DEF ProbeInv, SlotsHeld
  <2>6. SlotsHeld'
    BY <2>2, <2>3, <2>4, <2>5 DEF SlotsHeld
  <2> QED BY <1>3, <2>6 DEF Send, Becomes, ProbeInv, ProbeTypes, Concluded
<1>4. ASSUME NEW k \in ProbeCalls, Fail(k) \/ Answers(k) PROVE ProbeInv'
  <2>1. /\ probe # NoVerdict /\ UNCHANGED <<cutShort, verdict, probes, basis>>
        /\ \E x \in {"allowed", "denied", "failed"} : probe' = [probe EXCEPT ![k] = x]
    BY <1>4 DEF Fail, Answers, Becomes
  <2>2. Running' \subseteq Running
    BY <2>1 DEF Running, ProbeInv, ProbeTypes
  <2>3. SlotsHeld'
    BY <2>2, SlotsKept
  <2> QED BY <2>1, <2>3 DEF ProbeInv, ProbeTypes, Concluded
<1>5. CASE Conclude
  <2>1. Running' = {}
    BY <1>5 DEF Conclude, Running
  <2>2. SlotsHeld'
    BY <2>1, SlotsKept
  <2>3. Concluded'
    <3>1. CASE Unreachable
      BY <1>5, <3>1 DEF Conclude, ProbeInv, Concluded
    <3>2. CASE ~Unreachable
      <4>1. /\ verdict' = [r \in Probed |-> [v \in Verbs |-> AllowedBy(probe, r, v)]]
            /\ basis' = probe
        BY <1>5, <3>2 DEF Conclude, Allowed, AllowedBy
      <4>2. \A r \in Probed, v \in Verbs : AllowedBy(probe, r, v) \in BOOLEAN
        BY DEF AllowedBy
      <4>3. verdict' # NoVerdict
        BY <4>1, <4>2
      <4>4. /\ probe # NoVerdict /\ probe \in [ProbeCalls -> {"allowed", "denied", "failed"}]
            /\ \E k \in ProbeCalls : probe[k] # "failed"
        BY <1>5, <3>2 DEF Conclude, Unreachable, ProbeInv, ProbeTypes
      <4> QED BY <4>1, <4>3, <4>4 DEF Concluded
    <3> QED BY <3>1, <3>2
  <2> QED BY <1>5, <2>2, <2>3 DEF Conclude, ProbeInv, ProbeTypes
<1>6. CASE UNCHANGED probeVars
  <2>1. Running' = Running
    BY <1>6 DEF probeVars, Running
  <2> QED BY <1>6, <2>1 DEF probeVars, ProbeInv, ProbeTypes, SlotsHeld, Concluded
<1> QED BY <1>1, <1>2, <1>3, <1>4, <1>5, <1>6 DEF ProbeNext

\* The invariant implies what the run checks.
LEMMA VerdictFollows == ASSUME ProbeInv PROVE VerdictExplained
<1>1. CASE verdict = NoVerdict
  BY <1>1, Zenon DEF ProbeInv, ProbeTypes, SlotsHeld, Concluded, VerdictExplained, ProbeTypeOK,
     DenialsExplained, VerdictsRest, CanVerb, ListDenied
<1>2. CASE verdict # NoVerdict
  <2>1. /\ basis # NoVerdict
        /\ basis \in [ProbeCalls -> {"allowed", "denied", "failed"}]
        /\ \E k \in ProbeCalls : basis[k] # "failed"
        /\ verdict = [r \in Probed |-> [v \in Verbs |-> AllowedBy(basis, r, v)]]
    BY <1>2 DEF ProbeInv, Concluded
  <2>2. \A r \in Probed, v \in Verbs : CallsOf(r, v) \subseteq ProbeCalls
    BY DEF CallsOf, ProbeCalls
  <2>3. \A r \in Probed, v \in Verbs : CanVerb(r, v) <=> AllowedBy(basis, r, v)
    BY <1>2, <2>1, Zenon DEF CanVerb
  <2>4. DenialsExplained
    <3>1. ASSUME NEW r \in Probed, ListDenied(r)
          PROVE  \E v \in {"list", "watch"} : ~CanVerb(r, v)
      BY <3>1, Zenon DEF ListDenied, CanVerb
    <3>2. ASSUME NEW r \in Probed, NEW v \in Verbs, ~CanVerb(r, v)
          PROVE  /\ \E k \in CallsOf(r, v) : basis[k] = "denied"
                 /\ \A k \in CallsOf(r, v) : basis[k] # "allowed"
      BY <3>2, <2>3, Zenon DEF AllowedBy
    <3> QED BY <3>1, <3>2, Zenon DEF DenialsExplained
  <2>5. VerdictsRest
    <3>1. ASSUME NEW r \in Probed, NEW v \in Verbs, CanVerb(r, v),
                 \A k \in CallsOf(r, v) : basis[k] # "allowed"
          PROVE  \A k \in CallsOf(r, v) : basis[k] = "failed"
      <4>1. \A k \in CallsOf(r, v) : basis[k] # "denied"
        BY <3>1, <2>3, Zenon DEF AllowedBy
      <4> QED BY <2>1, <2>2, <3>1, <4>1
    <3> QED BY <2>1, <3>1, Zenon DEF VerdictsRest
  <2>6. verdict \in [Probed -> [Verbs -> BOOLEAN]]
    <3>1. \A r \in Probed, v \in Verbs : AllowedBy(basis, r, v) \in BOOLEAN
      BY DEF AllowedBy
    <3> QED BY <2>1, <3>1
  <2> QED BY <1>2, <2>1, <2>4, <2>5, <2>6, Zenon
          DEF VerdictExplained, ProbeTypeOK, ProbeInv, ProbeTypes, SlotsHeld
<1> QED BY <1>1, <1>2

\* However many probes of however many resources and verbs overlap, fail or are cut
\* short, never more than MaxCalls calls run, and the verdict is the one that the
\* answers of one probe give by the rule of CheckVerbAccess.
THEOREM ProbeHolds == ProbeSpec => []VerdictExplained
<1>1. ProbeInit => ProbeInv
  <2> SUFFICES ASSUME ProbeInit PROVE ProbeInv
    OBVIOUS
  <2>1. Running = {}
    BY DEF ProbeInit, Running
  <2>2. SlotsHeld
    BY <2>1, FS_EmptySet, ProbeAssumption DEF SlotsHeld
  <2>3. 0 \in 0 .. MaxProbes
    BY ProbeAssumption
  <2>4. ProbeTypes /\ Concluded
    BY <2>3, Zenon DEF ProbeInit, ProbeTypes, Concluded
  <2> QED BY <2>2, <2>4 DEF ProbeInv
<1> QED BY <1>1, ProbeKeeps, VerdictFollows, PTL DEF ProbeSpec

(***************************************************************************)
(* ClusterReads: what an empty list means                                  *)
(***************************************************************************)

\* How far the informers of a cluster are, and what a read can be an answer of.
Levels    == {"cold", "critical", "warm"}
ReadVersions  == {"v1", "v1beta2"}
Evidence  == {"classes", "relay", "groups"}
ReadSources   == ReadVersions \cup Evidence \cup Handled

\* The calls of the provider detection that are left.
Providers3 == <<"classes", "relay", "groups">>
Providers2 == <<"relay", "groups">>
Providers1 == <<"groups">>
\* The calls a read can have left.
Todos == {GitVersions, <<"v1beta2">>, Providers3, Providers2, Providers1, <<>>}
           \cup {<<k>> : k \in Handled}

\* The reads under way.
ReadRecords ==
  [kind : Handled, of : ReadClusters, items : SUBSET (ReadClusters \X ReadSources),
   denied : BOOLEAN, failed : SUBSET ReadSources, todo : Todos, level : Levels,
   step : {"guard", "map", "ask", "done"}]

\* Nothing is found, nothing has failed, and the first call is yet to be sofar.
Fresh(r) == r.items = {} /\ r.failed = {} /\ ~r.denied /\ r.todo = Asked(r.kind)

\* A read of the Flux objects asks for v1beta2 only when v1 has failed.
VersionsTold(r) ==
  \/ Fresh(r)
  \/ r.todo = <<"v1beta2">> /\ r.items = {} /\ r.failed = {"v1"}
  \/ r.todo = <<>> /\ r.items = {<<r.of, "v1">>} /\ r.failed = {}
                   /\ "v1" \in VersionsServed[r.of]
  \/ r.todo = <<>> /\ r.items = {<<r.of, "v1beta2">>} /\ r.failed = {"v1"}
                   /\ "v1beta2" \in VersionsServed[r.of]
  \/ r.todo = <<>> /\ r.items = {} /\ r.failed = ReadVersions

\* Of the calls sofar each has answered or failed.
Accounts(r, sofar) ==
  \A s \in Evidence :
     IF s \in sofar THEN <<r.of, s>> \in r.items <=> s \notin r.failed
     ELSE <<r.of, s>> \notin r.items /\ s \notin r.failed

\* The provider detection asks for all three kinds of evidence, in order.
ProvidersTold(r) ==
  \/ r.todo = Providers3 /\ Accounts(r, {})
  \/ r.todo = Providers2 /\ Accounts(r, {"classes"})
  \/ r.todo = Providers1 /\ Accounts(r, {"classes", "relay"})
  \/ r.todo = <<>> /\ Accounts(r, Evidence)

\* Any other read makes one call, which answers or fails.
OneTold(r) ==
  \/ Fresh(r)
  \/ r.todo = <<>> /\ (r.kind = "patch" \/ r.items # {} \/ r.failed # {})

\* How far a request is, by its kind.
Path(r) ==
  /\ r.step \in {"guard", "map"} => Fresh(r) /\ r.kind \notin Direct
  /\ r.kind = "gitops" => r.step \in {"ask", "done"} /\ VersionsTold(r)
  /\ r.kind = "providers" => r.step \in {"ask", "done"} /\ ProvidersTold(r)
  /\ r.kind \notin {"gitops", "providers"} /\ r.step = "ask" => OneTold(r)
  /\ r.step = "done" /\ r.kind \in {"gitops", "providers"} => r.todo = <<>>
  /\ r.denied => r.step = "done"

\* An empty answer was denied, is of a failed call, or is of a map that is not
\* filled yet.
Explained(r) ==
  r.step = "done" /\ r.kind # "patch" /\ ~r.denied =>
    \/ r.failed # {} \/ r.items # {}
    \/ r.kind \in {"secrets", "tls", "events"} /\ r.level # "warm"

\* The inductive invariant of the read handlers.
ReadInv ==
  /\ readOn \in ReadClusters /\ level \in [ReadClusters -> Levels]
  /\ refusedOf \in [ReadClusters -> SUBSET Listed]
  /\ read # NoRead => read \in ReadRecords /\ Path(read) /\ Explained(read)

\* The heads and tails of the lists of calls.
LEMMA CallsInOrder ==
  /\ Head(GitVersions) = "v1" /\ Tail(GitVersions) = <<"v1beta2">>
  /\ Head(<<"v1beta2">>) = "v1beta2" /\ Tail(<<"v1beta2">>) = <<>>
  /\ Head(Providers3) = "classes" /\ Tail(Providers3) = Providers2
  /\ Head(Providers2) = "relay" /\ Tail(Providers2) = Providers1
  /\ Head(Providers1) = "groups" /\ Tail(Providers1) = <<>>
  /\ \A k \in Handled : Head(<<k>>) = k /\ Tail(<<k>>) = <<>> /\ <<k>> # <<>>
BY DEF GitVersions, Providers3, Providers2, Providers1

\* None of them is the empty list.
LEMMA TodosDiffer ==
  /\ GitVersions # <<>> /\ <<"v1beta2">> # <<>>
  /\ Providers3 # <<>> /\ Providers2 # <<>> /\ Providers1 # <<>>
BY DEF GitVersions, Providers3, Providers2, Providers1

\* What a handler asks first is one of those lists.
LEMMA AskedIn == \A k \in Handled : Asked(k) \in Todos
BY DEF Asked, Todos, Providers3

\* What the map of a kind gives: its items when it is filled, else nothing.
LEMMA MapHolds ==
  ASSUME NEW c, NEW k \in Handled
  PROVE  /\ InMap(c, k) \in {{<<c, k>>}, {}}
         /\ k = "pods" /\ level[c] \in {"critical", "warm"} => InMap(c, k) # {}
         /\ level[c] = "warm" => InMap(c, k) # {}
BY DEF InMap, Critical

\* A read arrives.
LEMMA ReceiveKeeps ==
  ASSUME ReadInv, NEW k \in Handled, Receive(k)
  PROVE  ReadInv'
<1>1. /\ read'.kind = k /\ read'.of = readOn /\ read'.items = {} /\ read'.denied = FALSE
      /\ read'.failed = {} /\ read'.todo = Asked(k) /\ read'.level = level[readOn]
      /\ read'.step = IF k \in Guarded THEN "guard" ELSE IF k \in Direct THEN "ask" ELSE "map"
  BY DEF Receive
<1>2. read' \in ReadRecords
  BY AskedIn DEF Receive, ReadRecords, ReadInv, Levels
<1>3. Fresh(read')
  BY <1>1 DEF Fresh
<1>4. Path(read')
  <2>1. k = "providers" => ProvidersTold(read')
    BY <1>1 DEF ProvidersTold, Accounts, Asked, Providers3
  <2>2. k \in {"gitops", "providers"} => read'.step = "ask"
    BY <1>1 DEF Guarded, Listed, Direct
  <2>3. read'.step \in {"guard", "map"} => k \notin Direct
    BY <1>1 DEF Guarded, Listed, Direct
  <2>4. read'.step # "done"
    BY <1>1
  <2> QED BY <1>1, <1>3, <2>1, <2>2, <2>3, <2>4 DEF Path, VersionsTold, OneTold
<1>5. Explained(read')
  BY <1>1 DEF Explained
<1> QED BY <1>2, <1>4, <1>5 DEF Receive, OtherReads, ReadInv

\* The RBAC verdict is consulted.
LEMMA GuardKeeps ==
  ASSUME ReadInv, Guard
  PROVE  ReadInv'
<1>1. read \in ReadRecords /\ Path(read) /\ read.step = "guard"
  BY DEF Guard, At, ReadInv
<1>2. Fresh(read) /\ read.kind \notin {"gitops", "providers"}
  BY <1>1 DEF Path, Direct
<1>3. CASE read.kind \in refusedOf[read.of]
  <2>1. read' = [Done({}) EXCEPT !.denied = TRUE]
    BY <1>3 DEF Guard
  <2>2. /\ read' \in ReadRecords /\ read'.kind = read.kind /\ read'.denied = TRUE
        /\ read'.step = "done"
    BY <1>1, <2>1 DEF Done, ReadRecords, ReadInv
  <2>3. Path(read') /\ Explained(read')
    BY <1>2, <2>2 DEF Path, Explained
  <2> QED BY <2>2, <2>3 DEF Guard, OtherReads, ReadInv
<1>4. CASE read.kind \notin refusedOf[read.of]
  <2>1. read' = [read EXCEPT !.step = "map"]
    BY <1>4 DEF Guard
  <2>2. /\ read' \in ReadRecords /\ read'.kind = read.kind /\ read'.step = "map"
        /\ read'.denied = read.denied /\ Fresh(read')
    BY <1>1, <1>2, <2>1 DEF ReadRecords, Fresh
  <2>3. Path(read') /\ Explained(read')
    BY <1>1, <1>2, <2>2 DEF Path, Explained, Fresh
  <2> QED BY <2>2, <2>3 DEF Guard, OtherReads, ReadInv
<1> QED BY <1>3, <1>4

\* The map is read, or the cluster is asked instead.
LEMMA ReadMapKeeps ==
  ASSUME ReadInv, ReadMap
  PROVE  ReadInv'
<1>1. read \in ReadRecords /\ Path(read) /\ read.step = "map"
  BY DEF ReadMap, At, ReadInv
<1>2. Fresh(read) /\ read.kind \notin Direct /\ read.kind \in Handled
  BY <1>1 DEF Path, ReadRecords
<1>3. read.kind \notin {"gitops", "providers", "patch", "metrics"}
  BY <1>2 DEF Direct
<1> DEFINE must == \/ read.kind \in Listed /\ level[read.of] = "cold"
                   \/ read.kind = "crds" /\ AsksCRDs(read.of)
<1>4. CASE must
  <2>1. read' = [read EXCEPT !.step = "ask"]
    BY <1>4 DEF ReadMap
  <2>2. /\ read' \in ReadRecords /\ read'.kind = read.kind /\ read'.step = "ask"
        /\ read'.denied = read.denied /\ Fresh(read')
    BY <1>1, <1>2, <2>1 DEF ReadRecords, Fresh
  <2>3. Path(read') /\ Explained(read')
    BY <1>2, <1>3, <2>2 DEF Path, Explained, OneTold, Fresh
  <2> QED BY <2>2, <2>3 DEF ReadMap, OtherReads, ReadInv
<1>5. CASE ~must
  <2>1. read' = Done(InMap(read.of, read.kind))
    BY <1>5 DEF ReadMap
  <2>2. InMap(read.of, read.kind) \subseteq ReadClusters \X ReadSources
    BY <1>1, <1>2, MapHolds DEF ReadRecords, ReadSources
  <2>3. level[read.of] \in Levels
    BY <1>1 DEF ReadInv, ReadRecords
  <2>4. /\ read' \in ReadRecords /\ read'.kind = read.kind /\ read'.step = "done"
        /\ read'.denied = FALSE /\ read'.items = InMap(read.of, read.kind)
        /\ read'.level = level[read.of]
    BY <1>1, <1>2, <2>1, <2>2, <2>3 DEF Done, ReadRecords, Fresh
  <2>5. Path(read')
    BY <1>3, <2>4 DEF Path
  <2>6. Explained(read')
    <3>1. CASE read.kind = "crds"
      BY <1>5, <2>4, <3>1 DEF Explained, AsksCRDs
    <3>2. CASE read.kind \in {"secrets", "tls", "events"}
      BY <1>2, <2>4, <3>2, MapHolds DEF Explained
    <3>3. CASE read.kind = "pods"
      <4>1. level[read.of] \in {"critical", "warm"}
        BY <1>5, <2>3, <3>3 DEF Levels, Listed
      <4> QED BY <1>2, <2>4, <3>3, <4>1, MapHolds DEF Explained
    <3>4. read.kind \in {"crds", "secrets", "tls", "events", "pods"}
      BY <1>2 DEF Handled, Guarded, Listed, Direct
    <3> QED BY <3>1, <3>2, <3>3, <3>4
  <2> QED BY <2>4, <2>5, <2>6 DEF ReadMap, OtherReads, ReadInv
<1> QED BY <1>4, <1>5

\* What a call is for, by the calls left.
LEMMA NextCall ==
  ASSUME ReadInv, At("ask"), read.todo # <<>>
  PROVE  /\ read \in ReadRecords /\ Path(read) /\ read.step = "ask" /\ ~read.denied
         /\ \/ /\ read.kind = "gitops"
               /\ \/ Fresh(read) /\ read.todo = GitVersions
                  \/ read.todo = <<"v1beta2">> /\ read.items = {} /\ read.failed = {"v1"}
            \/ /\ read.kind = "providers"
               /\ \/ read.todo = Providers3 /\ Accounts(read, {})
                  \/ read.todo = Providers2 /\ Accounts(read, {"classes"})
                  \/ read.todo = Providers1 /\ Accounts(read, {"classes", "relay"})
            \/ /\ read.kind \notin {"gitops", "providers"} /\ Fresh(read)
               /\ read.todo = <<read.kind>> /\ read.kind \in Handled
<1>1. read \in ReadRecords /\ Path(read) /\ read.step = "ask"
  BY DEF At, ReadInv
<1>2. ~read.denied
  BY <1>1 DEF Path
<1>3. CASE read.kind = "gitops"
  BY <1>1, <1>2, <1>3 DEF Path, VersionsTold, Fresh, Asked
<1>4. CASE read.kind = "providers"
  BY <1>1, <1>2, <1>4 DEF Path, ProvidersTold
<1>5. CASE read.kind \notin {"gitops", "providers"}
  BY <1>1, <1>2, <1>5 DEF Path, OneTold, Fresh, Asked, ReadRecords
<1> QED BY <1>1, <1>2, <1>3, <1>4, <1>5

\* A call answers.
LEMMA AskOkKeeps ==
  ASSUME ReadInv, AskOk
  PROVE  ReadInv'
<1>1. /\ At("ask") /\ read.todo # <<>> /\ CanAnswer(Head(read.todo)) /\ OtherReads
      /\ read' = [read EXCEPT !.items = read.items \cup ReadFound(Head(read.todo)),
                     !.todo = IF read.kind = "gitops" THEN <<>> ELSE Tail(read.todo)]
  BY DEF AskOk, NextVersions
<1>2. read \in ReadRecords /\ Path(read) /\ read.step = "ask" /\ ~read.denied
  BY <1>1, NextCall
<1>3. read.of \in ReadClusters /\ VersionsServed[read.of] \subseteq ReadVersions
  BY <1>2, ReadsAssumption DEF ReadRecords, ReadVersions
<1> SUFFICES /\ read' \in ReadRecords
             /\ Path(read')
  BY <1>1, <1>2 DEF ReadInv, OtherReads, Explained, ReadRecords
<1>4. CASE read.kind = "gitops"
  <2>1. Head(read.todo) \in ReadVersions /\ Head(read.todo) \in VersionsServed[read.of]
    BY <1>1, <1>4, NextCall, CallsInOrder DEF ReadVersions, CanAnswer
  <2>2. /\ ReadFound(Head(read.todo)) = {<<read.of, Head(read.todo)>>}
        /\ <<read.of, Head(read.todo)>> \in ReadClusters \X ReadSources
    BY <1>3, <1>4, <2>1 DEF ReadFound, ReadSources
  <2>3. read' \in ReadRecords
    BY <1>1, <1>2, <1>4, <2>2 DEF ReadRecords, Todos
  <2>4. VersionsTold(read')
    <3>1. /\ read'.of = read.of /\ read'.todo = <<>> /\ read'.failed = read.failed
          /\ read'.items = read.items \cup {<<read.of, Head(read.todo)>>}
      BY <1>1, <1>2, <1>4, <2>2 DEF ReadRecords
    <3> QED BY <1>1, <1>4, <2>1, <3>1, NextCall, CallsInOrder DEF VersionsTold, Fresh
  <2>5. read'.kind = "gitops" /\ read'.step = "ask" /\ read'.denied = read.denied
    BY <1>1, <1>2, <1>4 DEF ReadRecords
  <2> QED BY <1>2, <2>3, <2>4, <2>5 DEF Path
<1>5. CASE read.kind = "providers"
  <2>1. Head(read.todo) \in Evidence /\ Tail(read.todo) \in {Providers2, Providers1, <<>>}
    BY <1>1, <1>5, NextCall, CallsInOrder DEF Evidence
  <2>2. /\ ReadFound(Head(read.todo)) = {<<read.of, Head(read.todo)>>}
        /\ <<read.of, Head(read.todo)>> \in ReadClusters \X ReadSources
    BY <1>3, <1>5, <2>1 DEF ReadFound, ReadSources
  <2>3. read' \in ReadRecords
    BY <1>1, <1>2, <1>5, <2>1, <2>2 DEF ReadRecords, Todos
  <2>4. ProvidersTold(read')
    <3>1. /\ read'.of = read.of /\ read'.todo = Tail(read.todo) /\ read'.failed = read.failed
          /\ read'.items = read.items \cup {<<read.of, Head(read.todo)>>}
      BY <1>1, <1>2, <1>5, <2>2 DEF ReadRecords
    <3>2. \/ read.todo = Providers3 /\ Accounts(read, {})
          \/ read.todo = Providers2 /\ Accounts(read, {"classes"})
          \/ read.todo = Providers1 /\ Accounts(read, {"classes", "relay"})
      BY <1>1, <1>5, NextCall
    <3> QED BY <3>1, <3>2, CallsInOrder DEF ProvidersTold, Accounts, Evidence
  <2>5. read'.kind = "providers" /\ read'.step = "ask" /\ read'.denied = read.denied
    BY <1>1, <1>2, <1>5 DEF ReadRecords
  <2> QED BY <1>2, <2>3, <2>4, <2>5 DEF Path
<1>6. CASE read.kind \notin {"gitops", "providers"}
  <2>1. /\ Fresh(read) /\ read.kind \in Handled
        /\ Head(read.todo) = read.kind /\ Tail(read.todo) = <<>>
    BY <1>1, <1>6, NextCall, CallsInOrder
  <2>2. /\ ReadFound(read.kind) = IF read.kind = "patch" THEN {} ELSE {<<read.of, read.kind>>}
        /\ <<read.of, read.kind>> \in ReadClusters \X ReadSources
    BY <1>3, <1>6, <2>1 DEF ReadFound, ReadSources
  <2>3. /\ read' \in ReadRecords /\ read'.todo = <<>> /\ read'.kind = read.kind
        /\ read'.step = "ask" /\ read'.denied = read.denied
        /\ read.kind = "patch" \/ read'.items # {}
    BY <1>1, <1>2, <1>6, <2>1, <2>2 DEF ReadRecords, Todos
  <2> QED BY <1>2, <1>6, <2>3 DEF Path, OneTold
<1> QED BY <1>4, <1>5, <1>6

\* A call fails.
LEMMA AskFailsKeeps ==
  ASSUME ReadInv, AskFails
  PROVE  ReadInv'
<1>1. /\ At("ask") /\ read.todo # <<>> /\ OtherReads
      /\ read' = [read EXCEPT !.failed = read.failed \cup {Head(read.todo)},
                              !.todo = Tail(read.todo)]
  BY DEF AskFails
<1>2. read \in ReadRecords /\ Path(read) /\ read.step = "ask" /\ ~read.denied
  BY <1>1, NextCall
<1> SUFFICES /\ read' \in ReadRecords
             /\ Path(read')
  BY <1>1, <1>2 DEF ReadInv, OtherReads, Explained, ReadRecords
<1>3. Head(read.todo) \in ReadSources /\ Tail(read.todo) \in Todos
  BY <1>1, NextCall, CallsInOrder DEF ReadSources, ReadVersions, Evidence, Todos
<1>4. /\ read' \in ReadRecords /\ read'.kind = read.kind /\ read'.of = read.of
      /\ read'.step = "ask" /\ read'.denied = read.denied /\ read'.items = read.items
      /\ read'.todo = Tail(read.todo) /\ read'.failed = read.failed \cup {Head(read.todo)}
  BY <1>1, <1>2, <1>3 DEF ReadRecords
<1>5. CASE read.kind = "gitops"
  <2>1. VersionsTold(read')
    <3>1. CASE Fresh(read) /\ read.todo = GitVersions
      <4>1. read'.todo = <<"v1beta2">> /\ read'.items = {} /\ read'.failed = {"v1"}
        BY <1>4, <3>1, CallsInOrder DEF Fresh
      <4> QED BY <4>1 DEF VersionsTold
    <3>2. CASE read.todo = <<"v1beta2">> /\ read.items = {} /\ read.failed = {"v1"}
      <4>1. read'.todo = <<>> /\ read'.items = {} /\ read'.failed = ReadVersions
        BY <1>4, <3>2, CallsInOrder DEF ReadVersions
      <4> QED BY <4>1 DEF VersionsTold
    <3> QED BY <1>1, <1>5, <3>1, <3>2, NextCall
  <2> QED BY <1>2, <1>4, <1>5, <2>1 DEF Path
<1>6. CASE read.kind = "providers"
  <2>1. \/ read.todo = Providers3 /\ Accounts(read, {})
        \/ read.todo = Providers2 /\ Accounts(read, {"classes"})
        \/ read.todo = Providers1 /\ Accounts(read, {"classes", "relay"})
    BY <1>1, <1>6, NextCall
  <2>2. ProvidersTold(read')
    BY <1>4, <2>1, CallsInOrder DEF ProvidersTold, Accounts, Evidence
  <2> QED BY <1>2, <1>4, <1>6, <2>2 DEF Path
<1>7. CASE read.kind \notin {"gitops", "providers"}
  <2>1. Tail(read.todo) = <<>>
    BY <1>1, <1>7, NextCall, CallsInOrder
  <2> QED BY <1>2, <1>4, <1>7, <2>1 DEF Path, OneTold
<1> QED BY <1>5, <1>6, <1>7

\* The answer is given.
LEMMA ReadAnsweredKeeps ==
  ASSUME ReadInv, ReadAnswered
  PROVE  ReadInv'
<1>1. read \in ReadRecords /\ Path(read) /\ read.step = "ask" /\ read.todo = <<>>
  BY DEF ReadAnswered, At, ReadInv
<1>2. ~read.denied /\ read.kind \in Handled /\ read.of \in ReadClusters
  BY <1>1 DEF Path, ReadRecords
<1> DEFINE found == IF read.kind \in Listed /\ read.failed # {}
                    THEN InMap(read.of, read.kind) ELSE read.items
<1>3. read' = Done(found) /\ OtherReads
  BY DEF ReadAnswered
<1>4. found \subseteq ReadClusters \X ReadSources
  BY <1>1, <1>2, MapHolds DEF ReadRecords, ReadSources
<1>5. level[read.of] \in Levels
  BY <1>2 DEF ReadInv
<1>6. read.kind \in {"gitops", "providers"} => found = read.items
  BY DEF Listed
<1>7. read.failed = {} => found = read.items
  OBVIOUS
<1> HIDE DEF found
<1>8. /\ read' \in ReadRecords /\ read'.kind = read.kind /\ read'.of = read.of
      /\ read'.step = "done" /\ read'.denied = read.denied /\ read'.items = found
      /\ read'.todo = <<>> /\ read'.failed = read.failed
  BY <1>1, <1>3, <1>4, <1>5 DEF Done, ReadRecords
<1>9. CASE read.kind = "gitops"
  <2>1. VersionsTold(read) /\ VersionsTold(read')
    BY <1>1, <1>6, <1>8, <1>9 DEF Path, VersionsTold, Fresh, Asked
  <2>2. read'.failed # {} \/ read'.items # {}
    BY <1>8, <2>1, TodosDiffer, <1>9 DEF VersionsTold, Fresh, Asked, ReadVersions
  <2> QED BY <1>2, <1>3, <1>8, <1>9, <2>1, <2>2 DEF ReadInv, OtherReads, Path, Explained
<1>10. CASE read.kind = "providers"
  <2>1. ProvidersTold(read) /\ ProvidersTold(read')
    BY <1>1, <1>6, <1>8, <1>10 DEF Path, ProvidersTold, Accounts
  <2>2. Accounts(read', Evidence)
    BY <1>8, <2>1, TodosDiffer DEF ProvidersTold
  <2>3. read'.failed # {} \/ read'.items # {}
    BY <2>2 DEF Accounts, Evidence
  <2> QED BY <1>2, <1>3, <1>8, <1>10, <2>1, <2>3 DEF ReadInv, OtherReads, Path, Explained
<1>11. CASE read.kind \notin {"gitops", "providers"}
  <2>1. OneTold(read) /\ ~Fresh(read)
    BY <1>1, <1>2, <1>11, CallsInOrder DEF Path, OneTold, Fresh, Asked
  <2>2. read.kind = "patch" \/ read'.items # {} \/ read'.failed # {}
    BY <1>7, <1>8, <2>1 DEF OneTold
  <2> QED BY <1>2, <1>3, <1>8, <1>11, <2>2 DEF ReadInv, OtherReads, Path, Explained
<1> QED BY <1>9, <1>10, <1>11

\* Every step keeps the invariant.
LEMMA ReadKeeps ==
  ASSUME ReadInv, [ReadNext]_readVars
  PROVE  ReadInv'
<1>1. ASSUME NEW c \in ReadClusters, Fills(c) \/ SetsDenied(c)
      PROVE  ReadInv'
  BY <1>1 DEF Fills, SetsDenied, ReadInv, Levels
<1>2. CASE SwitchAway \/ UNCHANGED readVars
  BY <1>2 DEF SwitchAway, readVars, ReadInv
<1> QED BY <1>1, <1>2, ReceiveKeeps, GuardKeeps, ReadMapKeeps, AskOkKeeps, AskFailsKeeps,
           ReadAnsweredKeeps DEF ReadNext

\* The invariant implies what the run checks.
LEMMA AnswersFollow == ASSUME ReadInv PROVE ReadsTrue
<1>1. CASE read = NoRead
  BY <1>1 DEF ReadInv, ReadsTrue, ReadTypeOK, AbsenceExplained, VersionListedOnce, ProvidersTrue,
              At, Levels
<1>2. CASE read # NoRead
  <2>1. read \in ReadRecords /\ Path(read) /\ Explained(read)
    BY <1>2 DEF ReadInv
  <2>2. ReadTypeOK
    BY <2>1 DEF ReadInv, ReadTypeOK, ReadRecords, Levels
  <2>3. AbsenceExplained
    BY <2>1 DEF AbsenceExplained, Explained, At
  <2>4. VersionListedOnce
    <3> SUFFICES ASSUME read.step = "done", read.kind = "gitops"
                 PROVE  /\ Cardinality(read.items) <= 1
                        /\ read.items = {} => VersionsServed[read.of] \subseteq read.failed
                        /\ <<read.of, "v1beta2">> \in read.items => "v1" \in read.failed
      BY DEF VersionListedOnce, At
    <3>1. read.todo = <<>> /\ VersionsTold(read) /\ VersionsServed[read.of] \subseteq ReadVersions
      BY <2>1, ReadsAssumption DEF Path, ReadRecords, ReadVersions
    <3>2. ~Fresh(read)
      BY <3>1, TodosDiffer DEF Fresh, Asked
    <3>3. \/ read.items = {<<read.of, "v1">>}
          \/ read.items = {<<read.of, "v1beta2">>} /\ read.failed = {"v1"}
          \/ read.items = {} /\ read.failed = ReadVersions
      BY <3>1, <3>2 DEF VersionsTold
    <3>4. Cardinality(read.items) <= 1
      <4>1. ASSUME NEW s, read.items = {s} PROVE Cardinality(read.items) = 1
        BY <4>1, FS_Singleton
      <4>2. read.items = {} => Cardinality(read.items) = 0
        BY FS_EmptySet
      <4> QED BY <3>3, <4>1, <4>2
    <3> QED BY <3>1, <3>3, <3>4
  <2>5. ProvidersTrue
    BY <2>1, TodosDiffer DEF ProvidersTrue, At, Path, ProvidersTold, Accounts, Evidence
  <2> QED BY <2>2, <2>3, <2>4, <2>5 DEF ReadsTrue
<1> QED BY <1>1, <1>2

\* Whichever kinds are read while informers fill their maps and clusters are switched,
\* an empty answer was denied, is of a failed call, or came from a map that nobody waits
\* for and that was not filled; a Flux object is listed once, in the version that is
\* preferred of those that answered; and the providers found are those whose calls
\* answered.
THEOREM ReadsHold == ReadSpec => []ReadsTrue
<1>1. ReadInit => ReadInv
  BY ReadsAssumption DEF ReadInit, ReadInv, Levels
<1> QED BY <1>1, ReadKeeps, AnswersFollow, PTL DEF ReadSpec

(***************************************************************************)
(* SidecarFetch: what the main process tells of a request                  *)
(***************************************************************************)

\* A call that still tries was refused or cut off each time; one that a reset made
\* try again may be repeated.
Trying(f) ==
  /\ tried[f] < Tries /\ carried[f] <= cut[f] /\ cut[f] <= tried[f] /\ answerFailed[f] = 0
  /\ cut[f] > 0 => Repeats(f)

\* Nothing has been sent for the request.
Untried(f) == tried[f] = 0 /\ carried[f] = 0 /\ answerFailed[f] = 0 /\ cut[f] = 0

\* What the main process tells of a request is what became of it.
FetchTold(f) ==
  /\ fetchAsks[f].changes => carried[f] <= 1 \/ (fetchAsks[f].repeat /\ cut[f] > 0)
  /\ fetch[f] = "ok" => carried[f] > 0 \/ (fetchAsks[f] \in StreamRequests /\ cut[f] > 0)
  /\ answerFailed[f] > 0 => fetch[f] = "error" \/ (fetch[f] = "empty" /\ ~fetchAsks[f].strict)
  /\ fetch[f] = "threw" /\ carried[f] > 0 => cut[f] > 0

\* The inductive invariant of the requests of the main process.
FetchInv ==
  /\ FetchTypeOK
  /\ \A f \in Fetches :
       /\ fetch[f] = "idle" => Untried(f)
       /\ fetch[f] = "trying" => Trying(f)
       /\ FetchTold(f)

\* What a step of one call leaves alone of the others.
LEMMA OtherFetchesStay ==
  ASSUME NEW f \in Fetches, FetchInv,
         FetchTypeOK',
         \A g \in Fetches \ {f} :
            /\ fetch'[g] = fetch[g] /\ fetchAsks'[g] = fetchAsks[g] /\ tried'[g] = tried[g]
            /\ carried'[g] = carried[g] /\ answerFailed'[g] = answerFailed[g]
            /\ cut'[g] = cut[g],
         (fetch[f] = "idle" => Untried(f))', (fetch[f] = "trying" => Trying(f))', FetchTold(f)'
  PROVE  FetchInv'
BY DEF FetchInv, Untried, Trying, FetchTold, Repeats

\* A request is made.
LEMMA CallKeeps ==
  ASSUME NEW f \in Fetches, FetchInv, FetchCall(f)
  PROVE  FetchInv'
<1> USE TriesAssumption
<1>1. FetchTypeOK'
  BY DEF FetchCall, FetchInv, FetchTypeOK
<1>2. /\ fetch[f] = "idle" /\ fetch'[f] = "trying"
      /\ UNCHANGED <<tried, carried, answerFailed, cut>>
  BY DEF FetchCall, FetchInv, FetchTypeOK
<1>3. Untried(f)
  BY <1>2 DEF FetchInv
<1>4. Trying(f)' /\ FetchTold(f)'
  BY <1>2, <1>3 DEF Untried, Trying, FetchTold, Repeats
<1> QED BY <1>1, <1>2, <1>4, OtherFetchesStay DEF FetchCall, FetchInv, FetchTypeOK

\* What a request finds when it is made: no answer yet.
LEMMA AttemptFinds ==
  ASSUME NEW f \in Fetches, FetchInv, Attempts(f)
  PROVE  /\ fetch[f] = "trying" /\ Trying(f) /\ FetchTold(f)
         /\ tried' = [tried EXCEPT ![f] = tried[f] + 1]
         /\ tried[f] \in Nat /\ carried[f] \in Nat /\ cut[f] \in Nat /\ answerFailed[f] = 0
         /\ tried[f] + 1 \in 0 .. Tries /\ carried[f] + 1 \in 0 .. Tries
         /\ cut[f] + 1 \in 0 .. Tries /\ cut[f] + 1 <= tried[f] + 1 /\ carried[f] <= cut[f]
         /\ 1 \in 0 .. Tries
<1>1. /\ fetch[f] = "trying" /\ Trying(f) /\ FetchTold(f)
      /\ tried' = [tried EXCEPT ![f] = tried[f] + 1]
  BY DEF Attempts, FetchInv
<1>2. tried[f] \in 0 .. Tries /\ carried[f] \in 0 .. Tries /\ cut[f] \in 0 .. Tries
  BY DEF FetchInv, FetchTypeOK
<1>3. tried[f] < Tries /\ carried[f] <= cut[f] /\ cut[f] <= tried[f] /\ answerFailed[f] = 0
  BY <1>1 DEF Trying
<1> QED BY <1>1, <1>2, <1>3, TriesAssumption

\* The sidecar refuses the connection.
LEMMA RefusedKeeps ==
  ASSUME NEW f \in Fetches, FetchInv, FetchRefused(f)
  PROVE  FetchInv'
<1>1. Attempts(f)
  BY DEF FetchRefused
<1> USE <1>1, AttemptFinds
<1>2. FetchTypeOK'
  BY DEF FetchRefused, FetchInv, FetchTypeOK
<1>3. /\ tried'[f] = tried[f] + 1 /\ fetch'[f] \in {"trying", "threw"}
      /\ fetch'[f] = "trying" => tried[f] + 1 < Tries
      /\ UNCHANGED <<fetchAsks, carried, answerFailed, cut>>
  BY DEF FetchRefused, FetchInv, FetchTypeOK
<1>4. (fetch[f] = "trying" => Trying(f))'
  BY <1>3 DEF Trying, Repeats
<1>5. FetchTold(f)'
  BY <1>3 DEF FetchTold, Trying
<1> QED BY <1>2, <1>3, <1>4, <1>5, OtherFetchesStay DEF FetchRefused, FetchInv, FetchTypeOK

\* The connection is cut off.
LEMMA ResetKeeps ==
  ASSUME NEW f \in Fetches, FetchInv, Reset(f)
  PROVE  FetchInv'
<1>1. Attempts(f)
  BY DEF Reset
<1> USE <1>1, AttemptFinds
<1>2. PICK n \in 0 .. 1 : carried' = [carried EXCEPT ![f] = carried[f] + n]
  BY DEF Reset
<1>3. carried[f] + n \in 0 .. Tries
  <2>1. carried[f] \in Nat /\ carried[f] + 1 \in 0 .. Tries /\ n \in {0, 1}
    OBVIOUS
  <2> HIDE <1>1, AttemptFinds
  <2> QED BY <2>1, TriesAssumption
<1>4. FetchTypeOK'
  BY <1>2, <1>3 DEF Reset, FetchInv, FetchTypeOK
<1>5. /\ tried'[f] = tried[f] + 1 /\ cut'[f] = cut[f] + 1 /\ carried'[f] = carried[f] + n
      /\ fetch'[f] \in {"trying", "threw"}
      /\ fetch'[f] = "trying" => Repeats(f) /\ tried[f] + 1 < Tries
      /\ UNCHANGED <<fetchAsks, answerFailed>>
  BY <1>2 DEF Reset, FetchInv, FetchTypeOK
<1>6. (fetch[f] = "trying" => Trying(f))'
  BY <1>5 DEF Trying, Repeats
<1>7. FetchTold(f)'
  <2>1. cut'[f] > 0 /\ answerFailed'[f] = 0
    BY <1>5
  <2>2. carried[f] = 0 \/ (fetchAsks[f].repeat /\ cut[f] > 0)
    BY DEF Trying, Repeats
  <2>3. carried'[f] <= 1 \/ fetchAsks[f].repeat
    BY <1>5, <2>2
  <2> QED BY <1>5, <2>1, <2>3 DEF FetchTold
<1> QED BY <1>2, <1>4, <1>5, <1>6, <1>7, OtherFetchesStay DEF Reset, FetchInv, FetchTypeOK, Attempts

\* The sidecar answers.
LEMMA AnswerKeeps ==
  ASSUME NEW f \in Fetches, FetchInv, FetchAnswered(f)
  PROVE  FetchInv'
<1>1. Attempts(f)
  BY DEF FetchAnswered
<1> USE <1>1, AttemptFinds
<1>2. FetchTypeOK'
  BY DEF FetchAnswered, FetchInv, FetchTypeOK
<1>3. /\ carried'[f] = carried[f] + 1 /\ fetch'[f] = "ok"
      /\ UNCHANGED <<fetchAsks, answerFailed, cut>>
  BY DEF FetchAnswered, FetchInv, FetchTypeOK
<1>4. FetchTold(f)'
  <2>1. carried[f] = 0 \/ (fetchAsks[f].repeat /\ cut[f] > 0)
    BY DEF Trying, Repeats
  <2> QED BY <1>3, <2>1 DEF FetchTold
<1> QED BY <1>2, <1>3, <1>4, OtherFetchesStay DEF FetchAnswered, FetchInv, FetchTypeOK, Attempts

\* The sidecar answers with an error.
LEMMA FailedKeeps ==
  ASSUME NEW f \in Fetches, FetchInv, Failed(f)
  PROVE  FetchInv'
<1>1. Attempts(f)
  BY DEF Failed
<1> USE <1>1, AttemptFinds
<1>2. /\ answerFailed' = [answerFailed EXCEPT ![f] = answerFailed[f] + 1]
      /\ fetch' = [fetch EXCEPT ![f] = IF fetchAsks[f].strict THEN "error" ELSE "empty"]
      /\ UNCHANGED <<serving, fetchAsks, carried, cut>>
  BY DEF Failed, ErrorShown
<1>3. FetchTypeOK'
  BY <1>2 DEF FetchInv, FetchTypeOK
<1>4. /\ fetch'[f] = "error" \/ (fetch'[f] = "empty" /\ ~fetchAsks[f].strict)
      /\ carried'[f] = carried[f] /\ cut'[f] = cut[f] /\ fetchAsks' = fetchAsks
  BY <1>2 DEF FetchInv, FetchTypeOK
<1>5. FetchTold(f)'
  <2>1. fetchAsks[f].changes => carried[f] <= 1 \/ (fetchAsks[f].repeat /\ cut[f] > 0)
    BY DEF FetchTold
  <2> QED BY <1>4, <2>1 DEF FetchTold
<1> QED BY <1>2, <1>3, <1>4, <1>5, OtherFetchesStay DEF FetchInv, FetchTypeOK, Attempts

\* A stream ends.
LEMMA StreamKeeps ==
  ASSUME NEW f \in Fetches, FetchInv, StreamEnds(f)
  PROVE  FetchInv'
<1>1. Attempts(f)
  BY DEF StreamEnds
<1> USE <1>1, AttemptFinds
<1>2. PICK n \in 0 .. 1 : carried' = [carried EXCEPT ![f] = carried[f] + n]
  BY DEF StreamEnds
<1>3. carried[f] + n \in 0 .. Tries
  <2>1. carried[f] \in Nat /\ carried[f] + 1 \in 0 .. Tries /\ n \in {0, 1}
    OBVIOUS
  <2> HIDE <1>1, AttemptFinds
  <2> QED BY <2>1, TriesAssumption
<1>4. FetchTypeOK'
  BY <1>2, <1>3 DEF StreamEnds, FetchInv, FetchTypeOK
<1>5. /\ cut'[f] = cut[f] + 1 /\ carried'[f] = carried[f] + n /\ fetch'[f] = "ok"
      /\ fetchAsks[f] \in StreamRequests /\ UNCHANGED <<fetchAsks, answerFailed>>
  BY <1>2 DEF StreamEnds, FetchInv, FetchTypeOK
<1>6. FetchTold(f)'
  <2>1. cut'[f] > 0 /\ answerFailed'[f] = 0
    BY <1>5
  <2>2. carried[f] = 0 \/ (fetchAsks[f].repeat /\ cut[f] > 0)
    BY DEF Trying, Repeats
  <2>3. carried'[f] <= 1 \/ fetchAsks[f].repeat
    BY <1>5, <2>2
  <2> QED BY <1>5, <2>1, <2>3 DEF FetchTold
<1> QED BY <1>2, <1>4, <1>5, <1>6, OtherFetchesStay DEF StreamEnds, FetchInv, FetchTypeOK, Attempts

\* Every step keeps the invariant.
LEMMA FetchesKeep ==
  ASSUME FetchInv, [FetchNext]_fetchVars
  PROVE  FetchInv'
<1>1. CASE Serve \/ UNCHANGED fetchVars
  BY <1>1 DEF Serve, fetchVars, FetchInv, FetchTypeOK, Untried, Trying, FetchTold, Repeats
<1> QED BY <1>1, CallKeeps, RefusedKeeps, ResetKeeps, AnswerKeeps, FailedKeeps, StreamKeeps
        DEF FetchNext

\* For any number of requests and tries: a change is carried out at most once unless
\* its request may be repeated and was cut off, success is told of what was carried
\* out, and an answer of failure is told as one.
THEOREM FetchHolds == FetchSpec => []RequestsTrue
<1>1. FetchInit => FetchInv
  BY TriesAssumption DEF FetchInit, FetchInv, FetchTypeOK, Untried, FetchTold
<1>2. FetchInv => RequestsTrue
  BY DEF FetchInv, RequestsTrue, FetchTold
<1> QED BY <1>1, <1>2, FetchesKeep, PTL DEF FetchSpec

(***************************************************************************)
(* ClusterCaches: what the caches of clients, versions and results answer  *)
(***************************************************************************)

\* A reader under way.
Busy(q) == step[q] \notin {"idle", "done"}

\* The keys under which the readers look.
KeyTypeOK == key \in [Readers -> Keys \cup {None}]

\* Where a reader of each cache can be, and what it then holds: a name and a source
\* that were current since it began, unless it straddles a commit (torn).
HelmPath(q) ==
  Busy(q) /\ cache[q] = "helm" =>
     /\ step[q] \in {"looking", "building", "running", "again"}
     /\ key[q] \in Served /\ key[q] \in since[q]
     /\ step[q] = "running" => asks[q] = key[q]

VersionsPath(q) ==
  Busy(q) /\ cache[q] = "versions" =>
     /\ step[q] \in {"naming", "looking", "listing", "storing"}
     /\ asks[q] \in Served /\ asks[q] \in since[q]
     /\ step[q] # "naming" => key[q] \in Served
     /\ step[q] # "naming" /\ torn = {} => key[q] = asks[q]
     /\ step[q] = "storing" => got[q] \in Served
     /\ step[q] = "storing" /\ torn = {} => got[q] = asks[q]

ResultsPath(q) ==
  Busy(q) /\ cache[q] = "results" =>
     /\ step[q] \in {"naming", "looking", "lead", "sent", "joined", "storing"}
     /\ key[q] \in PromKey /\ key[q].gen <= generation
     /\ Current(now, url) \in since[q]
     /\ step[q] # "naming" /\ key[q].gen = generation /\ url = Manual => key[q].url = Manual

\* A Helm operation is run again only after a failure and only if it reads.
TriedOnce(q) ==
  /\ \/ runs[q] = 0
     \/ step[q] = "done"
     \/ runs[q] = 1 /\ ~writes[q] /\ step[q] \in {"again", "building", "running"}
  /\ writes[q] => runs[q] <= 1
  /\ Busy(q) => cache[q] \in {"helm", "versions", "results"}

Honest(q) ==
  step[q] = "done" /\ got[q] # None =>
     got[q] \in since[q] \/ (cache[q] = "versions" /\ torn # {})

ReaderOK(q) ==
  HelmPath(q) /\ VersionsPath(q) /\ ResultsPath(q) /\ TriedOnce(q) /\ Honest(q)

\* An entry of the first two caches is of the cluster it is named after.
OwnEntries ==
  /\ \A c \in Served : configs[c] \in {c, None}
  /\ torn = {} => \A c \in Served : groups[c] \in {c, None} /\ versions[c] \in {c, None}

\* A query result of s under k is cached, or is going to be.
HoldsResult(k, s) ==
  \/ [key |-> k, source |-> s] \in results
  \/ \E p \in Readers : key[p] = k /\ step[p] = "sent" /\ asks[p] = s
  \/ \E p \in Readers : key[p] = k /\ step[p] = "storing" /\ cache[p] = "results" /\ got[p] = s

\* A result of the present generation is of a source that is current or being
\* left, or of the manual URL its key names.
SeenNow == IF clearing = "nothing" THEN {now} ELSE {now, left}
ResultsNow(k, s) ==
  /\ k.gen <= generation
  /\ k.gen = generation =>
       /\ url = Manual => k.url = Manual
       /\ (\E c \in SeenNow : s = Current(c, url)) \/ (s = Manual /\ k.url = Manual)

\* A result a reader can still find was current since it began.
ResultFor(q, k, s) ==
  Busy(q) /\ cache[q] = "results" =>
  /\ step[q] = "naming" /\ k.gen = key[q].gen => s \in since[q] \/ (s = Manual /\ k.url = Manual)
  /\ step[q] # "naming" /\ k = key[q] => s \in since[q]

ResultsHeld ==
  \A k \in PromKey, s \in Sources : HoldsResult(k, s) =>
     ResultsNow(k, s) /\ \A q \in Readers : ResultFor(q, k, s)

CachesInv ==
  /\ CachesTypeOK /\ KeyTypeOK
  /\ \A q \in Readers : ReaderOK(q)
  /\ OwnEntries /\ ResultsHeld

\* A step of one reader: the switch, the URL and the other readers stay.
StepOf(r) ==
  /\ UNCHANGED <<now, left, clearing, switched, generation, url, urls>>
  /\ \A q \in Readers \ {r} :
       /\ step'[q] = step[q] /\ cache'[q] = cache[q] /\ writes'[q] = writes[q]
       /\ asks'[q] = asks[q] /\ key'[q] = key[q] /\ got'[q] = got[q]
       /\ runs'[q] = runs[q] /\ since'[q] = since[q]
  /\ torn \subseteq torn'

\* What is to show of such a step.
LEMMA ReaderSteps ==
  ASSUME CachesInv, NEW r \in Readers, StepOf(r), CachesTypeOK', KeyTypeOK',
         HelmPath(r)', VersionsPath(r)', ResultsPath(r)', TriedOnce(r)', Honest(r)',
         OwnEntries', ResultsHeld'
  PROVE  CachesInv'
<1>1. ASSUME NEW q \in Readers, q # r PROVE ReaderOK(q)'
  <2>1. /\ step'[q] = step[q] /\ cache'[q] = cache[q] /\ writes'[q] = writes[q]
        /\ asks'[q] = asks[q] /\ key'[q] = key[q] /\ got'[q] = got[q]
        /\ runs'[q] = runs[q] /\ since'[q] = since[q]
        /\ torn = {} \/ torn' # {}
        /\ UNCHANGED <<now, generation, url>>
    BY <1>1 DEF StepOf
  <2>2. ReaderOK(q)
    BY DEF CachesInv
  <2>3. HelmPath(q)' /\ VersionsPath(q)'
    BY <2>1, <2>2 DEF ReaderOK, HelmPath, VersionsPath, Busy
  <2>4. ResultsPath(q)' /\ TriedOnce(q)' /\ Honest(q)'
    BY <2>1, <2>2 DEF ReaderOK, ResultsPath, TriedOnce, Honest, Busy, Current
  <2> QED BY <2>3, <2>4 DEF ReaderOK
<1>2. ReaderOK(r)'
  BY DEF ReaderOK
<1> QED BY <1>1, <1>2 DEF CachesInv

\* A step that brings no new result, of a reader that finds only what it may.
LEMMA ResultsStay ==
  ASSUME CachesInv, NEW r \in Readers, StepOf(r),
         \A k \in PromKey, s \in Sources : HoldsResult(k, s)' => HoldsResult(k, s),
         \A k \in PromKey, s \in Sources : HoldsResult(k, s) => ResultFor(r, k, s)'
  PROVE  ResultsHeld'
<1> SUFFICES ASSUME NEW k \in PromKey, NEW s \in Sources, HoldsResult(k, s)'
             PROVE  ResultsNow(k, s)' /\ \A q \in Readers : ResultFor(q, k, s)'
  BY DEF ResultsHeld
<1>1. HoldsResult(k, s) /\ ResultsNow(k, s) /\ \A q \in Readers : ResultFor(q, k, s)
  BY DEF CachesInv, ResultsHeld
<1>2. ResultsNow(k, s)'
  BY <1>1 DEF StepOf, ResultsNow, SeenNow, Current
<1>3. ASSUME NEW q \in Readers PROVE ResultFor(q, k, s)'
  <2>1. CASE q = r
    BY <1>1, <2>1
  <2>2. CASE q # r
    BY <1>1, <2>2 DEF StepOf, ResultFor, Busy
  <2> QED BY <2>1, <2>2
<1> QED BY <1>2, <1>3

\* A step of a reader of another cache.
LEMMA OtherCacheSteps ==
  ASSUME CachesInv, NEW r \in Readers, StepOf(r), results' = results,
         cache'[r] # "results", step'[r] # "sent"
  PROVE  ResultsHeld'
<1>1. ASSUME NEW k \in PromKey, NEW s \in Sources, HoldsResult(k, s)' PROVE HoldsResult(k, s)
  BY <1>1 DEF HoldsResult, StepOf
<1>2. \A k \in PromKey, s \in Sources : ResultFor(r, k, s)'
  BY DEF ResultFor
<1> QED BY <1>1, <1>2, ResultsStay

\* Helm
LEMMA HelmBeginKeeps ==
  ASSUME CachesInv, NEW r \in Readers, HelmBegin(r)
  PROVE  CachesInv'
<1>1. CachesTypeOK /\ KeyTypeOK /\ ReaderOK(r) /\ OwnEntries
  BY DEF CachesInv
<1>2. CachesTypeOK' /\ KeyTypeOK'
  BY <1>1 DEF HelmBegin, Begin, Go, switch, stores, CachesTypeOK, KeyTypeOK, Keys, Sources, Current
<1>3. /\ StepOf(r) /\ UNCHANGED <<configs, groups, versions, results, torn>>
      /\ step[r] = "idle" /\ step'[r] = "looking" /\ cache'[r] = "helm"
      /\ key'[r] = now /\ now \in since'[r] /\ runs'[r] = runs[r]
  BY <1>1 DEF HelmBegin, Begin, Go, switch, stores, StepOf, CachesTypeOK, KeyTypeOK
<1>4. HelmPath(r)' /\ VersionsPath(r)' /\ ResultsPath(r)' /\ Honest(r)'
  BY <1>1, <1>3 DEF HelmPath, VersionsPath, ResultsPath, Honest, CachesTypeOK
<1>5. TriedOnce(r)'
  BY <1>1, <1>3 DEF ReaderOK, TriedOnce
<1>6. OwnEntries' /\ ResultsHeld'
  BY <1>1, <1>3, OtherCacheSteps DEF OwnEntries
<1> QED BY <1>2, <1>3, <1>4, <1>5, <1>6, ReaderSteps

\* The cache of configurations is looked up, ...
LEMMA HelmLookupKeeps ==
  ASSUME CachesInv, NEW r \in Readers, HelmLookup(r)
  PROVE  CachesInv'
<1>1. CachesTypeOK /\ KeyTypeOK /\ ReaderOK(r) /\ OwnEntries
  BY DEF CachesInv
<1>2. /\ key[r] \in Served /\ key[r] \in since[r] /\ cache[r] = "helm"
      /\ step[r] \in {"looking", "again"}
  BY <1>1 DEF HelmLookup, ReaderOK, HelmPath, Busy
<1>3. configs[key[r]] # None => configs[key[r]] = key[r]
  BY <1>1, <1>2 DEF OwnEntries
<1>4. /\ StepOf(r) /\ UNCHANGED <<configs, groups, versions, results, torn>>
      /\ step'[r] \in {"running", "building"} /\ (step'[r] = "running" => asks'[r] = key[r])
      /\ cache'[r] = "helm" /\ key'[r] = key[r] /\ since'[r] = since[r]
      /\ runs'[r] = runs[r] /\ writes'[r] = writes[r]
  BY <1>1, <1>2, <1>3 DEF HelmLookup, Go, switch, stores, StepOf, CachesTypeOK
<1>5. CachesTypeOK' /\ KeyTypeOK'
  BY <1>1, <1>2 DEF HelmLookup, Go, switch, stores, CachesTypeOK, KeyTypeOK, Sources
<1>6. HelmPath(r)' /\ VersionsPath(r)' /\ ResultsPath(r)' /\ Honest(r)'
  BY <1>2, <1>4 DEF HelmPath, VersionsPath, ResultsPath, Honest
<1>7. TriedOnce(r)'
  BY <1>1, <1>2, <1>4 DEF ReaderOK, TriedOnce
<1>8. OwnEntries' /\ ResultsHeld'
  BY <1>1, <1>4, OtherCacheSteps DEF OwnEntries
<1> QED BY <1>4, <1>5, <1>6, <1>7, <1>8, ReaderSteps

\* ... a configuration is built and stored on a miss, ...
LEMMA HelmBuildKeeps ==
  ASSUME CachesInv, NEW r \in Readers, HelmBuild(r)
  PROVE  CachesInv'
<1>1. CachesTypeOK /\ KeyTypeOK /\ ReaderOK(r) /\ OwnEntries
  BY DEF CachesInv
<1>2. step[r] = "building" /\ cache[r] = "helm" /\ key[r] \in Served /\ key[r] \in since[r]
  BY <1>1 DEF HelmBuild, ReaderOK, HelmPath, VersionsPath, ResultsPath, TriedOnce, Busy
<1>3. (IF configs[key[r]] # None THEN configs[key[r]] ELSE key[r]) = key[r]
  BY <1>1, <1>2 DEF OwnEntries
<1>4. /\ StepOf(r) /\ UNCHANGED <<groups, versions, results, torn>>
      /\ configs' \in {configs, [configs EXCEPT ![key[r]] = key[r]]}
      /\ \/ step'[r] = "running" /\ asks'[r] = key[r]
         \/ step'[r] = "done" /\ got'[r] = None
      /\ cache'[r] = "helm" /\ key'[r] = key[r] /\ since'[r] = since[r]
      /\ runs'[r] = runs[r] /\ writes'[r] = writes[r]
  BY <1>1, <1>2, <1>3 DEF HelmBuild, Finish, Go, switch, StepOf, CachesTypeOK
<1>5. CachesTypeOK' /\ KeyTypeOK'
  BY <1>1, <1>2, <1>3 DEF HelmBuild, Finish, Go, switch, CachesTypeOK, KeyTypeOK, Sources
<1>6. HelmPath(r)' /\ VersionsPath(r)' /\ ResultsPath(r)' /\ Honest(r)'
  BY <1>2, <1>4 DEF HelmPath, VersionsPath, ResultsPath, Honest, Busy
<1>7. TriedOnce(r)'
  BY <1>1, <1>2, <1>4 DEF ReaderOK, TriedOnce, Busy
<1>8. OwnEntries' /\ ResultsHeld'
  BY <1>1, <1>2, <1>4, OtherCacheSteps DEF OwnEntries, CachesTypeOK
<1> QED BY <1>4, <1>5, <1>6, <1>7, <1>8, ReaderSteps

\* ... and Helm runs with it.
LEMMA HelmRunKeeps ==
  ASSUME CachesInv, NEW r \in Readers, HelmRun(r)
  PROVE  CachesInv'
<1>1. CachesTypeOK /\ KeyTypeOK /\ ReaderOK(r) /\ OwnEntries
  BY DEF CachesInv
<1>2. /\ step[r] = "running" /\ cache[r] = "helm" /\ key[r] \in Served /\ key[r] \in since[r]
      /\ asks[r] = key[r]
  BY <1>1 DEF HelmRun, ReaderOK, HelmPath, VersionsPath, ResultsPath, TriedOnce, Busy
<1>3. runs[r] = 0 \/ (runs[r] = 1 /\ ~writes[r])
  BY <1>1, <1>2 DEF ReaderOK, TriedOnce
<1>4. /\ StepOf(r) /\ UNCHANGED <<groups, versions, results, torn>>
      /\ configs' \in {configs, [configs EXCEPT ![key[r]] = None]}
      /\ \/ step'[r] = "done" /\ got'[r] \in {key[r], None}
         \/ step'[r] = "again" /\ runs[r] = 0 /\ ~writes[r]
      /\ cache'[r] = "helm" /\ key'[r] = key[r] /\ since'[r] = since[r]
      /\ runs'[r] = runs[r] + 1 /\ writes'[r] = writes[r]
  BY <1>1, <1>2 DEF HelmRun, Retries, Finish, Go, switch, StepOf, CachesTypeOK
<1>5. CachesTypeOK' /\ KeyTypeOK'
  <2>1. runs' \in [Readers -> 0 .. 2]
    BY <1>1, <1>3 DEF HelmRun, CachesTypeOK
  <2>2. configs' \in [Served -> Served \cup {None}]
    BY <1>1, <1>4 DEF CachesTypeOK
  <2> QED BY <1>1, <1>2, <2>1, <2>2
          DEF HelmRun, Finish, Go, switch, CachesTypeOK, KeyTypeOK, Sources
<1>6. HelmPath(r)' /\ VersionsPath(r)' /\ ResultsPath(r)' /\ Honest(r)'
  BY <1>2, <1>4 DEF HelmPath, VersionsPath, ResultsPath, Honest, Busy
<1>7. TriedOnce(r)'
  BY <1>1, <1>3, <1>4 DEF TriedOnce, Busy, CachesTypeOK
<1>8. OwnEntries' /\ ResultsHeld'
  BY <1>1, <1>2, <1>4, OtherCacheSteps DEF OwnEntries, CachesTypeOK
<1> QED BY <1>4, <1>5, <1>6, <1>7, <1>8, ReaderSteps

\* Preferred API versions
LEMMA VersionsBeginKeeps ==
  ASSUME CachesInv, NEW r \in Readers, VersionsBegin(r)
  PROVE  CachesInv'
<1>1. CachesTypeOK /\ KeyTypeOK /\ ReaderOK(r) /\ OwnEntries
  BY DEF CachesInv
<1>2. CachesTypeOK' /\ KeyTypeOK'
  BY <1>1 DEF VersionsBegin, Begin, Go, switch, stores, CachesTypeOK, KeyTypeOK, Sources, Current
<1>3. /\ StepOf(r) /\ UNCHANGED <<configs, groups, versions, results, torn>>
      /\ step[r] = "idle" /\ step'[r] = "naming" /\ cache'[r] = "versions"
      /\ asks'[r] = now /\ now \in since'[r] /\ runs'[r] = runs[r] /\ writes'[r] = writes[r]
  BY <1>1 DEF VersionsBegin, Begin, Go, switch, stores, StepOf, CachesTypeOK
<1>4. HelmPath(r)' /\ VersionsPath(r)' /\ ResultsPath(r)' /\ Honest(r)'
  BY <1>1, <1>3 DEF HelmPath, VersionsPath, ResultsPath, Honest, CachesTypeOK
<1>5. TriedOnce(r)'
  BY <1>1, <1>3 DEF ReaderOK, TriedOnce
<1>6. OwnEntries' /\ ResultsHeld'
  BY <1>1, <1>3, OtherCacheSteps DEF OwnEntries
<1> QED BY <1>2, <1>3, <1>4, <1>5, <1>6, ReaderSteps

\* The name of the context is read, ...
LEMMA VersionsNameKeeps ==
  ASSUME CachesInv, NEW r \in Readers, VersionsName(r)
  PROVE  CachesInv'
<1>1. CachesTypeOK /\ KeyTypeOK /\ ReaderOK(r) /\ OwnEntries
  BY DEF CachesInv
<1>2. step[r] = "naming" /\ cache[r] = "versions" /\ asks[r] \in Served /\ asks[r] \in since[r]
  BY <1>1 DEF VersionsName, ReaderOK, VersionsPath, Busy
<1>3. CachesTypeOK' /\ KeyTypeOK'
  BY <1>1 DEF VersionsName, Go, switch, stores, CachesTypeOK, KeyTypeOK, Keys
<1>4. /\ StepOf(r) /\ UNCHANGED <<configs, groups, versions, results>>
      /\ step'[r] = "looking" /\ cache'[r] = "versions" /\ key'[r] = now
      /\ torn' = {} => torn = {} /\ now = asks[r]
      /\ asks'[r] = asks[r] /\ since'[r] = since[r] /\ runs'[r] = runs[r]
      /\ writes'[r] = writes[r]
  BY <1>1, <1>2 DEF VersionsName, Go, switch, stores, StepOf, CachesTypeOK, KeyTypeOK
<1>5. HelmPath(r)' /\ VersionsPath(r)' /\ ResultsPath(r)' /\ Honest(r)'
  BY <1>1, <1>2, <1>4 DEF HelmPath, VersionsPath, ResultsPath, Honest, CachesTypeOK
<1>6. TriedOnce(r)'
  BY <1>1, <1>2, <1>4 DEF ReaderOK, TriedOnce
<1>7. OwnEntries' /\ ResultsHeld'
  BY <1>1, <1>4, OtherCacheSteps DEF OwnEntries
<1> QED BY <1>3, <1>4, <1>5, <1>6, <1>7, ReaderSteps

\* ... the cache is looked up, ...
LEMMA VersionsLookupKeeps ==
  ASSUME CachesInv, NEW r \in Readers, VersionsLookup(r)
  PROVE  CachesInv'
<1>1. CachesTypeOK /\ KeyTypeOK /\ ReaderOK(r) /\ OwnEntries
  BY DEF CachesInv
<1>2. /\ step[r] = "looking" /\ cache[r] = "versions" /\ key[r] \in Served
      /\ asks[r] \in Served /\ asks[r] \in since[r] /\ (torn = {} => key[r] = asks[r])
  BY <1>1 DEF VersionsLookup, ReaderOK, VersionsPath, Busy
<1>3. torn = {} /\ versions[key[r]] # None => versions[key[r]] = asks[r]
  BY <1>1, <1>2 DEF OwnEntries
<1>4. /\ StepOf(r) /\ UNCHANGED <<configs, groups, versions, results, torn>>
      /\ \/ step'[r] = "done" /\ got'[r] = versions[key[r]] /\ versions[key[r]] # None
         \/ step'[r] = "listing"
      /\ cache'[r] = "versions" /\ key'[r] = key[r] /\ asks'[r] = asks[r]
      /\ since'[r] = since[r] /\ runs'[r] = runs[r] /\ writes'[r] = writes[r]
  BY <1>1, <1>2 DEF VersionsLookup, Finish, Go, switch, stores, StepOf, CachesTypeOK
<1>5. CachesTypeOK' /\ KeyTypeOK'
  BY <1>1, <1>2 DEF VersionsLookup, Finish, Go, switch, stores, CachesTypeOK, KeyTypeOK, Sources
<1>6. HelmPath(r)' /\ VersionsPath(r)' /\ ResultsPath(r)'
  BY <1>2, <1>4 DEF HelmPath, VersionsPath, ResultsPath, Busy
<1>7. TriedOnce(r)' /\ Honest(r)'
  BY <1>1, <1>2, <1>3, <1>4 DEF ReaderOK, TriedOnce, Honest, Busy
<1>8. OwnEntries' /\ ResultsHeld'
  BY <1>1, <1>4, OtherCacheSteps DEF OwnEntries
<1> QED BY <1>4, <1>5, <1>6, <1>7, <1>8, ReaderSteps

\* ... the server is asked on a miss, ...
LEMMA ServerGroupsKeeps ==
  ASSUME CachesInv, NEW r \in Readers, ServerGroups(r)
  PROVE  CachesInv'
<1> DEFINE list == IF groups[key[r]] # None THEN groups[key[r]] ELSE asks[r]
<1>1. CachesTypeOK /\ KeyTypeOK /\ ReaderOK(r) /\ OwnEntries
  BY DEF CachesInv
<1>2. /\ step[r] = "listing" /\ cache[r] = "versions" /\ key[r] \in Served
      /\ asks[r] \in Served /\ asks[r] \in since[r] /\ (torn = {} => key[r] = asks[r])
  BY <1>1 DEF ServerGroups, ReaderOK, HelmPath, VersionsPath, ResultsPath, TriedOnce, Busy
<1>3. list \in Served /\ (torn = {} => list = asks[r])
  BY <1>1, <1>2 DEF OwnEntries, CachesTypeOK
<1>4. /\ StepOf(r) /\ UNCHANGED <<configs, versions, results, torn>>
      /\ groups' \in {groups, [groups EXCEPT ![key[r]] = list]}
      /\ \/ step'[r] = "done" /\ got'[r] = None
         \/ step'[r] = "storing" /\ got'[r] = list
      /\ cache'[r] = "versions" /\ key'[r] = key[r] /\ asks'[r] = asks[r]
      /\ since'[r] = since[r] /\ runs'[r] = runs[r] /\ writes'[r] = writes[r]
  BY <1>1, <1>2 DEF ServerGroups, Finish, Go, switch, StepOf, CachesTypeOK
<1>5. CachesTypeOK' /\ KeyTypeOK'
  BY <1>1, <1>3 DEF ServerGroups, Finish, Go, switch, CachesTypeOK, KeyTypeOK, Sources
<1> HIDE DEF list
<1>6. HelmPath(r)' /\ VersionsPath(r)' /\ ResultsPath(r)'
  BY <1>2, <1>3, <1>4 DEF HelmPath, VersionsPath, ResultsPath, Busy
<1>7. TriedOnce(r)' /\ Honest(r)'
  BY <1>1, <1>2, <1>4 DEF ReaderOK, TriedOnce, Honest, Busy
<1>8. OwnEntries' /\ ResultsHeld'
  BY <1>1, <1>2, <1>3, <1>4, OtherCacheSteps DEF OwnEntries, CachesTypeOK
<1> QED BY <1>4, <1>5, <1>6, <1>7, <1>8, ReaderSteps

\* ... and its answer stored.
LEMMA VersionsStoreKeeps ==
  ASSUME CachesInv, NEW r \in Readers, VersionsStore(r)
  PROVE  CachesInv'
<1> DEFINE held == IF versions[key[r]] # None THEN versions[key[r]] ELSE got[r]
<1>1. CachesTypeOK /\ KeyTypeOK /\ ReaderOK(r) /\ OwnEntries
  BY DEF CachesInv
<1>2. /\ step[r] = "storing" /\ cache[r] = "versions" /\ key[r] \in Served
      /\ asks[r] \in since[r] /\ got[r] \in Served
      /\ torn = {} => key[r] = asks[r] /\ got[r] = asks[r]
  BY <1>1 DEF VersionsStore, ReaderOK, VersionsPath, Busy
<1>3. held \in Served /\ (torn = {} => held = asks[r])
  BY <1>1, <1>2 DEF OwnEntries, CachesTypeOK
<1>4. /\ StepOf(r) /\ UNCHANGED <<configs, groups, results, torn>>
      /\ versions' = [versions EXCEPT ![key[r]] = held]
      /\ step'[r] = "done" /\ got'[r] = held /\ cache'[r] = "versions"
      /\ since'[r] = since[r] /\ runs'[r] = runs[r] /\ writes'[r] = writes[r]
  BY <1>1, <1>2 DEF VersionsStore, Finish, Go, switch, StepOf, CachesTypeOK
<1>5. CachesTypeOK' /\ KeyTypeOK'
  BY <1>1, <1>3 DEF VersionsStore, Finish, Go, switch, CachesTypeOK, KeyTypeOK, Sources
<1> HIDE DEF held
<1>6. HelmPath(r)' /\ VersionsPath(r)' /\ ResultsPath(r)'
  BY <1>4 DEF HelmPath, VersionsPath, ResultsPath, Busy
<1>7. TriedOnce(r)' /\ Honest(r)'
  BY <1>1, <1>2, <1>3, <1>4 DEF ReaderOK, TriedOnce, Honest, Busy
<1>8. OwnEntries' /\ ResultsHeld'
  BY <1>1, <1>2, <1>3, <1>4, OtherCacheSteps DEF OwnEntries, CachesTypeOK
<1> QED BY <1>4, <1>5, <1>6, <1>7, <1>8, ReaderSteps

\* Query results
LEMMA ResultsBeginKeeps ==
  ASSUME CachesInv, NEW r \in Readers, ResultsBegin(r)
  PROVE  CachesInv'
<1>1. CachesTypeOK /\ KeyTypeOK /\ ReaderOK(r) /\ OwnEntries
  BY DEF CachesInv
<1> DEFINE k0 == [gen |-> generation, url |-> AutoUrl]
<1>2. k0 \in PromKey /\ k0.gen = generation
  BY <1>1 DEF PromKey, CachesTypeOK
<1> HIDE DEF k0
<1>3. /\ StepOf(r) /\ UNCHANGED <<configs, groups, versions, results, torn>>
      /\ step[r] = "idle" /\ step'[r] = "naming" /\ cache'[r] = "results" /\ key'[r] = k0
      /\ since'[r] = {Current(c, url) : c \in SeenNow}
      /\ runs'[r] = runs[r] /\ writes'[r] = writes[r]
  BY <1>1 DEF ResultsBegin, Begin, Go, switch, stores, StepOf, SeenNow, CachesTypeOK, KeyTypeOK, k0
<1>4. CachesTypeOK' /\ KeyTypeOK'
  <2>1. since' \in [Readers -> SUBSET Sources]
    BY <1>1 DEF ResultsBegin, Begin, CachesTypeOK, Current, Sources
  <2>2. key' \in [Readers -> Keys \cup {None}]
    BY <1>1, <1>2 DEF ResultsBegin, KeyTypeOK, Keys, k0
  <2> QED BY <1>1, <2>1, <2>2 DEF ResultsBegin, Begin, Go, switch, stores, CachesTypeOK, KeyTypeOK
<1>5. Current(now, url) \in since'[r]
  BY <1>3 DEF SeenNow
<1>6. HelmPath(r)' /\ VersionsPath(r)' /\ ResultsPath(r)' /\ Honest(r)'
  BY <1>1, <1>2, <1>3, <1>5
     DEF HelmPath, VersionsPath, ResultsPath, Honest, StepOf, CachesTypeOK, Current
<1>7. TriedOnce(r)'
  BY <1>1, <1>3 DEF ReaderOK, TriedOnce
<1>8. ResultsHeld'
  <2>1. ASSUME NEW k \in PromKey, NEW s \in Sources, HoldsResult(k, s)' PROVE HoldsResult(k, s)
    BY <1>3, <2>1 DEF HoldsResult, StepOf
  <2>2. ASSUME NEW k \in PromKey, NEW s \in Sources, HoldsResult(k, s) PROVE ResultFor(r, k, s)'
    <3>1. ResultsNow(k, s)
      BY <2>2 DEF CachesInv, ResultsHeld
    <3> QED BY <1>2, <1>3, <3>1 DEF ResultFor, ResultsNow
  <2> QED BY <1>3, <2>1, <2>2, ResultsStay
<1>9. OwnEntries'
  BY <1>1, <1>3 DEF OwnEntries
<1> QED BY <1>3, <1>4, <1>6, <1>7, <1>8, <1>9, ReaderSteps

\* The URL and generation are read, ...
LEMMA ResultsNameKeeps ==
  ASSUME CachesInv, NEW r \in Readers, ResultsName(r)
  PROVE  CachesInv'
<1>1. CachesTypeOK /\ KeyTypeOK /\ ReaderOK(r) /\ OwnEntries
  BY DEF CachesInv
<1>2. /\ step[r] = "naming" /\ cache[r] = "results" /\ key[r] \in PromKey
      /\ key[r].gen <= generation /\ Current(now, url) \in since[r]
  BY <1>1 DEF ResultsName, ReaderOK, ResultsPath, Busy
<1> DEFINE k1 == [gen |-> key[r].gen, url |-> url]
<1>3. k1 \in PromKey /\ k1.gen = key[r].gen /\ k1.url = url /\ [key[r] EXCEPT !.url = url] = k1
  BY <1>1, <1>2 DEF PromKey, CachesTypeOK
<1> HIDE DEF k1
<1>4. /\ StepOf(r) /\ UNCHANGED <<configs, groups, versions, results, torn>>
      /\ step'[r] = "looking" /\ cache'[r] = "results" /\ key'[r] = k1
      /\ since'[r] = since[r] /\ runs'[r] = runs[r] /\ writes'[r] = writes[r]
  BY <1>1, <1>2, <1>3 DEF ResultsName, Go, switch, stores, StepOf, CachesTypeOK, KeyTypeOK
<1>5. CachesTypeOK' /\ KeyTypeOK'
  BY <1>1, <1>3 DEF ResultsName, Go, switch, stores, CachesTypeOK, KeyTypeOK, Keys
<1>6. HelmPath(r)' /\ VersionsPath(r)' /\ ResultsPath(r)' /\ Honest(r)'
  BY <1>2, <1>3, <1>4 DEF HelmPath, VersionsPath, ResultsPath, Honest, StepOf, Current
<1>7. TriedOnce(r)'
  BY <1>1, <1>2, <1>4 DEF ReaderOK, TriedOnce
<1>8. ResultsHeld'
  <2>1. ASSUME NEW k \in PromKey, NEW s \in Sources, HoldsResult(k, s)' PROVE HoldsResult(k, s)
    BY <1>4, <2>1 DEF HoldsResult, StepOf
  <2>2. ASSUME NEW k \in PromKey, NEW s \in Sources, HoldsResult(k, s), k = k1
        PROVE  s \in since[r]
    <3>1. ResultFor(r, k, s) /\ k.gen = key[r].gen /\ k.url = url
      BY <1>3, <2>2 DEF CachesInv, ResultsHeld
    <3>2. s \in since[r] \/ (s = Manual /\ url = Manual)
      BY <1>2, <3>1 DEF ResultFor, Busy
    <3>3. url = Manual => Current(now, url) = Manual
      BY DEF Current, AutoUrl, Manual
    <3> QED BY <1>2, <3>2, <3>3
  <2>3. \A k \in PromKey, s \in Sources : HoldsResult(k, s) => ResultFor(r, k, s)'
    BY <1>4, <2>2 DEF ResultFor
  <2> QED BY <1>4, <2>1, <2>3, ResultsStay
<1>9. OwnEntries'
  BY <1>1, <1>4 DEF OwnEntries
<1> QED BY <1>4, <1>5, <1>6, <1>7, <1>8, <1>9, ReaderSteps

\* ... the cache and the flights are looked up, ...
LEMMA ResultsLookupKeeps ==
  ASSUME CachesInv, NEW r \in Readers, ResultsLookup(r)
  PROVE  CachesInv'
<1>1. CachesTypeOK /\ KeyTypeOK /\ ReaderOK(r) /\ OwnEntries
  BY DEF CachesInv
<1>2. step[r] = "looking" /\ cache[r] = "results" /\ key[r] \in PromKey
  BY <1>1 DEF ResultsLookup, ReaderOK, ResultsPath, Busy
<1>3. ASSUME NEW e \in results, e.key = key[r], e.source # None
      PROVE  e.source \in since[r]
  <2>1. e = [key |-> key[r], source |-> e.source] /\ e.source \in Sources
    BY <1>1, <1>3 DEF CachesTypeOK
  <2>2. HoldsResult(key[r], e.source)
    BY <2>1 DEF HoldsResult
  <2>3. ResultFor(r, key[r], e.source)
    BY <1>2, <2>1, <2>2 DEF CachesInv, ResultsHeld
  <2> QED BY <1>2, <2>3 DEF ResultFor, Busy
<1>4. /\ StepOf(r) /\ UNCHANGED <<configs, groups, versions, results, torn>>
      /\ \/ step'[r] = "done" /\ \E e \in results : e.key = key[r] /\ got'[r] = e.source
         \/ step'[r] \in {"lead", "joined"}
      /\ cache'[r] = "results" /\ key'[r] = key[r] /\ asks'[r] = asks[r]
      /\ since'[r] = since[r] /\ runs'[r] = runs[r] /\ writes'[r] = writes[r]
  <2>1. CASE Found(key[r]) # {}
    BY <1>1, <1>2, <2>1 DEF ResultsLookup, Found, Finish, Go, switch, StepOf, CachesTypeOK
  <2>2. CASE Found(key[r]) = {}
    BY <1>1, <1>2, <2>2 DEF ResultsLookup, Go, switch, StepOf, CachesTypeOK
  <2> QED BY <2>1, <2>2
<1>5. CachesTypeOK' /\ KeyTypeOK'
  <2>1. CASE Found(key[r]) # {}
    BY <1>1, <2>1 DEF ResultsLookup, Found, Finish, Go, switch, CachesTypeOK, KeyTypeOK
  <2>2. CASE Found(key[r]) = {}
    BY <1>1, <1>2, <2>2 DEF ResultsLookup, Go, switch, CachesTypeOK, KeyTypeOK
  <2> QED BY <2>1, <2>2
<1>6. HelmPath(r)' /\ VersionsPath(r)' /\ ResultsPath(r)'
  BY <1>1, <1>2, <1>4 DEF ReaderOK, HelmPath, VersionsPath, ResultsPath, Busy, StepOf, Current
<1>7. TriedOnce(r)' /\ Honest(r)'
  BY <1>1, <1>2, <1>3, <1>4 DEF ReaderOK, TriedOnce, Honest, Busy
<1>8. ResultsHeld'
  <2>1. ASSUME NEW k \in PromKey, NEW s \in Sources, HoldsResult(k, s)' PROVE HoldsResult(k, s)
    BY <1>4, <2>1 DEF HoldsResult, StepOf
  <2>2. ASSUME NEW k \in PromKey, NEW s \in Sources, HoldsResult(k, s) PROVE ResultFor(r, k, s)'
    <3>1. ResultFor(r, k, s)
      BY <2>2 DEF CachesInv, ResultsHeld
    <3> QED BY <1>2, <1>4, <3>1 DEF ResultFor, Busy
  <2> QED BY <1>4, <2>1, <2>2, ResultsStay
<1>9. OwnEntries'
  BY <1>1, <1>4 DEF OwnEntries
<1> QED BY <1>4, <1>5, <1>6, <1>7, <1>8, <1>9, ReaderSteps

\* ... the leader of a flight asks Prometheus, ...
LEMMA ResultFetchKeeps ==
  ASSUME CachesInv, NEW r \in Readers, Fetch(r)
  PROVE  CachesInv'
<1>1. CachesTypeOK /\ KeyTypeOK /\ ReaderOK(r) /\ OwnEntries
  BY DEF CachesInv
<1>2. /\ step[r] = "lead" /\ cache[r] = "results" /\ key[r] \in PromKey
      /\ key[r].gen <= generation /\ Current(now, url) \in since[r]
      /\ key[r].gen = generation /\ url = Manual => key[r].url = Manual
  BY <1>1 DEF Fetch, ReaderOK, HelmPath, VersionsPath, ResultsPath, TriedOnce, Busy
<1>3. /\ StepOf(r) /\ UNCHANGED <<configs, groups, versions, results, torn>>
      /\ step'[r] = "sent" /\ cache'[r] = "results" /\ key'[r] = key[r]
      /\ asks'[r] = Current(now, url)
      /\ since'[r] = since[r] /\ runs'[r] = runs[r] /\ writes'[r] = writes[r]
  BY <1>1, <1>2 DEF Fetch, Go, switch, stores, StepOf, CachesTypeOK
<1>4. CachesTypeOK' /\ KeyTypeOK'
  BY <1>1 DEF Fetch, Go, switch, stores, CachesTypeOK, KeyTypeOK, Sources, Current
<1>5. HelmPath(r)' /\ VersionsPath(r)' /\ ResultsPath(r)' /\ Honest(r)'
  BY <1>2, <1>3 DEF HelmPath, VersionsPath, ResultsPath, Honest, StepOf, Current
<1>6. TriedOnce(r)'
  BY <1>1, <1>2, <1>3 DEF ReaderOK, TriedOnce
<1>7. ResultsHeld'
  <2> SUFFICES ASSUME NEW k \in PromKey, NEW s \in Sources, HoldsResult(k, s)'
               PROVE  ResultsNow(k, s)' /\ \A q \in Readers : ResultFor(q, k, s)'
    BY DEF ResultsHeld
  <2>1. HoldsResult(k, s) \/ (k = key[r] /\ s = Current(now, url))
    BY <1>3 DEF HoldsResult, StepOf
  <2>2. CASE HoldsResult(k, s)
    <3>1. ResultsNow(k, s) /\ \A q \in Readers : ResultFor(q, k, s)
      BY <2>2 DEF CachesInv, ResultsHeld
    <3>2. ResultsNow(k, s)'
      BY <1>3, <3>1 DEF StepOf, ResultsNow, SeenNow, Current
    <3>3. ASSUME NEW q \in Readers PROVE ResultFor(q, k, s)'
      BY <1>2, <1>3, <3>1 DEF StepOf, ResultFor, Busy
    <3> QED BY <3>2, <3>3
  <2>3. CASE k = key[r] /\ s = Current(now, url)
    <3>1. ResultsNow(k, s)'
      BY <1>2, <1>3, <2>3 DEF StepOf, ResultsNow, SeenNow, Current
    <3>2. ASSUME NEW q \in Readers PROVE ResultFor(q, k, s)'
      <4>1. ReaderOK(q) /\ (Busy(q)' /\ cache'[q] = "results" => Busy(q) /\ cache[q] = "results")
            /\ since'[q] = since[q]
        BY <1>2, <1>3 DEF CachesInv, StepOf, Busy
      <4> QED BY <2>3, <4>1 DEF ResultFor, ReaderOK, ResultsPath
    <3> QED BY <3>1, <3>2
  <2> QED BY <2>1, <2>2, <2>3
<1>8. OwnEntries'
  BY <1>1, <1>3 DEF OwnEntries
<1> QED BY <1>3, <1>4, <1>5, <1>6, <1>7, <1>8, ReaderSteps

\* The answer goes to the leader and to everyone who joined it.
LEMMA AnsweredKeeps ==
  ASSUME CachesInv, NEW r \in Readers, Answered(r)
  PROVE  CachesInv'
<1>1. CachesTypeOK /\ KeyTypeOK /\ OwnEntries /\ \A q \in Readers : ReaderOK(q)
  BY DEF CachesInv
<1>2. step[r] = "sent" /\ cache[r] = "results"
  BY <1>1 DEF Answered, ReaderOK, HelmPath, VersionsPath, ResultsPath, TriedOnce, Busy
<1> DEFINE answered == {r} \cup {p \in Readers : step[p] = "joined" /\ key[p] = key[r]}
<1>3. PICK v \in {asks[r], None} :
        /\ got' = [p \in Readers |-> IF p \in answered THEN v ELSE got[p]]
        /\ step' = [p \in Readers |-> IF p \in answered THEN "storing" ELSE step[p]]
  BY DEF Answered
<1>4. UNCHANGED <<now, left, clearing, switched, configs, groups, versions, generation, url, urls,
                  results, cache, writes, asks, key, runs, since, torn>>
  BY DEF Answered, switch
<1>5. ASSUME NEW q \in Readers
      PROVE  \/ q \in answered /\ step'[q] = "storing" /\ got'[q] = v
                /\ step[q] \in {"sent", "joined"} /\ key[q] = key[r] /\ cache[q] = "results"
             \/ q \notin answered /\ step'[q] = step[q] /\ got'[q] = got[q]
  <2>1. q \in answered => step[q] \in {"sent", "joined"} /\ key[q] = key[r]
    BY <1>2
  <2>2. step[q] \in {"sent", "joined"} => cache[q] = "results"
    BY <1>1 DEF ReaderOK, HelmPath, VersionsPath, TriedOnce, Busy
  <2> QED BY <1>3, <2>1, <2>2
<1> HIDE DEF answered
<1>6. CachesTypeOK' /\ KeyTypeOK'
  <2>1. v \in Sources \cup {None}
    BY <1>1 DEF CachesTypeOK
  <2>2. flights' \subseteq flights
    BY DEF Answered
  <2> QED BY <1>1, <1>3, <1>4, <2>1, <2>2 DEF CachesTypeOK, KeyTypeOK
<1>7. ASSUME NEW q \in Readers PROVE ReaderOK(q)'
  <2>1. HelmPath(q)' /\ VersionsPath(q)' /\ ResultsPath(q)'
    BY <1>1, <1>4, <1>5 DEF ReaderOK, HelmPath, VersionsPath, ResultsPath, Busy, Current
  <2>2. TriedOnce(q)' /\ Honest(q)'
    BY <1>1, <1>4, <1>5 DEF ReaderOK, TriedOnce, Honest, Busy
  <2> QED BY <2>1, <2>2 DEF ReaderOK
<1>8. ResultsHeld'
  <2> SUFFICES ASSUME NEW k \in PromKey, NEW s \in Sources, HoldsResult(k, s)'
               PROVE  ResultsNow(k, s)' /\ \A q \in Readers : ResultFor(q, k, s)'
    BY DEF ResultsHeld
  <2>1. s # None
    BY CachesAssumption DEF Sources
  <2>2. HoldsResult(k, s)
    BY <1>2, <1>3, <1>4, <1>5, <2>1 DEF HoldsResult
  <2>3. ResultsNow(k, s) /\ \A q \in Readers : ResultFor(q, k, s)
    BY <2>2 DEF CachesInv, ResultsHeld
  <2>4. ResultsNow(k, s)'
    BY <1>4, <2>3 DEF ResultsNow, SeenNow, Current
  <2>5. ASSUME NEW q \in Readers PROVE ResultFor(q, k, s)'
    BY <1>4, <1>5, <2>3 DEF ResultFor, Busy
  <2> QED BY <2>4, <2>5
<1>9. OwnEntries'
  BY <1>1, <1>4 DEF OwnEntries
<1> QED BY <1>6, <1>7, <1>8, <1>9 DEF CachesInv

\* ... and stores what it was answered.
LEMMA ResultsStoreKeeps ==
  ASSUME CachesInv, NEW r \in Readers, ResultsStore(r)
  PROVE  CachesInv'
<1>1. CachesTypeOK /\ KeyTypeOK /\ ReaderOK(r) /\ OwnEntries
  BY DEF CachesInv
<1>2. step[r] = "storing" /\ cache[r] = "results" /\ key[r] \in PromKey /\ Busy(r)
  BY <1>1 DEF ResultsStore, ReaderOK, ResultsPath, Busy
<1>3. /\ StepOf(r) /\ UNCHANGED <<configs, groups, versions, torn>>
      /\ results' \subseteq results \cup {[key |-> key[r], source |-> got[r]]}
      /\ step'[r] = "done" /\ cache'[r] = "results" /\ key'[r] = key[r] /\ got'[r] = got[r]
      /\ since'[r] = since[r] /\ runs'[r] = runs[r] /\ writes'[r] = writes[r]
  BY <1>1, <1>2 DEF ResultsStore, Go, switch, StepOf, CachesTypeOK
<1>4. CachesTypeOK' /\ KeyTypeOK'
  <2>1. [key |-> key[r], source |-> got[r]] \in [key : PromKey, source : Sources \cup {None}]
    BY <1>1, <1>2 DEF CachesTypeOK
  <2> QED BY <1>1, <1>3, <2>1 DEF ResultsStore, Go, switch, CachesTypeOK, KeyTypeOK
<1>5. got[r] \in Sources => HoldsResult(key[r], got[r])
  BY <1>2 DEF HoldsResult
<1>6. Honest(r)'
  <2>1. ASSUME got[r] # None PROVE got[r] \in since[r]
    <3>1. got[r] \in Sources
      BY <1>1, <2>1 DEF CachesTypeOK
    <3>2. ResultFor(r, key[r], got[r])
      BY <1>2, <1>5, <3>1 DEF CachesInv, ResultsHeld
    <3> QED BY <1>2, <3>2 DEF ResultFor
  <2> QED BY <1>3, <2>1 DEF Honest
<1>7. HelmPath(r)' /\ VersionsPath(r)' /\ ResultsPath(r)' /\ TriedOnce(r)'
  BY <1>1, <1>2, <1>3 DEF ReaderOK, HelmPath, VersionsPath, ResultsPath, TriedOnce, Busy
<1>8. ResultsHeld'
  <2>1. ASSUME NEW k \in PromKey, NEW s \in Sources, HoldsResult(k, s)' PROVE HoldsResult(k, s)
    <3>1. CASE [key |-> k, source |-> s] \in results'
      BY <1>3, <1>5, <3>1 DEF HoldsResult
    <3>2. CASE [key |-> k, source |-> s] \notin results'
      BY <1>3, <2>1, <3>2 DEF HoldsResult, StepOf
    <3> QED BY <3>1, <3>2
  <2>2. \A k \in PromKey, s \in Sources : ResultFor(r, k, s)'
    BY <1>3 DEF ResultFor, Busy
  <2> QED BY <1>3, <2>1, <2>2, ResultsStay
<1>9. OwnEntries'
  BY <1>1, <1>3 DEF OwnEntries
<1> QED BY <1>3, <1>4, <1>6, <1>7, <1>8, <1>9, ReaderSteps

\* The manual URL, the switch and time
LEMMA SetManualURLKeeps ==
  ASSUME CachesInv, SetManualURL
  PROVE  CachesInv'
<1>1. CachesTypeOK /\ KeyTypeOK /\ OwnEntries
  BY DEF CachesInv
<1>2. /\ UNCHANGED <<now, left, clearing, configs, groups, versions, results, step, cache, writes,
                     asks, key, got, runs, torn>>
      /\ \/ url' \in {AutoUrl, Manual} /\ generation' = generation + 1
         \/ url' = AutoUrl /\ generation' = generation
      /\ since' = [q \in Readers |-> IF step[q] \in {"idle", "done"} THEN since[q]
                                     ELSE since[q] \cup {Current(now, url')}]
  BY DEF SetManualURL, Widen, switch
<1>3. CachesTypeOK' /\ KeyTypeOK'
  <2>1. since' \in [Readers -> SUBSET Sources]
    BY <1>1, <1>2 DEF CachesTypeOK, Current, Sources
  <2>2. urls' \in 0 .. MaxUrls /\ generation' \in Nat
    BY <1>1, <1>2, CachesAssumption DEF SetManualURL, CachesTypeOK
  <2> QED BY <1>1, <1>2, <2>1, <2>2 DEF SetManualURL, switch, CachesTypeOK, KeyTypeOK
<1>4. ASSUME NEW q \in Readers PROVE ReaderOK(q)'
  <2>1. ReaderOK(q) /\ since[q] \subseteq since'[q]
        /\ (Busy(q) => Current(now, url') \in since'[q])
    BY <1>2 DEF CachesInv, Busy
  <2>2. HelmPath(q)' /\ VersionsPath(q)' /\ TriedOnce(q)' /\ Honest(q)'
    BY <1>2, <2>1 DEF ReaderOK, HelmPath, VersionsPath, TriedOnce, Honest, Busy
  <2>3. ResultsPath(q)'
    <3> SUFFICES ASSUME Busy(q), cache[q] = "results" PROVE ResultsPath(q)'
      BY <1>2 DEF ResultsPath, Busy
    <3>1. key[q] \in PromKey /\ key[q].gen <= generation /\ key[q].gen \in Nat
      BY <2>1 DEF ReaderOK, ResultsPath, PromKey
    <3>2. key[q].gen <= generation' /\ (key[q].gen = generation' => url' = AutoUrl)
      BY <1>1, <1>2, <3>1 DEF CachesTypeOK
    <3> QED BY <1>2, <2>1, <3>1, <3>2 DEF ReaderOK, ResultsPath, Busy, Current, AutoUrl, Manual
  <2> QED BY <2>2, <2>3 DEF ReaderOK
<1>5. ResultsHeld'
  <2> SUFFICES ASSUME NEW k \in PromKey, NEW s \in Sources, HoldsResult(k, s)'
               PROVE  ResultsNow(k, s)' /\ \A q \in Readers : ResultFor(q, k, s)'
    BY DEF ResultsHeld
  <2>1. HoldsResult(k, s)
    BY <1>2 DEF HoldsResult
  <2>2. ResultsNow(k, s) /\ \A q \in Readers : ResultFor(q, k, s)
    BY <2>1 DEF CachesInv, ResultsHeld
  <2>3. ResultsNow(k, s)'
    <3>1. CASE generation' = generation + 1
      BY <1>1, <2>2, <3>1 DEF ResultsNow, CachesTypeOK, PromKey
    <3>2. CASE url' = AutoUrl /\ generation' = generation
      <4>1. url \in {AutoUrl, Manual} /\ url' # Manual /\ SeenNow' = SeenNow /\ SeenNow # {}
        BY <1>1, <1>2, <3>2 DEF CachesTypeOK, SeenNow, AutoUrl, Manual
      <4>2. CASE url = AutoUrl
        BY <2>2, <3>2, <4>1, <4>2 DEF ResultsNow
      <4>3. CASE url = Manual
        BY <2>2, <3>2, <4>1, <4>3 DEF ResultsNow, Current, AutoUrl, Manual
      <4> QED BY <4>1, <4>2, <4>3
    <3> QED BY <1>2, <3>1, <3>2
  <2>4. ASSUME NEW q \in Readers PROVE ResultFor(q, k, s)'
    <3>1. ResultFor(q, k, s) /\ since[q] \subseteq since'[q]
      BY <1>2, <2>2
    <3> QED BY <1>2, <3>1 DEF ResultFor, Busy
  <2> QED BY <2>3, <2>4
<1>6. OwnEntries'
  BY <1>1, <1>2 DEF OwnEntries
<1> QED BY <1>3, <1>4, <1>5, <1>6 DEF CachesInv

\* ... and so are the readers under way when a switch is committed.
LEMMA CommitContextKeeps ==
  ASSUME CachesInv, NEW c \in Served, CommitContext(c)
  PROVE  CachesInv'
<1>1. CachesTypeOK /\ KeyTypeOK /\ OwnEntries
  BY DEF CachesInv
<1>2. /\ UNCHANGED <<configs, groups, versions, generation, url, urls, results, flights,
                     step, cache, writes, asks, key, got, runs, torn>>
      /\ clearing = "nothing" /\ now' = c /\ left' = now /\ clearing' = "configs"
      /\ since' = [q \in Readers |-> IF step[q] \in {"idle", "done"} THEN since[q]
                                     ELSE since[q] \cup {c, Current(c, url)}]
  BY DEF CommitContext, stores
<1>3. CachesTypeOK' /\ KeyTypeOK'
  <2>1. since' \in [Readers -> SUBSET Sources]
    BY <1>1, <1>2 DEF CachesTypeOK, Current, Sources
  <2>2. switched' \in 0 .. MaxSwitches
    BY <1>1, CachesAssumption DEF CommitContext, CachesTypeOK
  <2> QED BY <1>1, <1>2, <2>1, <2>2 DEF CachesTypeOK, KeyTypeOK
<1>4. ASSUME NEW q \in Readers PROVE ReaderOK(q)'
  <2>1. ReaderOK(q) /\ since[q] \subseteq since'[q] /\ (Busy(q) => Current(c, url) \in since'[q])
    BY <1>2 DEF CachesInv, Busy
  <2>2. HelmPath(q)' /\ VersionsPath(q)' /\ TriedOnce(q)' /\ Honest(q)'
    BY <1>2, <2>1 DEF ReaderOK, HelmPath, VersionsPath, TriedOnce, Honest, Busy
  <2>3. ResultsPath(q)'
    BY <1>2, <2>1 DEF ReaderOK, ResultsPath, Busy, Current
  <2> QED BY <2>2, <2>3 DEF ReaderOK
<1>5. ResultsHeld'
  <2> SUFFICES ASSUME NEW k \in PromKey, NEW s \in Sources, HoldsResult(k, s)'
               PROVE  ResultsNow(k, s)' /\ \A q \in Readers : ResultFor(q, k, s)'
    BY DEF ResultsHeld
  <2>1. HoldsResult(k, s)
    BY <1>2 DEF HoldsResult
  <2>2. ResultsNow(k, s) /\ \A q \in Readers : ResultFor(q, k, s)
    BY <2>1 DEF CachesInv, ResultsHeld
  <2>3. ResultsNow(k, s)'
    BY <1>2, <2>2 DEF ResultsNow, SeenNow, Current
  <2>4. ASSUME NEW q \in Readers PROVE ResultFor(q, k, s)'
    BY <1>2, <2>2 DEF ResultFor, Busy
  <2> QED BY <2>3, <2>4
<1>6. OwnEntries'
  BY <1>1, <1>2 DEF OwnEntries
<1> QED BY <1>3, <1>4, <1>5, <1>6 DEF CachesInv

\* What takes entries away, and at most starts a new generation of results; the
\* switch is over only when it has.
LEMMA ClearKeeps ==
  ASSUME CachesInv, CachesTypeOK', UNCHANGED <<now, left, url, readers>>,
         \A c \in Served : /\ configs'[c] \in {configs[c], None}
                           /\ groups'[c] \in {groups[c], None}
                           /\ versions'[c] \in {versions[c], None},
         results' \subseteq results,
         \/ generation' = generation + 1
         \/ generation' = generation /\ SeenNow' = SeenNow
  PROVE  CachesInv'
<1>1. CachesTypeOK /\ KeyTypeOK /\ OwnEntries
  BY DEF CachesInv
<1>2. UNCHANGED <<now, left, url, step, cache, writes, asks, key, got, runs, since, torn>>
  BY DEF readers
<1>3. ASSUME NEW q \in Readers PROVE ReaderOK(q)'
  <2>1. ReaderOK(q)
    BY DEF CachesInv
  <2>2. HelmPath(q)' /\ VersionsPath(q)' /\ TriedOnce(q)' /\ Honest(q)'
    BY <1>2, <2>1 DEF ReaderOK, HelmPath, VersionsPath, TriedOnce, Honest, Busy
  <2>3. ResultsPath(q)'
    <3> SUFFICES ASSUME Busy(q), cache[q] = "results" PROVE ResultsPath(q)'
      BY <1>2 DEF ResultsPath, Busy
    <3>1. key[q] \in PromKey /\ key[q].gen <= generation /\ key[q].gen \in Nat
      BY <2>1 DEF ReaderOK, ResultsPath, PromKey
    <3>2. key[q].gen <= generation' /\ (key[q].gen = generation' => generation' = generation)
      BY <1>1, <3>1 DEF CachesTypeOK
    <3> QED BY <1>2, <2>1, <3>1, <3>2 DEF ReaderOK, ResultsPath, Busy, Current
  <2> QED BY <2>2, <2>3 DEF ReaderOK
<1>4. ResultsHeld'
  <2> SUFFICES ASSUME NEW k \in PromKey, NEW s \in Sources, HoldsResult(k, s)'
               PROVE  ResultsNow(k, s)' /\ \A q \in Readers : ResultFor(q, k, s)'
    BY DEF ResultsHeld
  <2>1. HoldsResult(k, s)
    BY <1>2 DEF HoldsResult
  <2>2. ResultsNow(k, s) /\ \A q \in Readers : ResultFor(q, k, s)
    BY <2>1 DEF CachesInv, ResultsHeld
  <2>3. ResultsNow(k, s)'
    <3>1. CASE generation' = generation + 1
      BY <1>1, <2>2, <3>1 DEF ResultsNow, CachesTypeOK, PromKey
    <3>2. CASE generation' = generation /\ SeenNow' = SeenNow
      BY <1>2, <2>2, <3>2 DEF ResultsNow
    <3> QED BY <3>1, <3>2
  <2>4. ASSUME NEW q \in Readers PROVE ResultFor(q, k, s)'
    BY <1>2, <2>2 DEF ResultFor, Busy
  <2> QED BY <2>3, <2>4
<1>5. OwnEntries'
  BY <1>1, <1>2 DEF OwnEntries
<1>6. KeyTypeOK'
  BY <1>1, <1>2 DEF KeyTypeOK
<1> QED BY <1>3, <1>4, <1>5, <1>6 DEF CachesInv

\* The caches are cleared one after the other after a switch, and results expire.
LEMMA ClearsKeep ==
  ASSUME CachesInv, ClearConfigs \/ ClearVersions \/ ClearResults \/ Expire
  PROVE  CachesInv'
<1>1. CachesTypeOK
  BY DEF CachesInv
<1>2. CASE ClearConfigs
  <2>1. CachesTypeOK' /\ SeenNow' = SeenNow
    BY <1>1, <1>2 DEF ClearConfigs, readers, CachesTypeOK, SeenNow
  <2> QED BY <1>2, <2>1, ClearKeeps DEF ClearConfigs
<1>3. CASE ClearVersions
  <2>1. CachesTypeOK' /\ SeenNow' = SeenNow
    BY <1>1, <1>3 DEF ClearVersions, readers, CachesTypeOK, SeenNow
  <2> QED BY <1>3, <2>1, ClearKeeps DEF ClearVersions
<1>4. CASE ClearResults
  <2>1. CachesTypeOK' /\ results' = {} /\ generation' = generation + 1
    BY <1>1, <1>4 DEF ClearResults, ClearCache, readers, CachesTypeOK
  <2> QED BY <1>4, <2>1, ClearKeeps DEF ClearResults
<1>5. CASE Expire
  <2>1. /\ \A c \in Served : /\ configs'[c] \in {configs[c], None}
                             /\ groups'[c] \in {groups[c], None}
                             /\ versions'[c] \in {versions[c], None}
        /\ results' \subseteq results
        /\ UNCHANGED <<switch, generation, url, readers>>
    BY <1>1, <1>5 DEF Expire, CachesTypeOK
  <2>2. CachesTypeOK'
    BY <1>1, <1>5 DEF Expire, switch, readers, CachesTypeOK
  <2>3. SeenNow' = SeenNow
    BY <2>1 DEF switch, SeenNow
  <2> QED BY <2>1, <2>2, <2>3, ClearKeeps DEF switch
<1> QED BY <1>2, <1>3, <1>4, <1>5

\* What requests are answered across a switch is of a cluster that was current
\* since they began, and a Helm operation that writes is run once: for any number
\* of readers, contexts, switches and changes of the Prometheus URL.
THEOREM CachesHold == CachesSpec => []CachesTrue
<1>1. CachesInit => CachesInv
  <2> SUFFICES ASSUME CachesInit PROVE CachesInv
    OBVIOUS
  <2>1. now \in Served /\ 0 \in 0 .. MaxSwitches /\ 0 \in 0 .. MaxUrls
    BY CachesAssumption DEF CachesInit
  <2>2. CachesTypeOK /\ KeyTypeOK
    BY <2>1 DEF CachesInit, CachesTypeOK, KeyTypeOK
  <2>3. \A q \in Readers : ReaderOK(q)
    BY DEF CachesInit, ReaderOK, HelmPath, VersionsPath, ResultsPath, TriedOnce, Honest, Busy
  <2>4. OwnEntries /\ ResultsHeld
    BY DEF CachesInit, OwnEntries, ResultsHeld, HoldsResult
  <2> QED BY <2>2, <2>3, <2>4 DEF CachesInv
<1>2. CachesInv /\ [CachesNext]_cachesVars => CachesInv'
  <2> SUFFICES ASSUME CachesInv, [CachesNext]_cachesVars PROVE CachesInv'
    OBVIOUS
  <2>1. ASSUME NEW r \in Readers,
               HelmBegin(r) \/ HelmLookup(r) \/ HelmBuild(r) \/ HelmRun(r)
        PROVE  CachesInv'
    BY <2>1, HelmBeginKeeps, HelmLookupKeeps, HelmBuildKeeps, HelmRunKeeps
  <2>2. ASSUME NEW r \in Readers,
               \/ VersionsBegin(r) \/ VersionsName(r) \/ VersionsLookup(r) \/ ServerGroups(r)
               \/ VersionsStore(r)
        PROVE  CachesInv'
    BY <2>2, VersionsBeginKeeps, VersionsNameKeeps, VersionsLookupKeeps, ServerGroupsKeeps,
       VersionsStoreKeeps
  <2>3. ASSUME NEW r \in Readers,
               \/ ResultsBegin(r) \/ ResultsName(r) \/ ResultsLookup(r) \/ Fetch(r)
               \/ Answered(r) \/ ResultsStore(r)
        PROVE  CachesInv'
    BY <2>3, ResultsBeginKeeps, ResultsNameKeeps, ResultsLookupKeeps, ResultFetchKeeps,
       AnsweredKeeps, ResultsStoreKeeps
  <2>4. CASE SetManualURL \/ ClearConfigs \/ ClearVersions \/ ClearResults \/ Expire
    BY <2>4, SetManualURLKeeps, ClearsKeep
  <2>5. ASSUME NEW c \in Served, CommitContext(c) PROVE CachesInv'
    BY <2>5, CommitContextKeeps
  <2>6. CASE UNCHANGED cachesVars
    <3>1. CachesTypeOK' /\ SeenNow' = SeenNow
      BY <2>6 DEF cachesVars, CachesInv, CachesTypeOK, SeenNow
    <3> QED BY <2>6, <3>1, ClearKeeps DEF cachesVars, readers
  <2> QED BY <2>1, <2>2, <2>3, <2>4, <2>5, <2>6 DEF CachesNext
<1>3. CachesInv => CachesTrue
  BY DEF CachesInv, CachesTrue, WritesRunOnce, NoForeignAnswer, ReaderOK, TriedOnce, Honest
<1> QED BY <1>1, <1>2, <1>3, PTL DEF CachesSpec

(***************************************************************************)
(* ResourceMaps: what the maps of the sidecar show of the cluster          *)
(***************************************************************************)

\* Versions of objects, notices of them, and the queues of the starts.
EventVersions == 0 .. MaxVersion
Notices == [obj : Keyed, type : {"add", "update", "delete"}, version : EventVersions,
            tombstone : BOOLEAN]
Queued == queue \in [MapStarts -> Seq(Notices)]

\* What a notice makes of the entry of its object.
Value(n) == IF n.type = "delete" THEN Gone ELSE n.version

\* A start that has not listed yet knows nothing and has told nothing.
Unlisted ==
  \A h \in MapStarts :
     (informer[h] \in {"none", "blocked", "started"} =>
        queue[h] = <<>> /\ known[h] = [o \in Keyed |-> Gone])
     /\ (h > starts => informer[h] = "none")

\* The last notice of an object in a queue tells what the start knows of it.
Tells(q, kn) ==
  \A i \in 1 .. Len(q) :
     (\A j \in i + 1 .. Len(q) : q[j].obj # q[i].obj) => Value(q[i]) = kn[q[i].obj]

\* An object no notice speaks of is in the maps as the start knows it.
Quiet(q, kn, map, doubted) ==
  \A o \in Keyed :
     (\A i \in 1 .. Len(q) : q[i].obj # o) =>
        map[o] = kn[o] \/ o \in doubted \/ (o \in Events /\ map[o] = Gone)

\* The start that runs and has listed: its queue tells what it knows, and what it has
\* nothing queued of is in the maps as it knows it, but for objects in doubt.
Following ==
  starts > 0 /\ informer[starts] = "listed" =>
     /\ Tells(queue[starts], known[starts])
     /\ Quiet(queue[starts], known[starts], entries, unseen \cup late)

\* The inductive invariant of the maps.
MapsInv == MapsTypeOK /\ Queued /\ Unlisted /\ Following /\ EventsExplained

\* A set of natural numbers that is not empty has a least element.
LEMMA SmallestOfNat ==
  ASSUME NEW S \in SUBSET Nat, S # {}
  PROVE  \E e \in S : \A f \in S : e <= f
<1> DEFINE Below(x) == {y \in S : y < x}
           T == {Below(x) : x \in S}
<1>0. \A z \in S : z \in Nat
  OBVIOUS
<1>1. T \subseteq FiniteSubsetsOf(Nat) /\ T # {}
  <2>1. ASSUME NEW x \in S PROVE Below(x) \in FiniteSubsetsOf(Nat)
    <3>0. ASSUME NEW y \in Below(x) PROVE y \in 0 .. x /\ y \in Nat
      <4>1. y \in S /\ y < x
        BY <3>0
      <4>2. y \in Nat /\ x \in Nat
        BY <4>1, <1>0
      <4> QED BY <4>1, <4>2, SMT
    <3>1. Below(x) \subseteq 0 .. x /\ Below(x) \subseteq Nat
      BY <3>0, Zenon
    <3>2. IsFiniteSet(0 .. x)
      BY FS_Interval
    <3> QED BY <3>1, <3>2, FS_Subset DEF FiniteSubsetsOf
  <2> QED BY <2>1
<1>2. PICK U \in T : \A V \in T : <<V, U>> \notin StrictSubsetOrdering(Nat)
  BY <1>1, FS_StrictSubsetOrderingWellFounded, WFMin
<1>3. PICK x \in S : U = Below(x)
  OBVIOUS
<1>4. ASSUME NEW y \in S, y < x PROVE FALSE
  <2>1. Below(y) \subseteq U /\ y \in U /\ y \notin Below(y)
    <3>1. y \in Nat /\ x \in Nat
      BY <1>0
    <3>2. ~(y < y)
      BY <3>1, SMT
    <3>3. ASSUME NEW z \in Below(y) PROVE z \in Below(x)
      <4>1. z \in S /\ z < y
        BY <3>3
      <4>2. z < x
        BY <4>1, <3>1, <1>0, <1>4
      <4> QED BY <4>1, <4>2
    <3>4. y \in Below(x) /\ y \notin Below(y)
      BY <1>4, <3>2
    <3> QED BY <1>3, <3>3, <3>4
  <2>2. U \subseteq Nat
    BY <1>0, <1>3
  <2>3. <<Below(y), U>> \in StrictSubsetOrdering(Nat)
    BY <2>1, <2>2 DEF StrictSubsetOrdering
  <2>4. Below(y) \in T
    OBVIOUS
  <2> QED BY <1>2, <2>3, <2>4
<1> QED BY <1>0, <1>4

\* SetToSeq of a finite set numbers its elements.
LEMMA SetToSeqIn ==
  ASSUME NEW S, IsFiniteSet(S)
  PROVE  SetToSeq(S) \in [1 .. Cardinality(S) -> S]
<1>1. PICK f : f \in Bijection(1 .. Cardinality(S), S)
  BY FS_CardinalityType DEF ExistsBijection
<1>2. f \in [1 .. Cardinality(S) -> S] /\ IsInjective(f)
  BY <1>1 DEF Bijection, Injection, IsInjective
<1> QED BY <1>2 DEF SetToSeq

\* Each of SetToSeqs of a finite set has all its elements.
LEMMA SetToSeqsOnto ==
  ASSUME NEW S, IsFiniteSet(S), NEW f \in SetToSeqs(S)
  PROVE  /\ Cardinality(S) \in Nat
         /\ f \in [1 .. Cardinality(S) -> S]
         /\ \A x \in S : \E i \in 1 .. Cardinality(S) : f[i] = x
<1> DEFINE n == Cardinality(S)
<1>1. n \in Nat
  BY FS_CardinalityType
<1>2. f \in [1 .. n -> S] /\ f \in Injection(1 .. n, S)
  BY DEF SetToSeqs, Injection, IsInjective
<1>3. Cardinality(1 .. n) = n
  BY <1>1, FS_Interval
<1>4. f \in Surjection(1 .. n, S)
  BY <1>2, <1>3, FS_Injection
<1> QED BY <1>1, <1>2, <1>4 DEF Surjection

\* A queue goes on to tell what is known when notices of all that has changed are
\* put behind it, ...
LEMMA TellsOn ==
  ASSUME NEW q \in Seq(Notices), NEW r \in Seq(Notices), NEW kn, NEW kn2,
         Tells(q, kn),
         \A i \in 1 .. Len(r) : Value(r[i]) = kn2[r[i].obj],
         \A o \in Keyed : kn2[o] = kn[o] \/ \E i \in 1 .. Len(r) : r[i].obj = o
  PROVE  q \o r \in Seq(Notices) /\ Tells(q \o r, kn2)
<1> DEFINE s == q \o r
<1>1. /\ s \in Seq(Notices) /\ Len(s) = Len(q) + Len(r)
      /\ \A i \in 1 .. Len(q) : s[i] = q[i]
      /\ \A i \in 1 .. Len(r) : s[Len(q) + i] = r[i]
      /\ Len(q) \in Nat /\ Len(r) \in Nat
  BY ConcatProperties, LenProperties
<1> HIDE DEF s
<1>2. ASSUME NEW i \in 1 .. Len(s), \A j \in i + 1 .. Len(s) : s[j].obj # s[i].obj
      PROVE  Value(s[i]) = kn2[s[i].obj]
  <2>1. CASE i <= Len(q)
    <3>1. s[i] = q[i] /\ q[i] \in Notices
      BY <1>1, <2>1, ElementOfSeq
    <3>2. \A j \in 1 .. Len(r) : r[j].obj # q[i].obj
      <4>1. ASSUME NEW j \in 1 .. Len(r) PROVE r[j].obj # q[i].obj
        <5>1. Len(q) + j \in i + 1 .. Len(s)
          BY <1>1, <2>1
        <5> QED BY <5>1, <1>1, <1>2, <3>1
      <4> QED BY <4>1
    <3>3. \A j \in i + 1 .. Len(q) : q[j].obj # q[i].obj
      <4>1. ASSUME NEW j \in i + 1 .. Len(q) PROVE q[j].obj # q[i].obj
        <5>1. j \in i + 1 .. Len(s) /\ j \in 1 .. Len(q)
          BY <1>1, <2>1
        <5> QED BY <5>1, <1>1, <1>2, <3>1
      <4> QED BY <4>1
    <3>4. Value(q[i]) = kn[q[i].obj]
      BY <3>3, <2>1, <1>1 DEF Tells
    <3>5. q[i].obj \in Keyed
      BY <3>1 DEF Notices
    <3> QED BY <3>1, <3>2, <3>4, <3>5
  <2>2. CASE i > Len(q)
    <3>1. i - Len(q) \in 1 .. Len(r) /\ s[i] = r[i - Len(q)]
      BY <1>1, <2>2
    <3> QED BY <3>1
  <2> QED BY <2>1, <2>2, <1>1
<1> QED BY <1>1, <1>2 DEF Tells, s


\* ... and what is not queued stays as it is in the map.
LEMMA QuietOn ==
  ASSUME NEW q \in Seq(Notices), NEW r \in Seq(Notices), NEW kn, NEW kn2, NEW map, NEW doubted,
         Quiet(q, kn, map, doubted),
         \A o \in Keyed : kn2[o] = kn[o] \/ \E i \in 1 .. Len(r) : r[i].obj = o
  PROVE  Quiet(q \o r, kn2, map, doubted)
<1> DEFINE s == q \o r
<1>1. /\ Len(s) = Len(q) + Len(r)
      /\ \A i \in 1 .. Len(q) : s[i] = q[i]
      /\ \A i \in 1 .. Len(r) : s[Len(q) + i] = r[i]
      /\ Len(q) \in Nat /\ Len(r) \in Nat
  BY ConcatProperties, LenProperties
<1> HIDE DEF s
<1>2. ASSUME NEW o \in Keyed, \A i \in 1 .. Len(s) : s[i].obj # o
      PROVE  map[o] = kn2[o] \/ o \in doubted \/ (o \in Events /\ map[o] = Gone)
  <2>1. \A i \in 1 .. Len(q) : q[i].obj # o
    BY <1>1, <1>2
  <2>2. ASSUME NEW i \in 1 .. Len(r) PROVE r[i].obj # o
    <3>1. Len(q) + i \in 1 .. Len(s)
      BY <1>1
    <3> QED BY <3>1, <1>1, <1>2
  <2>3. kn2[o] = kn[o]
    BY <2>2
  <2> QED BY <2>1, <2>3 DEF Quiet
<1> QED BY <1>2 DEF Quiet, s

\* What is queued after an index has changed.
LEMMA NotifyTells ==
  ASSUME MapsTypeOK, NEW h \in MapStarts, NEW o \in Keyed, NEW t \in BOOLEAN
  PROVE  /\ Notify(h, o, t) \in Notices
         /\ Notify(h, o, t).obj = o
         /\ Value(Notify(h, o, t)) = cluster[o]
  BY DEF MapsTypeOK, Notify, Notices, Value, EventVersions, Gone

\* An informer lists, ...
LEMMA ListKeeps ==
  ASSUME MapsInv, List
  PROVE  MapsInv'
<1> DEFINE h == starts
           D == Differs(h)
<1>1. starts \in MapStarts /\ D \subseteq Keyed /\ IsFiniteSet(D)
  <2>1. IsFiniteSet(Keyed)
    BY MapsAssumption, FS_Union DEF Keyed
  <2>2. D \subseteq Keyed
    BY DEF Differs
  <2> QED BY <2>1, <2>2, FS_Subset DEF List, MapsInv, MapsTypeOK, MapStarts
<1>2. PICK f \in SetToSeqs(D) :
        queue' = [queue EXCEPT ![h] = @ \o [i \in DOMAIN f |-> Notify(h, f[i], TRUE)]]
  BY DEF List
<1> DEFINE r == [i \in DOMAIN f |-> Notify(h, f[i], TRUE)]
           n == Cardinality(D)
<1>3. n \in Nat /\ f \in [1 .. n -> D] /\ \A o \in D : \E i \in 1 .. n : f[i] = o
  BY <1>1, SetToSeqsOnto
<1>4. /\ r \in Seq(Notices) /\ Len(r) = n
      /\ \A i \in 1 .. n : r[i].obj = f[i] /\ Value(r[i]) = cluster[f[i]]
  <2>1. \A i \in 1 .. n : /\ r[i] \in Notices
                          /\ r[i].obj = f[i] /\ Value(r[i]) = cluster[f[i]]
    BY <1>1, <1>3, NotifyTells DEF MapsInv
  <2>2. r \in [1 .. n -> Notices]
    BY <2>1, <1>3
  <2> HIDE DEF r
  <2>3. r \in Seq(Notices)
    BY <2>2, <1>3, SeqDef
  <2>4. Len(r) = n
    BY <2>2, <2>3, <1>3, LenProperties
  <2> QED BY <2>1, <2>3, <2>4
<1>5. /\ queue[h] \in Seq(Notices)
      /\ queue' = [queue EXCEPT ![h] = queue[h] \o r]
      /\ known' = [known EXCEPT ![h] = cluster]
      /\ informer' = [informer EXCEPT ![h] = "listed"]
      /\ UNCHANGED <<cluster, made, starts, refused, entries, resyncs, late, returned>>
  BY <1>1, <1>2 DEF MapsInv, Queued, List
<1> HIDE DEF r, n
<1>6. \A o \in Keyed : cluster[o] = known[h][o] \/ \E i \in 1 .. Len(r) : r[i].obj = o
  BY <1>3, <1>4 DEF Differs
<1>7. Tells(queue[h], known[h])
  <2>1. CASE informer[h] = "listed"
    BY <2>1, <1>1 DEF MapsInv, Following, MapStarts
  <2>2. CASE informer[h] = "started"
    <3>1. queue[h] = <<>>
      BY <2>2, <1>1 DEF MapsInv, Unlisted
    <3> QED BY <3>1 DEF Tells
  <2> QED BY <2>1, <2>2 DEF List
<1>8. queue[h] \o r \in Seq(Notices) /\ Tells(queue[h] \o r, cluster)
  <2>1. \A i \in 1 .. Len(r) : Value(r[i]) = cluster[r[i].obj]
    BY <1>4
  <2>2. r \in Seq(Notices) /\ queue[h] \in Seq(Notices)
    BY <1>4, <1>5
  <2> QED BY <2>1, <2>2, <1>6, <1>7, TellsOn, Zenon
<1>9. Quiet(queue[h] \o r, cluster, entries, unseen' \cup late)
  <2>1. CASE informer[h] = "listed"
    <3>1. Quiet(queue[h], known[h], entries, unseen \cup late) /\ unseen' = unseen
      BY <2>1, <1>1 DEF MapsInv, Following, MapStarts, List
    <3>2. r \in Seq(Notices) /\ queue[h] \in Seq(Notices)
      BY <1>4, <1>5
    <3>3. Quiet(queue[h] \o r, cluster, entries, unseen \cup late)
      BY <3>1, <3>2, <1>6, QuietOn, Zenon
    <3> QED BY <3>1, <3>3
  <2>2. CASE informer[h] = "started"
    <3>1. known[h] = [o \in Keyed |-> Gone]
      BY <2>2, <1>1 DEF MapsInv, Unlisted
    <3>2. unseen' = unseen \cup {o \in Keyed : cluster[o] = Gone}
      BY <2>2 DEF List
    <3>3. ASSUME NEW o \in Keyed, \A i \in 1 .. Len(queue[h] \o r) : (queue[h] \o r)[i].obj # o
          PROVE  o \in unseen'
      <4>1. queue[h] = <<>>
        BY <2>2, <1>1 DEF MapsInv, Unlisted
      <4>2. queue[h] \o r = r
        BY <4>1, <1>4, ConcatEmptySeq
      <4> QED BY <4>2, <3>3, <3>1, <3>2, <1>6
    <3> QED BY <3>3 DEF Quiet
  <2> QED BY <2>1, <2>2 DEF List
<1>10. MapsTypeOK' /\ Queued'
  <2>1. unseen' \subseteq Keyed /\ known' \in [MapStarts -> [Keyed -> 0 .. MaxVersion]]
    BY <1>1, <1>5 DEF MapsInv, MapsTypeOK, List
  <2>2. Queued'
    BY <1>1, <1>5, <1>8 DEF MapsInv, Queued
  <2>3. \A k \in MapStarts : \A i \in DOMAIN queue'[k] : queue'[k][i] \in Notice
    <3>1. ASSUME NEW k \in MapStarts, NEW i \in DOMAIN queue'[k] PROVE queue'[k][i] \in Notices
      BY <2>2, LenProperties, ElementOfSeq DEF Queued
    <3> QED BY <3>1, MapsAssumption DEF Notices, Notice, EventVersions
  <2> QED BY <2>1, <2>2, <2>3, <1>1, <1>5 DEF MapsInv, MapsTypeOK
<1>11. Unlisted' /\ EventsExplained'
  BY <1>1, <1>5 DEF MapsInv, MapsTypeOK, Unlisted, EventsExplained, Held, Queued
<1>12. Following'
  BY <1>1, <1>5, <1>8, <1>9 DEF MapsInv, MapsTypeOK, Following, Queued
<1> QED BY <1>10, <1>11, <1>12 DEF MapsInv

\* ... hears of a change, ...
LEMMA WatchKeeps ==
  ASSUME MapsInv, NEW o \in Keyed, Watch(o)
  PROVE  MapsInv'
<1> DEFINE h == starts
           e == Notify(h, o, FALSE)
           q == queue[h]
           kn2 == [known[h] EXCEPT ![o] = cluster[o]]
<1>1. h \in MapStarts /\ q \in Seq(Notices) /\ known[h] \in [Keyed -> 0 .. MaxVersion]
  BY DEF Watch, MapsInv, MapsTypeOK, MapStarts, Queued
<1>2. e \in Notices /\ e.obj = o /\ Value(e) = cluster[o]
  BY <1>1, NotifyTells DEF MapsInv
<1>3. /\ queue' = [queue EXCEPT ![h] = Append(q, e)]
      /\ known' = [known EXCEPT ![h] = kn2]
      /\ informer[h] = "listed" /\ h > 0
      /\ UNCHANGED <<cluster, made, starts, informer, refused, entries, resyncs, unseen, late,
                     returned>>
  BY <1>1 DEF Watch
<1> HIDE DEF e
<1>4. Append(q, e) = q \o <<e>> /\ <<e>> \in Seq(Notices) /\ Len(<<e>>) = 1 /\ <<e>>[1] = e
  BY <1>1, <1>2, AppendIsConcat
<1>5. Tells(q, known[h]) /\ Quiet(q, known[h], entries, unseen \cup late)
  BY <1>3 DEF MapsInv, Following
<1>6. \A p \in Keyed : kn2[p] = known[h][p] \/ \E i \in 1 .. Len(<<e>>) : <<e>>[i].obj = p
  <2>1. ASSUME NEW p \in Keyed PROVE p = o \/ kn2[p] = known[h][p]
    BY <1>1
  <2>2. \E i \in 1 .. Len(<<e>>) : <<e>>[i].obj = o
    BY <1>2, <1>4
  <2> QED BY <2>1, <2>2
<1>7. \A i \in 1 .. Len(<<e>>) : Value(<<e>>[i]) = kn2[<<e>>[i].obj]
  BY <1>1, <1>2, <1>4
<1> HIDE DEF kn2
<1> DEFINE r == <<e>>
<1> HIDE DEF q, r
<1>8. Append(q, e) \in Seq(Notices) /\ Tells(Append(q, e), kn2)
  <2>1. q \o r \in Seq(Notices) /\ Tells(q \o r, kn2)
    BY <1>1, <1>4, <1>5, <1>6, <1>7, TellsOn DEF r
  <2> QED BY <2>1, <1>4 DEF r
<1>9. Quiet(Append(q, e), kn2, entries, unseen \cup late)
  <2>1. Quiet(q \o r, kn2, entries, unseen \cup late)
    BY <1>1, <1>4, <1>5, <1>6, QuietOn DEF r
  <2> QED BY <2>1, <1>4 DEF r
<1> USE DEF q
<1>10. MapsTypeOK' /\ Queued'
  <2>1. kn2 \in [Keyed -> 0 .. MaxVersion]
    BY <1>1 DEF kn2, MapsInv, MapsTypeOK
  <2>2. Queued'
    BY <1>1, <1>3, <1>8 DEF MapsInv, Queued
  <2>3. \A k \in MapStarts : \A i \in DOMAIN queue'[k] : queue'[k][i] \in Notice
    <3>1. ASSUME NEW k \in MapStarts, NEW i \in DOMAIN queue'[k] PROVE queue'[k][i] \in Notices
      BY <2>2, LenProperties, ElementOfSeq DEF Queued
    <3> QED BY <3>1, MapsAssumption DEF Notices, Notice, EventVersions
  <2> QED BY <2>1, <2>2, <2>3, <1>1, <1>3 DEF MapsInv, MapsTypeOK
<1>11. Unlisted' /\ EventsExplained'
  BY <1>1, <1>3 DEF MapsInv, MapsTypeOK, Unlisted, EventsExplained, Held, Queued
<1>12. Following'
  BY <1>1, <1>3, <1>8, <1>9 DEF MapsInv, MapsTypeOK, Following, Queued
<1> QED BY <1>10, <1>11, <1>12 DEF MapsInv

\* ... or repeats all it knows.
LEMMA ResyncKeeps ==
  ASSUME MapsInv, Resync
  PROVE  MapsInv'
<1> DEFINE h == starts
           q == queue[h]
           H == {o \in Keyed : known[h][o] # Gone}
           f == SetToSeq(H)
           n == Cardinality(H)
           r == [i \in DOMAIN f |-> [obj |-> f[i], version |-> known[h][f[i]], type |-> "update",
                                     tombstone |-> FALSE]]
<1>1. h \in MapStarts /\ q \in Seq(Notices) /\ known[h] \in [Keyed -> 0 .. MaxVersion]
  <2>1. h \in MapStarts
    BY DEF Resync, MapsInv, MapsTypeOK, MapStarts
  <2> QED BY <2>1 DEF MapsInv, MapsTypeOK, Queued
<1>2. IsFiniteSet(H)
  <2>1. IsFiniteSet(Keyed)
    BY MapsAssumption, FS_Union DEF Keyed
  <2> QED BY <2>1, FS_Subset
<1>3. n \in Nat /\ f \in [1 .. n -> H]
  BY <1>2, SetToSeqIn, FS_CardinalityType
<1>4. /\ queue' = [queue EXCEPT ![h] = q \o r]
      /\ informer[h] = "listed" /\ h > 0
      /\ UNCHANGED <<cluster, made, starts, informer, refused, known, entries, unseen, late,
                     returned>>
  BY <1>1 DEF Resync
<1> HIDE DEF f, n
<1>5. /\ r \in Seq(Notices) /\ Len(r) = n
      /\ \A i \in 1 .. n : Value(r[i]) = known[h][r[i].obj]
  <2>1. \A i \in 1 .. n : r[i] \in Notices /\ Value(r[i]) = known[h][r[i].obj]
    BY <1>1, <1>3 DEF Notices, Value, EventVersions
  <2>2. r \in [1 .. n -> Notices]
    BY <2>1, <1>3
  <2> HIDE DEF r
  <2>3. r \in Seq(Notices)
    BY <2>2, <1>3, SeqDef
  <2>4. Len(r) = n
    BY <2>2, <2>3, <1>3, LenProperties
  <2> QED BY <2>1, <2>3, <2>4
<1> HIDE DEF r
<1>6. Tells(q, known[h]) /\ Quiet(q, known[h], entries, unseen \cup late)
  BY <1>4 DEF MapsInv, Following
<1>7. q \o r \in Seq(Notices) /\ Tells(q \o r, known[h])
  BY <1>1, <1>5, <1>6, TellsOn
<1>8. Quiet(q \o r, known[h], entries, unseen \cup late)
  BY <1>1, <1>5, <1>6, QuietOn
<1>9. MapsTypeOK' /\ Queued'
  <2>1. Queued'
    BY <1>1, <1>4, <1>7 DEF MapsInv, Queued
  <2>2. \A k \in MapStarts : \A i \in DOMAIN queue'[k] : queue'[k][i] \in Notice
    <3>1. ASSUME NEW k \in MapStarts, NEW i \in DOMAIN queue'[k] PROVE queue'[k][i] \in Notices
      BY <2>1, LenProperties, ElementOfSeq DEF Queued
    <3> QED BY <3>1, MapsAssumption DEF Notices, Notice, EventVersions
  <2> QED BY <2>1, <2>2, <1>1, <1>4 DEF MapsInv, MapsTypeOK
<1>10. Unlisted' /\ EventsExplained'
  BY <1>1, <1>4 DEF MapsInv, MapsTypeOK, Unlisted, EventsExplained, Held, Queued
<1>11. Following'
  BY <1>1, <1>4, <1>7, <1>8 DEF MapsInv, MapsTypeOK, Following, Queued
<1> QED BY <1>9, <1>10, <1>11 DEF MapsInv

\* One entry more, or one more in place of the oldest.
LEMMA HeldFinite ==
  ASSUME NEW map PROVE IsFiniteSet(Held(map)) /\ Cardinality(Held(map)) \in Nat
<1>1. Held(map) \subseteq Events
  BY DEF Held
<1> QED BY <1>1, MapsAssumption, FS_Subset, FS_CardinalityType

\* Handling a notice changes the entry of its object only, and grows the map by at
\* most one, not at all for an object that it holds or that is not an event.
LEMMA HandleGrows ==
  ASSUME NEW map \in [Keyed -> EventVersions], NEW n \in Notices
  PROVE  /\ Handle(map, n) \in [Keyed -> EventVersions]
         /\ Handle(map, n)[n.obj] = Value(n)
         /\ \A o \in Keyed : o # n.obj => Handle(map, n)[o] = map[o]
         /\ Cardinality(Held(Handle(map, n))) <= Cardinality(Held(map)) + 1
         /\ n.obj \notin Events \/ map[n.obj] # Gone \/ n.type = "delete" =>
              Cardinality(Held(Handle(map, n))) <= Cardinality(Held(map))
<1> DEFINE m == Handle(map, n)
<1>1. /\ m \in [Keyed -> EventVersions] /\ m[n.obj] = Value(n)
      /\ \A o \in Keyed : o # n.obj => m[o] = map[o]
  BY MapsAssumption DEF Handle, Value, Notices, EventVersions, Gone, Keyed
<1> HIDE DEF m
<1>2. Held(m) \subseteq Held(map) \cup {n.obj}
  BY <1>1 DEF Held, Keyed
<1>3. /\ IsFiniteSet(Held(map) \cup {n.obj})
      /\ Cardinality(Held(map) \cup {n.obj}) <= Cardinality(Held(map)) + 1
  BY HeldFinite, FS_AddElement
<1>4. Cardinality(Held(m)) <= Cardinality(Held(map) \cup {n.obj})
  BY <1>2, <1>3, FS_Subset
<1>5. Cardinality(Held(m)) <= Cardinality(Held(map)) + 1
  BY <1>3, <1>4, HeldFinite, FS_CardinalityType
<1>6. ASSUME n.obj \notin Events \/ map[n.obj] # Gone \/ n.type = "delete"
      PROVE  Cardinality(Held(m)) <= Cardinality(Held(map))
  <2>1. Held(m) \subseteq Held(map)
    BY <1>1, <1>6 DEF Held, Keyed, Value
  <2> QED BY <2>1, HeldFinite, FS_Subset
<1> QED BY <1>1, <1>5, <1>6 DEF m

\* The eviction leaves room for one more, unless the map is over the cap.
LEMMA EvictionMakesRoom ==
  ASSUME NEW map \in [Keyed -> EventVersions]
  PROVE  /\ EvictOldest(map) \in [Keyed -> EventVersions]
         /\ \A o \in Keyed : \/ EvictOldest(map)[o] = map[o]
                             \/ o \in Events /\ EvictOldest(map)[o] = Gone
         /\ \/ Cardinality(Held(EvictOldest(map))) < MaxEvents
            \/ Cardinality(Held(EvictOldest(map))) < Cardinality(Held(map))
<1> DEFINE m == EvictOldest(map)
           H == Held(map)
<1>1. /\ m \in [Keyed -> EventVersions]
      /\ \A o \in Keyed : m[o] = map[o] \/ (o \in Events /\ m[o] = Gone)
  BY MapsAssumption DEF EvictOldest, EventVersions, Gone, Held
<1>2. IsFiniteSet(H) /\ Cardinality(H) \in Nat /\ H \subseteq Nat /\ H \subseteq Keyed
  BY HeldFinite, MapsAssumption DEF Held, Keyed
<1>3. CASE Cardinality(H) < MaxEvents
  <2>1. m = map
    BY <1>3, <1>2, MapsAssumption DEF EvictOldest
  <2> QED BY <1>1, <1>3, <2>1
<1>4. CASE Cardinality(H) >= MaxEvents
  <2>1. H # {}
    BY <1>4, <1>2, MapsAssumption, FS_EmptySet
  <2>2. PICK e \in H : \A f \in H : e <= f
    BY <2>1, <1>2, SmallestOfNat
  <2>3. m[e] = Gone
    BY <2>2, <1>2, <1>4 DEF EvictOldest
  <2>4. Held(m) \subseteq H \ {e}
    BY <2>3, <1>1, <1>2 DEF Held, Keyed
  <2>5. IsFiniteSet(H \ {e}) /\ Cardinality(H \ {e}) = Cardinality(H) - 1
    BY <1>2, <2>2, FS_RemoveElement
  <2>6. Cardinality(Held(m)) <= Cardinality(H) - 1
    BY <2>4, <2>5, FS_Subset
  <2> QED BY <1>1, <1>2, <2>6, HeldFinite
<1> QED BY <1>1, <1>2, <1>3, <1>4, MapsAssumption

\* A notice reaches its handler.
LEMMA DeliverKeeps ==
  ASSUME MapsInv, NEW h \in MapStarts, Deliver(h)
  PROVE  MapsInv'
<1> DEFINE q == queue[h]
           n == Head(q)
           room == IF n.obj \in Events /\ n.type = "add" THEN EvictOldest(entries) ELSE entries
<1>1. /\ q \in Seq(Notices) /\ q # <<>> /\ entries \in [Keyed -> EventVersions]
      /\ starts \in Nat /\ returned \in Nat
  BY DEF Deliver, MapsInv, MapsTypeOK, Queued, EventVersions
<1>2. /\ n \in Notices /\ n = q[1] /\ Tail(q) \in Seq(Notices) /\ Len(q) \in Nat /\ Len(q) > 0
      /\ Len(Tail(q)) = Len(q) - 1
      /\ \A i \in 1 .. Len(q) - 1 : Tail(q)[i] = q[i + 1]
  BY <1>1, HeadTailProperties, EmptySeq
<1>3. /\ entries' = Handle(room, n)
      /\ queue' = [queue EXCEPT ![h] = Tail(q)]
      /\ late' = IF h # starts THEN late \cup {n.obj} ELSE late \ {n.obj}
      /\ unseen' = unseen \ {n.obj}
      /\ returned' = IF n.obj \in Events /\ n.type = "update" /\ entries[n.obj] = Gone
                     THEN returned + 1 ELSE returned
      /\ UNCHANGED <<cluster, made, starts, informer, refused, known, resyncs>>
  BY DEF Deliver, HandleEvent
<1> HIDE DEF n
<1>4. /\ room \in [Keyed -> EventVersions]
      /\ \A o \in Keyed : room[o] = entries[o] \/ (o \in Events /\ room[o] = Gone)
  BY <1>1, EvictionMakesRoom
<1> HIDE DEF room
<1>5. /\ entries' \in [Keyed -> EventVersions]
      /\ entries'[n.obj] = Value(n)
      /\ \A o \in Keyed : o # n.obj => entries'[o] = room[o]
  BY <1>2, <1>3, <1>4, HandleGrows
<1>6. n.obj \in Keyed
  BY <1>2 DEF Notices
<1>7. MapsTypeOK' /\ Queued'
  <2>1. Queued'
    BY <1>2, <1>3 DEF MapsInv, Queued
  <2>2. \A k \in MapStarts : \A i \in DOMAIN queue'[k] : queue'[k][i] \in Notice
    <3>1. ASSUME NEW k \in MapStarts, NEW i \in DOMAIN queue'[k] PROVE queue'[k][i] \in Notices
      BY <2>1, LenProperties, ElementOfSeq DEF Queued
    <3> QED BY <3>1, MapsAssumption DEF Notices, Notice, EventVersions
  <2>3. returned' \in Nat
    BY <1>1, <1>3
  <2>4. unseen' \subseteq Keyed /\ late' \subseteq Keyed
    BY <1>3, <1>6 DEF MapsInv, MapsTypeOK
  <2> QED BY <2>1, <2>2, <2>3, <2>4, <1>3, <1>5 DEF MapsInv, MapsTypeOK, EventVersions
<1>8. Unlisted'
  BY <1>1, <1>3 DEF MapsInv, Unlisted, Queued
<1>9. EventsExplained'
  <2> DEFINE held(map) == Cardinality(Held(map))
  <2>1. /\ held(entries) \in Nat /\ held(room) \in Nat /\ held(entries') \in Nat
        /\ held(entries) <= MaxEvents + returned
    BY HeldFinite DEF MapsInv, EventsExplained
  <2>2. /\ held(entries') <= held(room) + 1
        /\ n.obj \notin Events \/ room[n.obj] # Gone \/ n.type = "delete" =>
             held(entries') <= held(room)
    BY <1>2, <1>3, <1>4, HandleGrows
  <2> HIDE DEF held
  <2>3. CASE n.obj \in Events /\ n.type = "add"
    <3>1. room = EvictOldest(entries)
      BY <2>3 DEF room
    <3>2. held(room) < MaxEvents \/ held(room) < held(entries)
      BY <3>1, <1>1, EvictionMakesRoom DEF held
    <3>3. returned' = returned
      BY <2>3, <1>3
    <3>4. held(entries') <= MaxEvents + returned'
      BY <2>1, <2>2, <3>2, <3>3, <1>1, MapsAssumption
    <3> QED BY <3>4 DEF EventsExplained, held
  <2>4. CASE ~(n.obj \in Events /\ n.type = "add")
    <3>1. room = entries
      BY <2>4 DEF room
    <3>2. n.type \in {"add", "update", "delete"}
      BY <1>2 DEF Notices
    <3>3. CASE n.obj \in Events /\ n.type = "update" /\ entries[n.obj] = Gone
      <4>1. returned' = returned + 1
        BY <3>3, <1>3
      <4>2. held(entries') <= MaxEvents + returned'
        BY <2>1, <2>2, <3>1, <4>1, <1>1, MapsAssumption
      <4> QED BY <4>2 DEF EventsExplained, held
    <3>4. CASE ~(n.obj \in Events /\ n.type = "update" /\ entries[n.obj] = Gone)
      <4>1. returned' = returned
        BY <3>4, <1>3
      <4>2. n.obj \notin Events \/ room[n.obj] # Gone \/ n.type = "delete"
        BY <2>4, <3>1, <3>2, <3>4
      <4>3. held(entries') <= MaxEvents + returned'
        BY <2>1, <2>2, <3>1, <4>1, <4>2, <1>1, MapsAssumption
      <4> QED BY <4>3 DEF EventsExplained, held
    <3> QED BY <3>3, <3>4
  <2> QED BY <2>3, <2>4
<1>10. Following'
  <2> SUFFICES ASSUME starts > 0, informer[starts] = "listed"
               PROVE  /\ Tells(queue'[starts], known[starts])
                      /\ Quiet(queue'[starts], known[starts], entries', unseen' \cup late')
    BY <1>3 DEF Following
  <2>1. /\ Tells(queue[starts], known[starts])
        /\ Quiet(queue[starts], known[starts], entries, unseen \cup late)
        /\ starts \in MapStarts
    BY <1>1 DEF MapsInv, Following, MapsTypeOK, MapStarts
  <2>2. CASE h # starts
    <3>1. /\ queue'[starts] = queue[starts] /\ n.obj \in late'
          /\ unseen \cup late \subseteq unseen' \cup late'
      BY <2>1, <2>2, <1>3 DEF MapsInv, Queued
    <3>2. Quiet(queue[starts], known[starts], entries', unseen' \cup late')
      BY <2>1, <3>1, <1>4, <1>5 DEF Quiet
    <3> QED BY <2>1, <3>1, <3>2
  <2>3. CASE h = starts
    <3>1. queue'[starts] = Tail(q) /\ q = queue[starts]
      BY <2>1, <2>3, <1>3 DEF MapsInv, Queued
    <3>2. Tells(Tail(q), known[starts])
      <4>1. ASSUME NEW i \in 1 .. Len(Tail(q)),
                   \A j \in i + 1 .. Len(Tail(q)) : Tail(q)[j].obj # Tail(q)[i].obj
            PROVE  Value(Tail(q)[i]) = known[starts][Tail(q)[i].obj]
        <5>1. i + 1 \in 1 .. Len(q) /\ Tail(q)[i] = q[i + 1]
          BY <1>2
        <5>2. ASSUME NEW j \in i + 1 + 1 .. Len(q) PROVE q[j].obj # q[i + 1].obj
          <6>1. j - 1 \in i + 1 .. Len(Tail(q)) /\ Tail(q)[j - 1] = q[j]
            BY <1>2, <4>1
          <6> QED BY <6>1, <5>1, <4>1
        <5> QED BY <5>1, <5>2, <2>1, <3>1 DEF Tells
      <4> QED BY <4>1 DEF Tells
    <3>3. Quiet(Tail(q), known[starts], entries', unseen' \cup late')
      <4> SUFFICES ASSUME NEW o \in Keyed, \A i \in 1 .. Len(Tail(q)) : Tail(q)[i].obj # o
                   PROVE  \/ entries'[o] = known[starts][o]
                          \/ o \in unseen' \cup late'
                          \/ (o \in Events /\ entries'[o] = Gone)
        BY DEF Quiet
      <4>1. ASSUME NEW j \in 2 .. Len(q) PROVE q[j].obj # o
        <5>1. j - 1 \in 1 .. Len(Tail(q)) /\ Tail(q)[j - 1] = q[j]
          BY <1>2
        <5> QED BY <5>1
      <4>2. CASE o = n.obj
        <5>1. \A j \in 1 + 1 .. Len(q) : q[j].obj # q[1].obj
          BY <4>1, <4>2, <1>2
        <5>2. Value(n) = known[starts][o]
          BY <5>1, <4>2, <1>2, <2>1, <3>1 DEF Tells
        <5> QED BY <5>2, <4>2, <1>5
      <4>3. CASE o # n.obj
        <5>1. ASSUME NEW i \in 1 .. Len(q) PROVE q[i].obj # o
          BY <4>1, <4>3, <1>2
        <5>2. \/ entries[o] = known[starts][o]
              \/ o \in unseen \cup late
              \/ (o \in Events /\ entries[o] = Gone)
          BY <5>1, <2>1, <3>1 DEF Quiet
        <5> QED BY <5>2, <4>3, <1>3, <1>4, <1>5
      <4> QED BY <4>2, <4>3
    <3> QED BY <3>1, <3>2, <3>3
  <2> QED BY <2>2, <2>3
<1> QED BY <1>7, <1>8, <1>9, <1>10 DEF MapsInv

\* What changes neither the maps nor what the served informers tell of them.
LEMMA OthersKeep ==
  ASSUME MapsInv,
         \/ \E o \in Keyed : Put(o) \/ Vanish(o)
         \/ Start \/ DefinitionsSynced \/ Stop
         \/ \E h \in MapStarts : Drop(h)
         \/ UNCHANGED mapsVars
  PROVE  MapsInv'
<1> USE MapsAssumption DEF MapsInv
<1>1. ASSUME NEW o \in Keyed, Put(o) \/ Vanish(o) PROVE MapsInv'
  <2>1. ASSUME Put(o) PROVE MapsTypeOK' /\ Queued'
    <3>1. made \in 0 .. MaxVersion /\ made < MaxVersion /\ cluster \in [Keyed -> 0 .. MaxVersion]
      BY <1>1, <2>1 DEF Put, MapsTypeOK
    <3>2. made + 1 \in 0 .. MaxVersion
      BY <3>1
    <3>3. made' = made + 1 /\ cluster' = [cluster EXCEPT ![o] = made + 1]
      BY <2>1 DEF Put
    <3>4. made' \in 0 .. MaxVersion /\ cluster' \in [Keyed -> 0 .. MaxVersion]
      BY <3>1, <3>2, <3>3
    <3>5. UNCHANGED <<starts, informer, refused, known, queue, entries, unseen, late, returned>>
      BY <2>1 DEF Put
    <3>6. Queued'
      BY <3>5 DEF Queued
    <3>7. MapsTypeOK'
      BY <3>4, <3>5 DEF MapsTypeOK
    <3> QED BY <3>6, <3>7
  <2>2. ASSUME Vanish(o) PROVE MapsTypeOK' /\ Queued'
    <3>1. made \in 0 .. MaxVersion /\ made < MaxVersion /\ cluster \in [Keyed -> 0 .. MaxVersion]
      BY <1>1, <2>2 DEF Vanish, MapsTypeOK
    <3>2. made + 1 \in 0 .. MaxVersion /\ Gone \in 0 .. MaxVersion
      BY <3>1 DEF Gone
    <3>3. made' = made + 1 /\ cluster' = [cluster EXCEPT ![o] = Gone]
      BY <2>2 DEF Vanish
    <3>4. made' \in 0 .. MaxVersion /\ cluster' \in [Keyed -> 0 .. MaxVersion]
      BY <3>1, <3>2, <3>3
    <3>5. UNCHANGED <<starts, informer, refused, known, queue, entries, unseen, late, returned>>
      BY <2>2 DEF Vanish
    <3>6. Queued'
      BY <3>5 DEF Queued
    <3>7. MapsTypeOK'
      BY <3>4, <3>5 DEF MapsTypeOK
    <3> QED BY <3>6, <3>7
  <2>3. MapsTypeOK' /\ Queued'
    BY <1>1, <2>1, <2>2
  <2> QED BY <2>3, <1>1 DEF Put, Vanish, Unlisted, Following, EventsExplained, Held
<1>2. CASE Start
  <2>1. starts + 1 \in MapStarts /\ starts \in Nat
    BY <1>2 DEF Start, MapsTypeOK, MapStarts
  <2>2. MapsTypeOK' /\ Queued'
    BY <1>2, <2>1 DEF Start, MapsTypeOK, Queued
  <2>3. Unlisted' /\ Following' /\ EventsExplained'
    BY <1>2, <2>1 DEF Start, MapsTypeOK, MapStarts, Unlisted, Following, EventsExplained, Held
  <2> QED BY <2>2, <2>3
<1>3. CASE DefinitionsSynced \/ Stop
  <2>1. starts \in MapStarts /\ starts \in Nat
    BY <1>3 DEF DefinitionsSynced, Stop, MapsTypeOK, MapStarts
  <2>2. MapsTypeOK' /\ Queued'
    BY <1>3, <2>1 DEF DefinitionsSynced, Stop, MapsTypeOK, Queued
  <2>3. Unlisted' /\ Following' /\ EventsExplained'
    BY <1>3, <2>1 DEF DefinitionsSynced, Stop, MapsTypeOK, MapStarts, Unlisted, Following,
                      EventsExplained, Held
  <2> QED BY <2>2, <2>3
<1>4. ASSUME NEW h \in MapStarts, Drop(h) PROVE MapsInv'
  <2>1. Queued'
    BY <1>4, EmptySeq DEF Drop, Queued
  <2>2. MapsTypeOK'
    BY <1>4, EmptySeq DEF Drop, MapsTypeOK, Queued
  <2>3. Unlisted' /\ Following' /\ EventsExplained'
    BY <1>4 DEF Drop, MapsTypeOK, MapStarts, Unlisted, Following, EventsExplained, Held, Queued
  <2> QED BY <2>1, <2>2, <2>3
<1>5. CASE UNCHANGED mapsVars
  BY <1>5 DEF mapsVars, MapsTypeOK, Queued, Unlisted, Following, EventsExplained, Held, Tells, Quiet
<1> QED BY <1>1, <1>2, <1>3, <1>4, <1>5

\* For any objects, limit and number of starts: once the informers served have caught up
\* the maps are the cluster, but for objects that went while nothing watched, entries a
\* replaced start wrote late and events that were evicted; and the map of events is over
\* its limit by no more than the updates that brought an evicted event back.
THEOREM MapsHold == MapsSpec => []MapsTrue
<1>1. MapsInit => MapsInv
  <2> SUFFICES ASSUME MapsInit PROVE MapsInv
    OBVIOUS
  <2> USE MapsAssumption DEF MapsInit
  <2>1. Queued /\ MapsTypeOK
    <3>1. Queued
      BY EmptySeq DEF Queued
    <3>2. \A h \in MapStarts : \A i \in DOMAIN queue[h] : queue[h][i] \in Notice
      OBVIOUS
    <3>3. Gone \in 0 .. MaxVersion /\ 0 \in 0 .. MaxStarts /\ 0 \in 0 .. MaxVersion
      BY DEF Gone
    <3>4. /\ cluster \in [Keyed -> 0 .. MaxVersion]
          /\ known \in [MapStarts -> [Keyed -> 0 .. MaxVersion]]
          /\ entries \in [Keyed -> 0 .. MaxVersion]
      BY <3>3
    <3> QED BY <3>1, <3>2, <3>3, <3>4 DEF MapsTypeOK
  <2>2. Unlisted /\ Following
    BY DEF Unlisted, Following
  <2>3. EventsExplained
    <3>1. Held(entries) = {}
      BY DEF Held, Keyed
    <3>2. Cardinality(Held(entries)) = 0
      BY <3>1, FS_EmptySet, Zenon
    <3>3. MaxEvents \in Nat /\ returned = 0
      BY MapsAssumption
    <3> HIDE DEF MapsInit
    <3> QED BY <3>2, <3>3 DEF EventsExplained
  <2> QED BY <2>1, <2>2, <2>3 DEF MapsInv
<1>2. MapsInv /\ [MapsNext]_mapsVars => MapsInv'
  BY ListKeeps, WatchKeeps, ResyncKeeps, DeliverKeeps, OthersKeep DEF MapsNext
<1>3. MapsInv => MapsTrue
  <2> SUFFICES ASSUME MapsInv, CaughtUp, NEW o \in Keyed
               PROVE  \/ entries[o] = cluster[o]
                      \/ o \in unseen \cup late
                      \/ o \in Events /\ entries[o] = Gone
    BY DEF MapsInv, MapsTrue, GhostsExplained
  <2>1. Quiet(<<>>, known[starts], entries, unseen \cup late)
    BY DEF CaughtUp, MapsInv, Following
  <2>2. known[starts][o] = cluster[o]
    BY DEF CaughtUp, Differs
  <2> QED BY <2>1, <2>2 DEF Quiet
<1> QED BY <1>1, <1>2, <1>3, PTL DEF MapsSpec

(***************************************************************************)
(* MCSidecar: the components side by side                                  *)
(***************************************************************************)

\* A behaviour of the parts side by side is one of each part: the one that runs takes
\* its own steps, and the steps of another leave its state alone.
LEMMA SideRefines ==
  SideSpec => OpsSpec /\ ProbeSpec /\ ReadSpec /\ FetchSpec /\ CachesSpec /\ MapsSpec
<1>1. SideInit => /\ OpsInit /\ ProbeInit /\ ReadInit /\ FetchInit /\ CachesInit /\ MapsInit
  BY DEF SideInit
<1>2. [SideNext]_all => /\ [OpsNext]_opsVars /\ [ProbeNext]_probeVars /\ [ReadNext]_readVars
                        /\ [FetchNext]_fetchVars /\ [CachesNext]_cachesVars
                        /\ [MapsNext]_mapsVars
  BY Zenon DEF SideNext, all
<1> QED
  BY <1>1, <1>2, PTL
     DEF SideSpec, OpsSpec, ProbeSpec, ReadSpec, FetchSpec, CachesSpec, MapsSpec

\* The handlers of the sidecar, side by side: changes are audited and outcomes true,
\* empty answers explained, verdicts those of the cluster, and what the main process
\* tells of a request is what became of it.
THEOREM HandlersHold == SideSpec => []HandlersTrue
<1>1. OpsTrue /\ ReadsTrue /\ VerdictExplained /\ RequestsTrue => HandlersTrue
  BY DEF HandlersTrue
<1> QED
  BY <1>1, SideRefines, OpsHold, ReadsHold, ProbeHolds, FetchHolds, PTL

\* What the sidecar keeps in memory, side by side: a cache answers of a cluster that was
\* current while the request was under way, and the maps are the cluster but for what
\* is named.
THEOREM CopiesHold == SideSpec => []CopiesTrue
<1>1. CachesTrue /\ MapsTrue => CopiesTrue
  BY DEF CopiesTrue
<1> QED
  BY <1>1, SideRefines, CachesHold, MapsHold, PTL

============================================================================
