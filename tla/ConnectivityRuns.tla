--------------------------- MODULE ConnectivityRuns ---------------------------
(***************************************************************************)
(* The connectivity tester (ConnectivityTester.tsx): the pods to test from, *)
(* the runs of a diagnosis, whose steps are commands executed in a pod one *)
(* after the other, and the single command of the manual mode.             *)
(*                                                                         *)
(* A pod is known by the context it was listed in; a command is executed   *)
(* in the context that is selected when it is sent, for the sidecar knows  *)
(* no other.                                                               *)
(***************************************************************************)
EXTENDS Naturals, Sequences, FiniteSets

CONSTANTS
  TestContexts, FirstTestContext,
  StepKeys,         \* the steps of a diagnosis by name: dns, tcp, http
  MaxRuns,          \* bound: runs
  MaxScenes,        \* bound: changes of context or namespace
  NoPod

VARIABLES
  at,          \* selectedContext
  podRows,     \* the context whose pods and services are listed, or NoPod
  rowLoads,    \* loads of them: [of, dead]
  sourcePod,   \* selectedPod: its context, or NoPod
  busyRun,     \* running
  cancelFlag,  \* cancelledRef.current
  cardOf,      \* activeDiag: the run on display, 0 if none
  runs,        \* run -> [kind, byName, of, steps, next, over]
  runHistory,  \* diagHistory: the runs in it
  executed,    \* history: [run, key, of, on] of each command sent
  strangely,   \* history: what has happened out of the ordinary
  scenes

testerVars == <<at, podRows, rowLoads, sourcePod, busyRun, cancelFlag, cardOf, runs, runHistory,
                executed, strangely, scenes>>

Status == {"idle", "running", "success", "failed", "skipped"}
TesterTypeOK ==
  /\ at \in TestContexts /\ podRows \in TestContexts \cup {NoPod}
  /\ sourcePod \in TestContexts \cup {NoPod}
  /\ busyRun \in BOOLEAN /\ cancelFlag \in BOOLEAN /\ cardOf \in 0..Len(runs)
  /\ \A r \in DOMAIN runs :
        /\ runs[r].kind \in {"diagnose", "manual"}
        /\ \A i \in DOMAIN runs[r].steps : runs[r].steps[i] \in Status
  /\ runHistory \subseteq DOMAIN runs /\ scenes \in 0..MaxScenes

TesterInit ==
  /\ at = FirstTestContext /\ podRows = NoPod /\ sourcePod = NoPod
  /\ rowLoads = {[of |-> FirstTestContext, n |-> 0, dead |-> FALSE]}
  /\ busyRun = FALSE /\ cancelFlag = TRUE /\ cardOf = 0 /\ runs = <<>> /\ runHistory = {}
  /\ executed = {} /\ strangely = {} /\ scenes = 0

RunsOngoing == {r \in DOMAIN runs : ~runs[r].over}
\* Runs that another context has cancelled, and whose command has not returned yet.
Left == {r \in RunsOngoing : runs[r].left}

--------------------------------------------------------------------------
(* Pods and services                                                       *)

\* The effect of another context or namespace; what is listed stays meanwhile.
ChangeScene(c) ==
  /\ scenes < MaxScenes /\ scenes' = scenes + 1
  /\ at' = c /\ cancelFlag' = TRUE /\ busyRun' = FALSE /\ sourcePod' = NoPod
  /\ rowLoads' = {[l EXCEPT !.dead = TRUE] : l \in rowLoads}
                 \cup {[of |-> c, n |-> scenes + 1, dead |-> FALSE]}
  /\ runs' = [r \in DOMAIN runs |-> [runs[r] EXCEPT !.left = ~runs[r].over]]
  /\ UNCHANGED <<podRows, cardOf, runHistory, executed, strangely>>

\* Slip: a load is taken though the context has changed.
SlipCancelledLoad(l) == FALSE
CancelledLoad(l) == l.dead

RowsLoaded(l, ok) ==
  /\ l \in rowLoads /\ rowLoads' = rowLoads \ {l}
  /\ podRows' = IF CancelledLoad(l) THEN podRows ELSE IF ok THEN l.of ELSE NoPod
  /\ UNCHANGED <<at, sourcePod, busyRun, cancelFlag, cardOf, runs, runHistory, executed,
                 strangely, scenes>>

SelectPod ==
  /\ podRows # NoPod /\ sourcePod = NoPod /\ sourcePod' = podRows
  /\ strangely' = strangely \cup (IF podRows # at THEN {"picked an old row"} ELSE {})
  /\ UNCHANGED <<at, podRows, rowLoads, busyRun, cancelFlag, cardOf, runs, runHistory, executed,
                 scenes>>

--------------------------------------------------------------------------
(* Runs                                                                    *)

\* Slip: the button stays enabled while a run is under way.
SlipCanRun == sourcePod # NoPod
CanRun == sourcePod # NoPod /\ ~busyRun

Command(r, key, of) == [run |-> r, key |-> key, of |-> of, on |-> at]

\* runDiagnose, by name or by address, and runManual.  The first command is sent at
\* once.
StartRun(kind, byName) ==
  LET keys == IF kind = "manual" THEN <<"tool">>
              ELSE IF byName THEN StepKeys ELSE Tail(StepKeys)
      r == Len(runs) + 1
  IN  /\ CanRun /\ r <= MaxRuns
      /\ kind = "manual" => byName
      /\ runs' = Append(runs,
           [kind |-> kind, byName |-> byName, of |-> sourcePod, keys |-> keys,
            steps |-> [i \in DOMAIN keys |-> IF i = 1 THEN "running" ELSE "idle"],
            next |-> 1, over |-> FALSE, left |-> FALSE])
      /\ executed' = executed \cup {Command(r, keys[1], sourcePod)}
      /\ busyRun' = TRUE
      /\ IF kind = "manual" THEN UNCHANGED <<cancelFlag, cardOf>>
         ELSE cancelFlag' = FALSE /\ cardOf' = r
      /\ strangely' = strangely \cup (IF Left # {} THEN {"started beside a run left"} ELSE {})
      /\ UNCHANGED <<at, podRows, rowLoads, sourcePod, runHistory, scenes>>

CancelRun ==
  /\ busyRun /\ ~cancelFlag /\ cancelFlag' = TRUE
  /\ UNCHANGED <<at, podRows, rowLoads, sourcePod, busyRun, cardOf, runs, runHistory, executed,
                 strangely, scenes>>

\* Slip: a name that is not resolved is tried all the same.
SlipHopeless(r, i, ok) == FALSE
\* The name was not resolved: the other steps are skipped.
Hopeless(r, i, ok) ==
  /\ runs[r].kind = "diagnose" /\ runs[r].byName
  /\ \/ runs[r].steps[1] = "failed" \/ (i = 1 /\ ~ok)

\* Slip: the flag is looked at before the run only.
SlipGivenUp == FALSE
GivenUp == cancelFlag

\* The steps when the i-th command has returned: the next is begun, or all are skipped.
StepsAfter(r, i, ok) ==
  LET done == IF ok THEN "success" ELSE "failed"
      stop == GivenUp \/ Hopeless(r, i, ok)
  IN  [j \in DOMAIN runs[r].steps |->
         IF j = i THEN done
         ELSE IF j < i THEN runs[r].steps[j]
         ELSE IF stop THEN "skipped" ELSE IF j = i + 1 THEN "running" ELSE "idle"]

\* Slip: a run that was cancelled is kept.
SlipRemembered(r) == runHistory \cup {r}
Remembered(r) == IF cancelFlag THEN runHistory ELSE runHistory \cup {r}

\* A command has returned.  A run that has ended takes the card away and the spinner,
\* whoever's they are.
StepReturns(r, ok) ==
  LET i == runs[r].next
      steps == StepsAfter(r, i, ok)
      goesOn == \E j \in DOMAIN steps : steps[j] = "running"
      diagnosis == runs[r].kind = "diagnose"
  IN  /\ ~runs[r].over
      /\ runs' = [runs EXCEPT ![r].steps = steps, ![r].over = ~goesOn,
                              ![r].next = IF goesOn THEN i + 1 ELSE i]
      /\ executed' = executed \cup
           (IF goesOn THEN {Command(r, runs[r].keys[i + 1], runs[r].of)} ELSE {})
      /\ busyRun' = (busyRun /\ goesOn)
      /\ cardOf' = IF ~diagnosis THEN cardOf ELSE IF goesOn THEN r ELSE 0
      /\ runHistory' = IF diagnosis /\ ~goesOn THEN Remembered(r) ELSE runHistory
      /\ UNCHANGED <<at, podRows, rowLoads, sourcePod, cancelFlag, strangely, scenes>>

TesterNext ==
  \/ \E c \in TestContexts : ChangeScene(c)
  \/ SelectPod \/ CancelRun
  \/ \E kind \in {"diagnose", "manual"}, byName \in BOOLEAN : StartRun(kind, byName)
  \/ \E ok \in BOOLEAN :
        \/ \E l \in rowLoads : RowsLoaded(l, ok)
        \/ \E r \in DOMAIN runs : StepReturns(r, ok)

TesterSpec == TesterInit /\ [][TesterNext]_testerVars

--------------------------------------------------------------------------
(* Properties                                                              *)

\* One run is under way at a time, the spinner turns while it is and its card is on
\* display: unless it was started beside one that a change of context left, whose
\* command had not returned, and which goes on when the new one takes the flag back.
OneRun ==
  "started beside a run left" \notin strangely =>
    /\ Cardinality(RunsOngoing \ Left) <= 1
    /\ busyRun <=> RunsOngoing \ Left # {}
    /\ \A r \in RunsOngoing \ Left : runs[r].kind = "diagnose" => cardOf = r

\* A command is executed where its pod is: unless the pod was taken from a list of
\* another context, or the run is one that was left.
ExecutedAtPod ==
  \A c \in executed :
    c.on # c.of => strangely \cap {"picked an old row", "started beside a run left"} # {}

\* A run in the history has done its steps in order: a step is skipped only after the
\* name was not resolved, and then no command was sent for it.
HistoryComplete ==
  \A r \in runHistory : \A i \in DOMAIN runs[r].steps :
    /\ runs[r].steps[i] \in {"success", "failed", "skipped"}
    /\ runs[r].steps[i] = "skipped" <=>
         i > 1 /\ runs[r].byName /\ runs[r].steps[1] = "failed"
    /\ runs[r].steps[i] = "skipped" => ~\E c \in executed : c.run = r /\ c.key = runs[r].keys[i]

\* The pods that can be chosen are those of the context last asked for, once they have
\* come.
RowsOfContext == rowLoads = {} => podRows \in {at, NoPod}

\* The tester shows the run under way and executes it where it says.
TesterTrue ==
  TesterTypeOK /\ OneRun /\ ExecutedAtPod /\ HistoryComplete /\ RowsOfContext

=============================================================================
