----------------------------- MODULE SecurityScan -----------------------------
(***************************************************************************)
(* The security scans of the window: scanSecurity of the analysis slice,   *)
(* with the buttons of the Security Hub that start it, the streams of the  *)
(* sidecar it waits for, and the context switches that go on under it. A   *)
(* scan takes minutes, is never aborted, and answers to whatever the       *)
(* window has become by then.                                              *)
(***************************************************************************)
EXTENDS Naturals, Sequences, FiniteSets

CONSTANTS ScanContexts, FirstScanContext,
          KubeconfigContext,  \* current-context of the kubeconfig file
          MaxScans, MaxMoves, \* bounds: scans started, switches made
          Clusters,           \* context -> its workloads: [name, kind, ns, owned, image,
                              \* flaw, advice], as the engine and kubesec judge them
          Severity,           \* image -> the severity of what trivy finds in it
          SystemNamespaces,
          MaxHubClicks, MaxSifts, MaxOrders, MaxLoadsOfHub, \* bounds: clicks in dialogs and on
                              \* filters, scans and loads of the page
          NoScan

VARIABLES
  viewed,      \* selectedContext
  rollTo,      \* context a switch under way falls back to, or NoScan
  scans,       \* [1..scanSeq -> scan]
  scanning,    \* securityScanning
  background,  \* scanInBackground
  findings,    \* what the Hub shows: [scan, trivy, kubesec], or NoScan
  trivyAvailable,   \* or NoScan: not known
  listeners,   \* scans whose progress listener is registered
  activeUnsub, \* the scan activeProgressUnsub belongs to, or 0
  moves,
  midSwitch,   \* history: `findings` came while a switch was under way
  stock,       \* the workloads of the store
  sifting,     \* [system, severity, ns, ignored]: the filters of the page
  scanBox,     \* the dialog: [at, ns, kinds, trivy, kubesec, images, dropped, stale]
  order,       \* pendingScanOpts: [ns, kinds, kubesec], or NoScan
  orders,      \* history: what each scan was to cover and did
  hubClicks, hubLoads

flagVarsOfScan == <<scanning, background>>
pageVars == <<stock, sifting, scanBox, order, orders, hubClicks, hubLoads>>
scanVars == <<viewed, rollTo, scans, flagVarsOfScan, findings, trivyAvailable,
              listeners, activeUnsub, moves, midSwitch, pageVars>>

ScanSeq == Len(scans)
Outcomes == {"ok", "missing", "failed"}
ScanKinds == {"off", "cluster", "images", "none"}   \* "none": no image to scan

\* A scan: its context, what is asked of trivy and of kubesec with what became of
\* it, whether it is over; and (history) whether the window was switched since.
Scan(tr, ks) ==
  [ctx |-> viewed, kind |-> tr,
   trivy |-> CASE tr = "off" -> "off" [] tr = "none" -> "ok" [] OTHER -> "open",
   kubesec |-> IF ks THEN "open" ELSE "off", over |-> FALSE, left |-> FALSE]

Ongoing == {s \in 1..ScanSeq : ~scans[s].over}

NoBox == [at |-> "none", ns |-> {}, kinds |-> {}, trivy |-> FALSE, kubesec |-> FALSE,
          images |-> {}, dropped |-> {}, stale |-> FALSE]

ScanInit ==
  /\ viewed = FirstScanContext /\ rollTo = NoScan /\ scans = <<>>
  /\ scanning = FALSE /\ background = FALSE /\ findings = NoScan
  /\ trivyAvailable = NoScan /\ listeners = {} /\ activeUnsub = 0
  /\ moves = 0 /\ midSwitch = FALSE
  /\ stock = {} /\ sifting = [system |-> FALSE, severity |-> "all", ns |-> NoScan, ignored |-> {}]
  /\ scanBox = NoBox /\ order = NoScan /\ orders = <<>> /\ hubClicks = 0 /\ hubLoads = 0

\* Slip: the listener of the scan before is left.
SlipTornDown == listeners

TornDown == listeners \ {activeUnsub}

\* scanSecurity up to its await: from "Full Scan", in the background or not, or
\* from the dialogs of a custom scan (disabled while a scan goes on).
ScanSecurity(tr, ks, bg) ==
  /\ ~scanning /\ ScanSeq < MaxScans
  /\ scans' = Append(scans, Scan(tr, ks))
  /\ scanning' = TRUE /\ background' = bg
  /\ listeners' = TornDown \cup {ScanSeq'} /\ activeUnsub' = ScanSeq'
  /\ UNCHANGED <<viewed, rollTo, findings, trivyAvailable, moves, midSwitch>>

\* A line of a trivy that runs, for whatever scan: every listener hears it, and one
\* of another context than the one viewed goes.
SecurityProgress(s) ==
  /\ scans[s].trivy = "open"
  /\ listeners' = {l \in listeners : scans[l].ctx = viewed}
  /\ UNCHANGED <<viewed, rollTo, scans, flagVarsOfScan, findings, trivyAvailable,
                 activeUnsub, moves, midSwitch>>

\* handleScanResponse: trivy's stream ends with a result, with an error, too early,
\* or the sidecar answers that there is no trivy.
TrivyEnds(s) ==
  /\ scans[s].trivy = "open"
  /\ \E o \in Outcomes : scans' = [scans EXCEPT ![s].trivy = o]
  /\ UNCHANGED <<viewed, rollTo, flagVarsOfScan, findings, trivyAvailable, listeners,
                 activeUnsub, moves, midSwitch>>

\* HandleKubesecBatch answers a list in the order of the workloads sent, or fails.
KubesecEnds(s) ==
  /\ scans[s].kubesec = "open"
  /\ \E o \in {"ok", "failed"} : scans' = [scans EXCEPT ![s].kubesec = o]
  /\ UNCHANGED <<viewed, rollTo, flagVarsOfScan, findings, trivyAvailable, listeners,
                 activeUnsub, moves, midSwitch>>

\* Of which cluster the vulnerabilities found are: trivy is given the kubeconfig
\* and no context; images are those of the workloads shown at the start.
TrivyOf(s) ==
  IF scans[s].trivy # "ok" THEN NoScan
  ELSE IF scans[s].kind = "cluster" THEN KubeconfigContext ELSE scans[s].ctx

\* Slip: what a scan found is shown whatever is viewed by now.
SlipStillViewed(s) == TRUE

StillViewed(s) == viewed = scans[s].ctx

\* scanSecurity after its await, with its finally.
Settle(s) ==
  /\ s \in Ongoing /\ scans[s].trivy # "open" /\ scans[s].kubesec # "open"
  /\ scans' = [scans EXCEPT ![s].over = TRUE]
  /\ IF StillViewed(s)
     THEN /\ findings' = [scan |-> s, trivy |-> TrivyOf(s), kubesec |-> scans[s].kubesec]
          /\ trivyAvailable' = CASE scans[s].trivy = "off"     -> trivyAvailable
                                 [] scans[s].trivy = "ok"      -> TRUE
                                 [] scans[s].trivy = "missing" -> FALSE
                                 [] scans[s].trivy = "failed"  -> NoScan
          /\ midSwitch' = (rollTo # NoScan)
     ELSE UNCHANGED <<findings, trivyAvailable, midSwitch>>
  /\ background' = (background /\ ~StillViewed(s) /\ s # ScanSeq)
  /\ scanning' = (scanning /\ s # ScanSeq)
  /\ listeners' = listeners \ {s}
  /\ activeUnsub' = IF activeUnsub = s THEN 0 ELSE activeUnsub
  /\ UNCHANGED <<viewed, rollTo, moves>>

\* selectContext: what the Hub shows and its flags are reset at once.
Select(c) ==
  /\ c # viewed /\ moves < MaxMoves /\ moves' = moves + 1
  /\ viewed' = c /\ rollTo' = viewed
  /\ findings' = NoScan /\ trivyAvailable' = NoScan /\ midSwitch' = FALSE
  /\ scanning' = FALSE /\ background' = FALSE
  /\ scans' = [s \in 1..ScanSeq |-> [scans[s] EXCEPT !.left = TRUE]]
  /\ UNCHANGED <<listeners, activeUnsub>>

\* The switch succeeds, or fails in a way that leaves the window on the new context;
\* or it is rolled back, and then nothing is reset.
Selected ==
  /\ rollTo # NoScan /\ rollTo' = NoScan
  /\ viewed' \in {viewed, rollTo}
  /\ UNCHANGED <<scans, flagVarsOfScan, findings, trivyAvailable, listeners, activeUnsub,
                 moves, midSwitch>>

ScanNext ==
  /\ \/ \E tr \in ScanKinds \ {"none"}, ks, bg \in BOOLEAN : ScanSecurity(tr, ks, bg)
     \/ \E s \in 1..ScanSeq :
          SecurityProgress(s) \/ TrivyEnds(s) \/ KubesecEnds(s) \/ Settle(s)
     \/ \E c \in ScanContexts : Select(c)
     \/ Selected
  /\ UNCHANGED pageVars
ScanSpec == ScanInit /\ [][ScanNext]_scanVars

--------------------------------------------------------------------------
(* The page: what is shown of the workloads and of the last scan           *)

WorkloadsOf(c) == {w \in Clusters[c] : w.kind # "Node"}
HubKinds == UNION {{w.kind : w \in WorkloadsOf(c)} : c \in ScanContexts}
KeyOf(w) == [name |-> w.name, kind |-> w.kind, ns |-> w.ns]
NamespacesIn(ws) == {w.ns : w \in ws}
Unless(x, none) == IF x = none THEN {} ELSE {x}

\* The workloads before and after the namespaces ignored.
baseWorkloads == {w \in stock : sifting.system \/ w.ns \notin SystemNamespaces}
allWorkloads == {w \in baseWorkloads : w.ns \notin sifting.ignored}
availableNamespaces == NamespacesIn(baseWorkloads)

\* The engine judges what its rules look at: a CronJob has no pod where they look, and a
\* pod with an owner is left to that.
EngineRows ==
  {w \in allWorkloads : w.flaw # "none" /\ w.kind # "CronJob" /\ ~(w.kind = "Pod" /\ w.owned)}

\* Trivy names what it scanned, whatever it found: the images of an order, or the cluster
\* with its nodes, cut to the order.
InOrder(o, r) == (o.ns = {} \/ r.ns \in o.ns) /\ (o.kinds = {} \/ r.kind \in o.kinds)
TrivyRows ==
  IF findings = NoScan \/ findings.trivy = NoScan THEN {}
  ELSE LET o == orders[findings.scan]
       IN {r \in IF o.images = NoScan THEN {w \in Clusters[findings.trivy] : ~w.owned}
                  ELSE {w \in o.scope : w.image \in o.images} : InOrder(o, r)}
KubesecRows ==
  IF findings = NoScan \/ findings.kubesec # "ok" THEN {}
  ELSE {w \in orders[findings.scan].scope : w.advice # "none"}

\* buildUnifiedResults: one row for each namespace, name and kind.
unifiedResults ==
  LET merged(k) ==
        [of |-> k,
         levels |-> {w.flaw : w \in {x \in EngineRows : KeyOf(x) = k}} \cup
                    {w.advice : w \in {x \in KubesecRows : KeyOf(x) = k}},
         vulns |-> UNION {Unless(Severity[w.image], "none") :
                            w \in {x \in TrivyRows : KeyOf(x) = k}}]
  IN {merged(KeyOf(w)) : w \in EngineRows \cup TrivyRows \cup KubesecRows}

\* The counts of the tabs, what a tab keeps, and the dot of a row say the same thing.
Critical(r) == "error" \in r.levels \/ {"CRITICAL", "HIGH"} \cap r.vulns # {}
Warning(r)  == "warning" \in r.levels
\* Slip: HIGH is not critical.
SlipResourceScore(r) ==
  IF "error" \in r.levels \/ "CRITICAL" \in r.vulns THEN 2 ELSE IF r.levels # {} THEN 1 ELSE 0
resourceScore(r) == IF Critical(r) THEN 2 ELSE IF r.levels # {} THEN 1 ELSE 0
criticalCount == Cardinality({r \in unifiedResults : Critical(r)})

Hidden(r) == ~sifting.system /\ (r.of.kind = "Node" \/ r.of.ns \in SystemNamespaces)
filteredResults ==
  {r \in unifiedResults :
     /\ ~Hidden(r) /\ sifting.ns \in {NoScan, r.of.ns}
     /\ sifting.severity = "critical" => Critical(r)
     /\ sifting.severity = "warning" => Warning(r)}
resultNamespaces == {r.of.ns : r \in unifiedResults} \ {""}

\* EmptyState, where no row is shown.
EmptyState ==
  CASE filteredResults # {} -> "rows"
    [] (sifting.severity # "all" \/ sifting.ns # NoScan) /\ unifiedResults # {} -> "no matches"
    [] OTHER -> "all clear"

\* Slip: the filter keeps a namespace that is gone.
SlipSift(f) == sifting' = f
\* The filter by a namespace goes with the last row of the namespace.
Sift(f) ==
  /\ sifting' \in {f, [f EXCEPT !.ns = NoScan]}
  /\ sifting'.ns = f.ns <=> f.ns \in resultNamespaces' \cup {NoScan}

\* The images of the order, of the workloads shown.
SlipOffered == {w.image : w \in allWorkloads}
Offered == {w.image : w \in {x \in allWorkloads : order = NoScan \/ InOrder(order, x)}}
\* The dialog of images is reset by other workloads; that of the order is not.
BoxAfter ==
  IF scanBox.at = "images" THEN [scanBox EXCEPT !.images = Offered', !.stale = TRUE]
  ELSE [scanBox EXCEPT !.stale = scanBox.at # "none"]

\* The store takes other workloads: of all the namespaces, or of those of a namespace.
HubLoads ==
  /\ hubLoads < MaxLoadsOfHub /\ hubLoads' = hubLoads + 1
  /\ stock' \in {WorkloadsOf(viewed)} \cup
       {{w \in WorkloadsOf(viewed) : w.ns = n} : n \in NamespacesIn(WorkloadsOf(viewed))}
  /\ stock' # stock
  /\ UNCHANGED <<viewed, rollTo, scans, flagVarsOfScan, findings, trivyAvailable, listeners,
                 activeUnsub, moves, midSwitch, order, orders, hubClicks>>
  /\ Sift(sifting) /\ scanBox' = BoxAfter

HubSwitches ==
  /\ hubLoads < MaxLoadsOfHub /\ hubLoads' = hubLoads + 1
  /\ \E c \in ScanContexts : Select(c)
  /\ stock' = {} /\ UNCHANGED <<order, orders, hubClicks>>
  /\ Sift(sifting) /\ scanBox' = BoxAfter

\* What scans do goes on under the page.
HubSettles ==
  /\ \/ Selected
     \/ \E s \in 1..ScanSeq : TrivyEnds(s) \/ KubesecEnds(s) \/ Settle(s)
  /\ UNCHANGED <<stock, scanBox, order, orders, hubClicks, hubLoads>>
  /\ Sift(sifting)

--------------------------------------------------------------------------
(* The page: clicks                                                        *)

HubClick(most) ==
  /\ hubClicks < most /\ hubClicks' = hubClicks + 1
  /\ UNCHANGED <<viewed, rollTo, scans, flagVarsOfScan, findings, trivyAvailable, listeners,
                 activeUnsub, moves, midSwitch, stock, orders, hubLoads>>

Sieve(f) == scanBox.at = "none" /\ HubClick(MaxSifts) /\ UNCHANGED <<scanBox, order>> /\ Sift(f)
ToggleSystem       == Sieve([sifting EXCEPT !.system = ~@])
ChooseSeverity(v)  == v # sifting.severity /\ Sieve([sifting EXCEPT !.severity = v])
ChooseNamespace(n) == n \in resultNamespaces \cup {NoScan} /\ Sieve([sifting EXCEPT !.ns = n])
ToggleIgnored(n) ==
  /\ n \in availableNamespaces \cup sifting.ignored
  /\ Sieve([sifting EXCEPT !.ignored = IF n \in @ THEN @ \ {n} ELSE @ \cup {n}])

InBox(b) == HubClick(MaxHubClicks) /\ scanBox' = b /\ UNCHANGED <<order, sifting>>
\* The dialog of an order starts with the namespaces offered, every kind and engine.
OpenCustomScan ==
  /\ scanBox.at = "none" /\ ~scanning
  /\ InBox([NoBox EXCEPT !.at = "custom", !.ns = availableNamespaces, !.kinds = HubKinds,
                         !.trivy = trivyAvailable # FALSE, !.kubesec = TRUE])
Flip(set, x) == IF x \in set THEN set \ {x} ELSE set \cup {x}
AllOrNone(set, of) == IF Cardinality(set) = Cardinality(of) THEN {} ELSE of
ToggleScope ==
  /\ scanBox.at = "custom"
  /\ \/ \E n \in availableNamespaces : InBox([scanBox EXCEPT !.ns = Flip(@, n)])
     \/ \E k \in HubKinds : InBox([scanBox EXCEPT !.kinds = Flip(@, k)])
     \/ InBox([scanBox EXCEPT !.ns = AllOrNone(@, availableNamespaces)])
     \/ InBox([scanBox EXCEPT !.kinds = AllOrNone(@, HubKinds)])
ToggleEngine ==
  /\ scanBox.at = "custom"
  /\ \/ InBox([scanBox EXCEPT !.kubesec = ~@])
     \/ trivyAvailable # FALSE /\ InBox([scanBox EXCEPT !.trivy = ~@])
ToggleImage(i) ==
  /\ scanBox.at = "images" /\ i \in Offered
  /\ InBox([scanBox EXCEPT !.images = Flip(@, i), !.dropped = Flip(@, i)])
ToggleImages ==
  /\ scanBox.at = "images"
  /\ LET chosen == AllOrNone(scanBox.images, Offered)
     IN InBox([scanBox EXCEPT !.images = chosen, !.dropped = Offered \ chosen])
CloseBox == scanBox.at # "none" /\ InBox(NoBox)

\* What the order names: everything, where as many are chosen as there are.
OrderOf ==
  [ns |-> IF Cardinality(scanBox.ns) = Cardinality(availableNamespaces) THEN {} ELSE scanBox.ns,
   kinds |-> IF scanBox.kinds = HubKinds THEN {} ELSE scanBox.kinds, kubesec |-> scanBox.kubesec]
MayOrder == scanBox.ns # {} /\ scanBox.kinds # {} /\ (scanBox.trivy \/ scanBox.kubesec)

\* The workloads of an order: of the store, and a pod only where its kind is named.
ScopeOf(o) == {w \in stock : InOrder(o, w) /\ (w.kind = "Pod" => "Pod" \in o.kinds)}

\* scanSecurity, with the images chosen, if any are asked for; where it is run makes no
\* difference to the page.
StartScan(o, trivy, images) ==
  /\ ScanSeq < MaxOrders
  /\ LET scope == ScopeOf(o)
         tr == CASE ~trivy -> "off"
                 [] trivy /\ images = NoScan -> "cluster"
                 [] trivy /\ images # NoScan /\ {w \in scope : w.image \in images} = {} -> "none"
                 [] OTHER -> "images"
     IN /\ ScanSecurity(tr, o.kubesec, FALSE)
        /\ orders' = Append(orders, [ns |-> o.ns, kinds |-> o.kinds, images |-> images,
                       scope |-> scope, offered |-> availableNamespaces, meant |-> scanBox.ns,
                       from |-> scanBox.at, dropped |-> scanBox.dropped, stale |-> scanBox.stale,
                       pods |-> {w.image : w \in {x \in stock : x.kind = "Pod"}}])
  /\ scanBox' = NoBox /\ UNCHANGED <<stock, sifting, hubClicks, hubLoads>>

FullScan ==
  /\ scanBox.at = "none" /\ UNCHANGED order
  /\ StartScan([ns |-> {}, kinds |-> {}, kubesec |-> TRUE], TRUE, NoScan)
\* Without trivy an order is run at once; with it the images are asked for.
RunCustom ==
  /\ scanBox.at = "custom" /\ MayOrder
  /\ IF scanBox.trivy
     THEN /\ HubClick(MaxHubClicks) /\ order' = OrderOf /\ UNCHANGED sifting
          /\ scanBox' = [scanBox EXCEPT !.at = "images", !.images = Offered']
     ELSE StartScan(OrderOf, FALSE, NoScan) /\ UNCHANGED order
ScanImages ==
  /\ scanBox.at = "images" /\ scanBox.images # {} /\ UNCHANGED order
  /\ StartScan(order, TRUE, scanBox.images)
SkipImages ==
  /\ scanBox.at = "images" /\ UNCHANGED order /\ StartScan(order, FALSE, {})

Siftings ==
  \/ ToggleSystem
  \/ \E v \in {"all", "critical", "warning"} : ChooseSeverity(v)
  \/ \E n \in resultNamespaces \cup {NoScan} : ChooseNamespace(n)
  \/ \E n \in availableNamespaces \cup sifting.ignored : ToggleIgnored(n)
Orders ==
  \/ OpenCustomScan \/ ToggleScope \/ ToggleEngine \/ ToggleImages \/ CloseBox
  \/ \E i \in Offered : ToggleImage(i)
  \/ FullScan \/ RunCustom \/ ScanImages \/ SkipImages

\* The filters, and the dialogs.
Underneath == HubLoads \/ HubSwitches
SiftNext   == Underneath \/ HubSettles \/ Siftings \/ FullScan
OrderNext  == Underneath \/ Orders

--------------------------------------------------------------------------
(* Properties                                                              *)

ScanTypeOK ==
  /\ viewed \in ScanContexts /\ rollTo \in ScanContexts \cup {NoScan}
  /\ ScanSeq <= MaxScans /\ scanning \in BOOLEAN /\ background \in BOOLEAN
  /\ \A s \in 1..ScanSeq :
       /\ scans[s].ctx \in ScanContexts /\ scans[s].kind \in ScanKinds
       /\ scans[s].trivy \in Outcomes \cup {"off", "open"}
       /\ scans[s].kubesec \in {"off", "open", "ok", "failed"}
  /\ findings = NoScan \/ findings.scan \in 1..ScanSeq
  /\ trivyAvailable \in BOOLEAN \cup {NoScan}
  /\ listeners \subseteq 1..ScanSeq /\ activeUnsub \in 0..ScanSeq

\* However scans overlap, one progress listener at most is registered, and it goes
\* with its scan: a line is shown once, and none is heard for a scan that is over
\* (the comment on activeProgressUnsub).
ListenersHeld == listeners \subseteq Ongoing /\ Cardinality(listeners) <= 1

\* The Hub shows what a scan of the context viewed found, unless it came in while
\* a switch was under way that was rolled back afterwards.
FindingsOfContext ==
  findings # NoScan => scans[findings.scan].ctx = viewed \/ midSwitch

\* The Hub says that it scans exactly while the last scan started does, from its
\* start to its end or to the next switch; an older scan that ends changes nothing
\* of it (the comment on scanSeq).
ScanningTrue ==
  /\ scanning => ScanSeq \in Ongoing
  /\ ScanSeq \in Ongoing /\ ~scans[ScanSeq].left => scanning
  /\ background => scanning

\* What the images dialog shows as dropped is not scanned, unless other workloads came while
\* a dialog was open; and an image chosen is, unless pods have it: these are left out, also
\* where every kind is chosen.
ImagesMeant ==
  \A n \in 1..Len(orders) :
     LET o == orders[n]
     IN o.images \notin {NoScan, {}} =>
          /\ ~o.stale => o.images \cap o.dropped = {}
          /\ ~o.stale => o.images \subseteq {w.image : w \in o.scope} \cup o.pods

\* A scan of chosen namespaces keeps to them; only namespaces that were not offered come
\* with the choice of all, unless other workloads came meanwhile (as many are then "all").
ScopeMeant ==
  \A n \in 1..Len(orders) :
     LET o == orders[n]
     IN o.from # "none" /\ ~o.stale => NamespacesIn(o.scope) \cap o.offered \subseteq o.meant

\* What the counts, the filters and the dots say of a row agrees; nothing of a namespace that
\* is hidden is shown, and of one that is ignored only what a scan brought.
RowsAgree ==
  /\ criticalCount = Cardinality({r \in unifiedResults : resourceScore(r) = 2})
  /\ \A r \in filteredResults :
       /\ sifting.severity = "critical" => resourceScore(r) = 2
       /\ ~sifting.system => r.of.ns \notin SystemNamespaces /\ r.of.kind # "Node"
       /\ r.of.ns \in sifting.ignored =>
            r.of \in {KeyOf(w) : w \in TrivyRows \cup KubesecRows}

\* The filter by namespace is one of those that the page offers.
FilterOffered == sifting.ns \in resultNamespaces \cup {NoScan}

\* "All Clear" is said of the workloads shown: none has a flaw for the engine but a CronJob or
\* a pod with an owner, and none that was scanned has one for kubesec, if that answered (the
\* page does not tell when it did not).
ClearTrue ==
  EmptyState = "all clear" =>
     \A w \in allWorkloads :
        /\ w.flaw # "none" => w.kind = "CronJob" \/ (w.kind = "Pod" /\ w.owned)
        /\ findings # NoScan /\ w \in orders[findings.scan].scope /\ w.advice # "none" =>
             findings.kubesec # "ok"

\* What the page shows and scans.
PageTrue == ImagesMeant /\ ScopeMeant /\ RowsAgree /\ FilterOffered /\ ClearTrue

\* What the Hub says of its scans.
ScansTrue == ScanTypeOK /\ ListenersHeld /\ FindingsOfContext /\ ScanningTrue
=============================================================================
