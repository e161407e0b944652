------------------------------- MODULE Updates -------------------------------
(***************************************************************************)
(* Updates of the program: updater.ts in the main process, the banner and  *)
(* the settings panel's Update Center in the window.                       *)
(*                                                                         *)
(* The library that checks and downloads is external; it joins a second    *)
(* check or download to the one under way.  Its errors are only logged.    *)
(* Messages to one page arrive in order; a page that loads hears nothing.  *)
(***************************************************************************)
EXTENDS Naturals, Sequences

CONSTANTS MaxPending,    \* MAX_PENDING
          MaxNews,       \* bound on the events of the library
          MaxUpdateActs  \* bound on checks, openings, and windows

ASSUME UpdatesAssumption == MaxPending \in Nat /\ MaxNews \in Nat /\ MaxUpdateActs \in Nat

News     == {"checking", "available", "not-available", "progress", "downloaded"}
Statuses == {"idle", "checking", "available", "no-update", "downloading", "ready", "error"}

VARIABLES
  work,       \* checks and downloads of the library under way
  found,      \* the library knows of an update
  emitted,    \* history: the events so far
  mainWindow, \* "none", "loading", "shown": the main window
  windowReady,
  pendingEvents,  \* numbers of events
  mailbox,    \* messages to the page: the number of an event, or 0 for a rejected download
  received,   \* history: what the page has received, and the event before its first
  notice,     \* the banner: [status, dismissed]
  center,     \* [open, status]: the Update Center
  failedWork, \* history: the kind of work that has failed last, of each kind
  dropped,    \* history: events refused by a full queue, or sent to a page that loads
  updateActs

updateVars == <<work, found, emitted, mainWindow, windowReady, pendingEvents, mailbox, received,
                notice, center, failedWork, dropped, updateActs>>

NoBanner == [status |-> "idle", dismissed |-> FALSE]

UpdatesTypeOK ==
  /\ work \subseteq {"check", "download"} /\ found \in BOOLEAN /\ emitted \in Seq(News)
  /\ mainWindow \in {"none", "loading", "shown"} /\ windowReady \in BOOLEAN
  /\ Len(pendingEvents) <= MaxPending /\ center.open \in BOOLEAN
  /\ notice.status \in Statuses /\ notice.dismissed \in BOOLEAN /\ center.status \in Statuses
  /\ failedWork \subseteq {"check", "download"} /\ dropped \in BOOLEAN

UpdatesInit ==
  /\ work = {} /\ found = FALSE /\ emitted = <<>>
  /\ mainWindow = "loading" /\ windowReady = FALSE /\ pendingEvents = <<>> /\ mailbox = <<>>
  /\ received = [since |-> 0, events |-> <<>>]
  /\ notice = NoBanner /\ center = [open |-> FALSE, status |-> "idle"]
  /\ failedWork = {} /\ dropped = FALSE /\ updateActs = 0

UpdateAct == updateActs < MaxUpdateActs /\ updateActs' = updateActs + 1
PageStays == UNCHANGED <<mainWindow, windowReady, received, notice, center>>

--------------------------------------------------------------------------
(* The main process                                                        *)

\* Slip: an event goes to the window as soon as there is one.
SlipQueued == mainWindow = "none"
\* An event waits while there is no window, or none has been shown yet.
\* windowReady stays set when the window is closed.
Queued == mainWindow = "none" \/ ~windowReady

\* send: a full queue drops the event, and a page that loads does not hear it.
send(e) ==
  /\ Len(emitted) < MaxNews /\ emitted' = Append(emitted, e)
  /\ LET i == Len(emitted')
     IN  IF Queued
         THEN /\ pendingEvents' = IF Len(pendingEvents) < MaxPending
                                  THEN Append(pendingEvents, i) ELSE pendingEvents
              /\ dropped' = (dropped \/ Len(pendingEvents) >= MaxPending)
              /\ UNCHANGED mailbox
         ELSE /\ mailbox' = IF mainWindow = "shown" THEN Append(mailbox, i) ELSE mailbox
              /\ dropped' = (dropped \/ (mainWindow = "loading" /\ windowReady))
              /\ UNCHANGED pendingEvents

\* onWindowReady sends what waits, in order.
WindowShown ==
  /\ mainWindow = "loading" /\ mainWindow' = "shown" /\ windowReady' = TRUE
  /\ mailbox' = pendingEvents /\ pendingEvents' = <<>>
  /\ received' = [since |-> CASE ~windowReady -> 0   \* the first window
                              [] windowReady /\ pendingEvents = <<>> -> Len(emitted)
                              [] OTHER -> Head(pendingEvents) - 1,
                  events |-> <<>>]
  /\ UNCHANGED <<work, found, emitted, notice, center, failedWork, dropped, updateActs>>

\* On macOS the program outlives its window, and "activate" makes another.
WindowClosed ==
  /\ mainWindow = "shown" /\ UpdateAct
  /\ mainWindow' = "none" /\ mailbox' = <<>>
  /\ notice' = NoBanner /\ center' = [open |-> FALSE, status |-> "idle"]
  /\ UNCHANGED <<work, found, emitted, windowReady, pendingEvents, received, failedWork, dropped>>

Activate ==
  /\ mainWindow = "none" /\ mainWindow' = "loading"
  /\ UNCHANGED <<work, found, emitted, windowReady, pendingEvents, mailbox, received, notice,
                 center, failedWork, dropped, updateActs>>

--------------------------------------------------------------------------
(* The library                                                             *)

CheckForUpdates ==
  IF "check" \in work
  THEN UNCHANGED <<work, failedWork, emitted, pendingEvents, mailbox, dropped>>
  ELSE /\ work' = work \cup {"check"} /\ failedWork' = failedWork \ {"check"}
       /\ send("checking")

\* The timer after launch and the menu; the Update Center has a button.
CheckElsewhere ==
  /\ UpdateAct /\ CheckForUpdates
  /\ UNCHANGED found /\ PageStays

CheckEnds ==
  /\ "check" \in work /\ work' = work \ {"check"}
  /\ \/ found' = TRUE /\ send("available") /\ UNCHANGED failedWork
     \/ found' = FALSE /\ send("not-available") /\ UNCHANGED failedWork
     \/ /\ failedWork' = failedWork \cup {"check"}
        /\ UNCHANGED <<found, emitted, pendingEvents, mailbox, dropped>>
  /\ UNCHANGED updateActs /\ PageStays

DownloadProgress ==
  /\ "download" \in work
  /\ emitted # <<>> => emitted[Len(emitted)] # "progress"
  /\ send("progress")
  /\ UNCHANGED <<work, found, failedWork, updateActs>> /\ PageStays

\* A failed download is rejected as well, to the page that asked for it.
DownloadEnds ==
  /\ "download" \in work /\ work' = work \ {"download"}
  /\ \/ send("downloaded") /\ UNCHANGED failedWork
     \/ /\ failedWork' = failedWork \cup {"download"}
        /\ mailbox' = IF mainWindow = "shown" THEN Append(mailbox, 0) ELSE mailbox
        /\ UNCHANGED <<emitted, pendingEvents, dropped>>
  /\ UNCHANGED <<found, updateActs>> /\ PageStays

--------------------------------------------------------------------------
(* The window                                                              *)

StatusOf(e, other) ==
  CASE e = "checking" -> other [] e = "available" -> "available"
    [] e = "not-available" -> other [] e = "progress" -> "downloading"
    [] e = "downloaded" -> "ready"

\* The banner does not show a check, nor that there is no update; progress
\* does not bring a dismissed banner back.  A rejected download is its error.
BannerAfter(b, e) ==
  [status |-> StatusOf(e, b.status),
   dismissed |-> b.dismissed /\ e \notin {"available", "downloaded"}]

\* Slip: the end of a check without an update is not heard.
SlipCenterAfter(e, s) == IF e = "not-available" THEN s ELSE StatusOf(e, "checking")
CenterAfter(e, s) == IF e = "not-available" THEN "no-update" ELSE StatusOf(e, "checking")

Receive ==
  /\ mainWindow = "shown" /\ mailbox # <<>> /\ mailbox' = Tail(mailbox)
  /\ LET i == Head(mailbox)
     IN  IF i = 0
         THEN /\ notice' = [notice EXCEPT !.status = "error"]
              /\ UNCHANGED <<center, received>>
         ELSE /\ notice' = BannerAfter(notice, emitted[i])
              /\ center' = IF center.open
                           THEN [center EXCEPT !.status = CenterAfter(emitted[i], center.status)]
                           ELSE center
              /\ received' = [received EXCEPT !.events = Append(@, i)]
  /\ UNCHANGED <<work, found, emitted, mainWindow, windowReady, pendingEvents, failedWork, dropped,
                 updateActs>>

\* The Update Center knows what it has heard since it was opened.
OpenCenter ==
  /\ mainWindow = "shown" /\ ~center.open /\ UpdateAct
  /\ center' = [open |-> TRUE, status |-> "idle"]
  /\ UNCHANGED <<work, found, emitted, mainWindow, windowReady, pendingEvents, mailbox, received,
                 notice, failedWork, dropped>>

\* Its button is disabled while it shows a check or a download.
CheckInCenter ==
  /\ center.open /\ center.status \in {"idle", "no-update", "error"}
  /\ UpdateAct /\ CheckForUpdates
  /\ UNCHANGED found /\ PageStays

\* Both buttons; the library refuses a download before a check has found one.
BannerShown == notice.status # "idle" /\ ~notice.dismissed
OffersDownload ==
  \/ BannerShown /\ notice.status = "available"
  \/ center.open /\ center.status = "available"
Download ==
  /\ mainWindow = "shown" /\ OffersDownload /\ UpdateAct
  /\ IF found
     THEN /\ work' = work \cup {"download"} /\ failedWork' = failedWork \ {"download"}
          /\ UNCHANGED mailbox
     ELSE mailbox' = Append(mailbox, 0) /\ UNCHANGED <<work, failedWork>>
  /\ UNCHANGED <<found, emitted, pendingEvents, dropped>> /\ PageStays

\* "Later" and the cross; a download has no cross.
Dismiss ==
  /\ BannerShown /\ notice.status # "downloading"
  /\ notice' = [notice EXCEPT !.dismissed = TRUE]
  /\ UNCHANGED <<work, found, emitted, mainWindow, windowReady, pendingEvents, mailbox, received,
                 center, failedWork, dropped, updateActs>>

UpdatesNext ==
  \/ WindowShown \/ WindowClosed \/ Activate
  \/ CheckElsewhere \/ CheckEnds \/ DownloadProgress \/ DownloadEnds
  \/ Receive \/ OpenCenter \/ CheckInCenter \/ Download \/ Dismiss

UpdatesSpec == UpdatesInit /\ [][UpdatesNext]_updateVars

--------------------------------------------------------------------------
(* Properties                                                              *)

\* No notification is lost: once a page has read its mailbox it has received every
\* event since its first, in order, unless one came to a full queue or to
\* another window that was still loading.
NewsComplete ==
  mainWindow = "shown" /\ mailbox = <<>> /\ ~dropped =>
     /\ Len(received.events) = Len(emitted) - received.since
     /\ \A i \in DOMAIN received.events : received.events[i] = received.since + i

\* A restart to install is offered only after a download: the notice shows its
\* buttons for what the library has done, whatever was joined or repeated.
RestartIsReady ==
  notice.status = "ready" \/ center.status = "ready" =>
     \E i \in DOMAIN emitted : emitted[i] = "downloaded"

\* A status that says work goes on, which disables the button or hides the
\* cross, has work behind it, unless the work failed: errors are only logged.
BusyHasWork ==
  mainWindow = "shown" /\ mailbox = <<>> /\ ~dropped =>
     /\ center.status = "checking" => "check" \in work \cup failedWork
     /\ "downloading" \in {center.status, notice.status} => "download" \in work \cup failedWork

UpdatesTrue == UpdatesTypeOK /\ NewsComplete /\ RestartIsReady /\ BusyHasWork
=============================================================================
