------------------------------- MODULE Settings -------------------------------
(***************************************************************************)
(* The settings file and the kubeconfig, which the settings panel, the     *)
(* sidebar, the metrics and the main process all write.                    *)
(*                                                                         *)
(* A message between window and main process is delivered in order.  The   *)
(* window reads the whole of the settings, changes a field and writes the  *)
(* whole back; the panel writes the form it has read when it was opened.   *)
(* A setting is a Boolean: it has its default value, or another.           *)
(***************************************************************************)
EXTENDS Naturals, Sequences

CONSTANT MaxActs    \* bound on what the user does

ASSUME SettingsAssumption == MaxActs \in Nat

\* Whether Plugins, GitOps and Network are shown, the context is a production
\* one, a kubeconfig of one's own is used, a Prometheus URL is saved.
Fields == {"panels", "prod", "path", "url"}
Files  == {"default", "custom"}
SettingValues == [Fields -> BOOLEAN]
Closed == 0

VARIABLES
  file,      \* settings.json
  writes,    \* history: writes of it
  store,     \* the store's copy of the fields it keeps
  front,     \* which opening of the panel is on screen
  opens,     \* openings so far (bounded)
  form,      \* the panel's form
  formOf,    \* history: the write it was read from
  edited,    \* fields of the form edited since
  toMain, toWindow,  \* messages on their way
  moving,    \* a change of the kubeconfig's path under way
  text,      \* a kubeconfig: the file its text comes from, and whether it was edited
  editor,    \* the text in the editor, as loaded and as edited
  shownPath, \* the path the panel shows
  acts,      \* what the user has done so far (bounded)
  askedFor,  \* history: the value last asked for
  overlapped, diskFailed, startFailed, moved  \* history: what has gone wrong, or crossed

fileVars   == <<file, writes, text>>
formVars   == <<front, opens, form, formOf, edited, editor, shownPath>>
pastVars   == <<askedFor, overlapped, diskFailed, startFailed, moved>>
prefVars   == <<fileVars, store, formVars, toMain, toWindow, moving, acts, pastVars>>

PathOf(f) == IF f["path"] THEN "custom" ELSE "default"
Fresh(f)  == [from |-> f, edited |-> FALSE]
Texts     == [from : Files, edited : BOOLEAN]
Defaults  == [f \in Fields |-> f = "panels"]

PrefTypeOK ==
  /\ file \in SettingValues /\ store \in [{"panels", "prod"} -> BOOLEAN] /\ form \in SettingValues
  /\ askedFor \in SettingValues /\ writes \in Nat /\ formOf \in Nat
  /\ front \in 0 .. opens /\ opens \in Nat /\ acts \in 0 .. MaxActs
  /\ edited \subseteq {"panels", "url"}
  /\ moving \in [step : {"no", "dialog", "askedFor", "selecting", "clearing"}, by : 0 .. opens]
  /\ text \in [Files -> Texts]
  /\ editor.original \in Texts /\ editor.content \in Texts /\ shownPath \in Files
  /\ {overlapped, diskFailed, startFailed, moved} \subseteq BOOLEAN

PrefInit ==
  /\ file = Defaults /\ writes = 1 /\ askedFor = Defaults
  /\ store = [f \in {"panels", "prod"} |-> Defaults[f]]
  /\ front = Closed /\ opens = 0
  /\ form = Defaults /\ formOf = 0 /\ edited = {}
  /\ toMain = <<>> /\ toWindow = <<>> /\ moving = [step |-> "no", by |-> Closed]
  /\ text = [f \in Files |-> Fresh(f)]
  /\ editor = [original |-> Fresh("default"), content |-> Fresh("default")]
  /\ shownPath = "default"
  /\ acts = 0 /\ overlapped = FALSE /\ diskFailed = FALSE
  /\ startFailed = FALSE /\ moved = FALSE

--------------------------------------------------------------------------
(* What the window sends.  "get" is followed by a "set" of the same writer. *)

Get(f, want) == [op |-> "get", for |-> f, by |-> front, want |-> want]
Set(x, by, v, base) ==
  [op |-> "set", for |-> x, by |-> by, value |-> v, base |-> base]
ReadAll(p)   == <<[op |-> "load", for |-> "form", by |-> p],
                  [op |-> "kubeconfig", for |-> "editor", by |-> p]>>

Awaits(x) ==
  \E q \in {toMain, toWindow} : \E i \in DOMAIN q : q[i].for = x /\ q[i].by = front
Act == acts < MaxActs /\ acts' = acts + 1

\* A new panel reads settings and kubeconfig; until then its form has defaults.
OpenPanel ==
  /\ front = Closed /\ Act
  /\ opens' = opens + 1 /\ front' = opens'
  /\ form' = Defaults /\ formOf' = 0 /\ edited' = {}
  /\ editor' = [original |-> Fresh("default"), content |-> Fresh("default")]
  /\ shownPath' = "default"
  /\ toMain' = toMain \o ReadAll(front')
  /\ UNCHANGED <<fileVars, store, toWindow, moving, pastVars>>

LeavePanel ==
  /\ front # Closed
  /\ front' = Closed
  /\ UNCHANGED <<fileVars, store, opens, form, formOf, edited, editor, shownPath, toMain,
                 toWindow, moving, acts, pastVars>>

\* Panels, shell and URL change in the form only.
EditForm(f) ==
  /\ front # Closed /\ f \in {"panels", "url"} \ edited
  /\ form' = [form EXCEPT ![f] = ~@]
  /\ edited' = edited \cup {f}
  /\ UNCHANGED <<fileVars, store, front, opens, formOf, editor, shownPath, toMain, toWindow,
                 moving, acts, pastVars>>

\* handleSave: the whole form, whatever was written since it was read.
ApplyChanges ==
  /\ front # Closed /\ Act
  /\ toMain' = Append(toMain, Set("form", front, form, formOf))
  /\ askedFor' = [f \in Fields |-> IF f \in edited THEN form[f] ELSE askedFor[f]]
  /\ edited' = {}
  /\ UNCHANGED <<fileVars, store, front, opens, form, formOf, editor, shownPath, toWindow, moving,
                 overlapped, diskFailed, startFailed, moved>>

\* Slip: the list as it was before the click is written.
SlipSaved == store["prod"]
Saved == store'["prod"]

\* setProdContexts: the store at once, the file after a read.  An open panel
\* reads everything again, since its effect depends on the store's list.
ToggleProd ==
  /\ Act
  /\ store' = [store EXCEPT !["prod"] = ~@]
  /\ askedFor' = [askedFor EXCEPT !["prod"] = store'["prod"]]
  /\ toMain' = Append(toMain, Get("prod", Saved))
               \o (IF front = Closed THEN <<>> ELSE ReadAll(front))
  /\ UNCHANGED <<fileVars, formVars, toWindow, moving, overlapped, diskFailed, startFailed, moved>>

\* "Detect Now" saves the URL of the form before it probes, and the metrics'
\* "disconnect" deletes it.
DetectNow ==
  /\ front # Closed /\ Act /\ ~Awaits("url")
  /\ askedFor' = [askedFor EXCEPT !["url"] = form["url"]]
  /\ toMain' = Append(toMain, Get("url", form["url"]))
  /\ edited' = edited \ {"url"}
  /\ UNCHANGED <<fileVars, store, front, opens, form, formOf, editor, shownPath, toWindow, moving,
                 overlapped, diskFailed, startFailed, moved>>

DisconnectPrometheus ==
  /\ front = Closed /\ Act
  /\ askedFor' = [askedFor EXCEPT !["url"] = FALSE]
  /\ toMain' = Append(toMain, Get("url", FALSE))
  /\ UNCHANGED <<fileVars, store, formVars, toWindow, moving, overlapped, diskFailed,
                 startFailed, moved>>

--------------------------------------------------------------------------
(* The kubeconfig                                                          *)

\* One change of the path at a time (a bound).
ChangePath ==
  /\ front # Closed /\ moving.step = "no" /\ Act
  /\ moving' = [step |-> "dialog", by |-> front]
  /\ UNCHANGED <<fileVars, store, formVars, toMain, toWindow, pastVars>>

\* The card offers "Reset" when the form names a path.
ShowsReset == form["path"]

ResetPath ==
  /\ front # Closed /\ ShowsReset /\ moving.step = "no" /\ Act
  /\ moving' = [step |-> "askedFor", by |-> front]
  /\ toMain' = Append(toMain, [op |-> "clear", for |-> "path", by |-> front])
  /\ askedFor' = [askedFor EXCEPT !["path"] = FALSE]
  /\ UNCHANGED <<fileVars, store, formVars, toWindow, overlapped, diskFailed, startFailed, moved>>

\* The main process reads and writes the settings in one turn.
WritePath(p) ==
  /\ \/ file' = [file EXCEPT !["path"] = p] /\ writes' = writes + 1 /\ UNCHANGED diskFailed
     \/ diskFailed' = TRUE /\ UNCHANGED <<file, writes>>
  /\ moved' = TRUE

PathChosen ==
  /\ moving.step = "dialog"
  /\ WritePath(TRUE)
  /\ askedFor' = [askedFor EXCEPT !["path"] = TRUE]
  /\ moving' = [moving EXCEPT !.step = "selecting"]
  /\ UNCHANGED <<text, store, formVars, toMain, toWindow, acts, overlapped, startFailed>>

DialogCancelled ==
  /\ moving.step = "dialog"
  /\ moving' = [step |-> "no", by |-> Closed]
  /\ UNCHANGED <<fileVars, store, formVars, toMain, toWindow, acts, pastVars>>

\* The sidecar was started again, and the panel hears of it; the contexts are
\* not loaded again, since init() runs once.  When the start fails, selectPath
\* answers as if the dialog had been cancelled, and clearPath is rejected.
RestartEnds ==
  /\ moving.step \in {"selecting", "clearing"}
  /\ moving' = [moving EXCEPT !.step = "no"]
  /\ \/ startFailed' = TRUE /\ UNCHANGED toWindow
     \/ /\ UNCHANGED startFailed
        /\ toWindow' = Append(toWindow, [op |-> "moved", for |-> "path", by |-> moving.by,
                                        custom |-> moving.step = "selecting"])
  /\ UNCHANGED <<fileVars, store, formVars, toMain, acts, askedFor, overlapped, diskFailed, moved>>

\* kubeconfigDirty: the card offers "Discard" and enables "Update Manifest".
Dirty == editor.content # editor.original

EditManifest ==
  /\ front # Closed /\ ~editor.content.edited
  /\ editor' = [editor EXCEPT !.content.edited = TRUE]
  /\ UNCHANGED <<fileVars, store, front, opens, form, formOf, edited, shownPath, toMain, toWindow,
                 moving, acts, pastVars>>

Discard ==
  /\ front # Closed /\ Dirty
  /\ editor' = [editor EXCEPT !.content = editor.original]
  /\ UNCHANGED <<fileVars, store, front, opens, form, formOf, edited, shownPath, toMain, toWindow,
                 moving, acts, pastVars>>

\* "Update Manifest": the path is the main process's when the text arrives.
UpdateManifest ==
  /\ front # Closed /\ Dirty /\ ~Awaits("manifest") /\ Act
  /\ toMain' = Append(toMain, [op |-> "manifest", for |-> "manifest", by |-> front,
                               text |-> editor.content])
  /\ UNCHANGED <<fileVars, store, formVars, toWindow, moving, pastVars>>

--------------------------------------------------------------------------
(* The main process takes one message at a time.                           *)

Tell(a) == toWindow' = Append(toWindow, a)
Undoes(m) == \E f \in Fields : m.value[f] \notin {file[f], askedFor[f]}

\* saveSettings: the lock orders the writes, each of a whole file; a write
\* that fails is only logged.
saveSettings(m) ==
  \/ /\ file' = m.value /\ writes' = writes + 1
     /\ overlapped' = (overlapped \/ (m.base # writes /\ Undoes(m)))
     /\ UNCHANGED diskFailed
  \/ /\ diskFailed' = TRUE
     /\ UNCHANGED <<file, writes, overlapped>>

MainTakes ==
  /\ toMain # <<>>
  /\ toMain' = Tail(toMain)
  /\ LET m == Head(toMain)
     IN  CASE m.op = "get" ->
                /\ Tell([op |-> "got", for |-> m.for, by |-> m.by, want |-> m.want,
                           value |-> file, base |-> writes])
                /\ UNCHANGED <<fileVars, moving, overlapped, diskFailed, moved>>
           [] m.op = "load" ->
                /\ Tell([op |-> "loaded", for |-> m.for, by |-> m.by, value |-> file,
                           base |-> writes])
                /\ UNCHANGED <<fileVars, moving, overlapped, diskFailed, moved>>
           [] m.op \in {"kubeconfig", "path"} ->
                /\ Tell([op |-> m.op, for |-> m.for, by |-> m.by, path |-> PathOf(file),
                           text |-> text[PathOf(file)]])
                /\ UNCHANGED <<fileVars, moving, overlapped, diskFailed, moved>>
           [] m.op = "set" ->
                /\ saveSettings(m)
                /\ Tell([op |-> "saved", for |-> m.for, by |-> m.by, value |-> m.value,
                           base |-> writes'])
                /\ UNCHANGED <<text, moving, moved>>
           [] m.op = "manifest" ->
                /\ text' = [text EXCEPT ![PathOf(file)] = m.text]
                /\ Tell(m)
                /\ UNCHANGED <<file, writes, moving, overlapped, diskFailed, moved>>
           [] m.op = "clear" ->
                /\ WritePath(FALSE)
                /\ moving' = [moving EXCEPT !.step = "clearing"]
                /\ UNCHANGED <<text, toWindow, overlapped>>
  /\ UNCHANGED <<store, formVars, acts, askedFor, startFailed>>

--------------------------------------------------------------------------
(* The window takes one answer at a time.                                  *)

\* The settings as they were read, with the writer's own field.
Written(a) == [a.value EXCEPT ![a.for] = a.want]

WindowTakes ==
  /\ toWindow # <<>>
  /\ toWindow' = Tail(toWindow)
  /\ LET r == Head(toWindow)
     IN  CASE r.op = "got" ->
                /\ toMain' = Append(toMain, Set(r.for, r.by, Written(r), r.base))
                /\ UNCHANGED <<store, form, formOf, edited, editor, shownPath>>
           [] r.op = "loaded" ->
                /\ IF r.by = front
                   THEN form' = r.value /\ formOf' = r.base /\ edited' = {}
                   ELSE UNCHANGED <<form, formOf, edited>>
                /\ UNCHANGED <<store, toMain, editor, shownPath>>
           [] r.op = "kubeconfig" ->
                /\ IF r.by = front
                   THEN /\ editor' = [original |-> r.text, content |-> r.text]
                        /\ shownPath' = r.path
                   ELSE UNCHANGED <<editor, shownPath>>
                /\ UNCHANGED <<store, toMain, form, formOf, edited>>
           [] r.op = "moved" ->
                /\ form' = IF r.by = front THEN [form EXCEPT !["path"] = r.custom] ELSE form
                /\ IF r.custom
                   THEN /\ shownPath' = IF r.by = front THEN "custom" ELSE shownPath
                        /\ UNCHANGED toMain
                   ELSE /\ toMain' = Append(toMain, [op |-> "path", for |-> "path", by |-> r.by])
                        /\ UNCHANGED shownPath
                /\ UNCHANGED <<store, formOf, edited, editor>>
           [] r.op = "path" ->
                /\ shownPath' = IF r.by = front THEN r.path ELSE shownPath
                /\ UNCHANGED <<store, toMain, form, formOf, edited, editor>>
           [] r.op = "saved" ->
                /\ store' = IF r.for # "form" THEN store
                            ELSE [store EXCEPT !["panels"] = r.value["panels"]]
                /\ formOf' = IF r.for = "form" /\ r.by = front /\ r.value = form
                             THEN r.base ELSE formOf
                /\ UNCHANGED <<toMain, form, edited, editor, shownPath>>
           [] r.op = "manifest" ->
                /\ editor' = IF r.by = front THEN [editor EXCEPT !.original = r.text] ELSE editor
                /\ UNCHANGED <<store, toMain, form, formOf, edited, shownPath>>
  /\ UNCHANGED <<fileVars, front, opens, moving, acts, pastVars>>

\* The user works at the form, or at the kubeconfig: two instances, which
\* bounds what is done at a time.
Moves ==
  \/ OpenPanel \/ LeavePanel \/ ToggleProd \/ MainTakes \/ WindowTakes
  \/ ChangePath \/ ResetPath \/ PathChosen \/ DialogCancelled \/ RestartEnds
FormNext ==
  \/ Moves \/ ApplyChanges \/ DetectNow \/ DisconnectPrometheus
  \/ \E f \in {"panels", "url"} : EditForm(f)
ManifestNext == Moves \/ EditManifest \/ Discard \/ UpdateManifest

PrefSpec == PrefInit /\ [][FormNext \/ ManifestNext]_prefVars

--------------------------------------------------------------------------
(* Properties                                                              *)

AllSaved == toMain = <<>> /\ toWindow = <<>> /\ moving.step = "no"

\* A setting keeps the value last asked for, through any number of writers of
\* the whole file, unless a write overtook another that began before it read,
\* or was computed from a form older than the file, or the disk refused it.
SettingsKept == AllSaved /\ ~overlapped /\ ~diskFailed => file = askedFor

\* Then the store, which decides what is asked before a change in production,
\* and the file, which decides it after the next start, agree.
StoreAgrees == AllSaved /\ ~overlapped /\ ~diskFailed => \A f \in DOMAIN store : store[f] = file[f]

\* The text of one kubeconfig is never written into another, unless the path
\* changed while the editor was open: the editor keeps the text of the old one.
ManifestsApart == \A f \in Files : text[f].from = f \/ moved

\* The panel that changed the path names the kubeconfig that is used, unless
\* the sidecar failed to start with it.
PathShown ==
  AllSaved /\ front # Closed /\ front = moving.by /\ ~overlapped /\ ~startFailed /\ ~diskFailed =>
     shownPath = PathOf(file) /\ form["path"] = file["path"]

PreferencesTrue == PrefTypeOK /\ SettingsKept /\ StoreAgrees /\ ManifestsApart /\ PathShown
=============================================================================
