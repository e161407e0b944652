---------------------------- MODULE WindowProofs ----------------------------
(* What is proved of the window's components, each of its own specification, *)
(* in PanelProofs, StreamProofs and ObjectProofs, taken to the specification *)
(* in which they stand side by side.                                         *)
EXTENDS MCWindow, PanelProofs, StreamProofs, ObjectProofs

(***************************************************************************)
(* MCWindow: the parts side by side                                        *)
(***************************************************************************)

\* A behaviour of the parts side by side is one of each of the panels, of the streams,
\* of the settings, of the updates and of the details and custom resources: the part that runs takes its own steps, and the
\* steps of another leave its state alone.
LEMMA WindowRefines ==
  WindowSpec => /\ TopologySpec /\ BrowserSpec /\ HelmSpec /\ PrefSpec /\ UpdatesSpec
                /\ LogSpec /\ ExecSpec /\ LaunchSpec /\ PanelSpec
                /\ DetailSpec /\ CustomSpec
<1>1. WindowInit => /\ TopologyInit /\ BrowserInit /\ HelmInit /\ PrefInit /\ UpdatesInit
                    /\ LogInit /\ ExecInit /\ LaunchInit /\ PanelInit
                    /\ DetailInit /\ CustomInit
  BY DEF WindowInit
<1>2. [WindowNext]_all => [TopologyNext]_graphVars
  BY Zenon DEF WindowNext, all
<1>3. [WindowNext]_all => [BrowserNext]_browserVars
  BY Zenon DEF WindowNext, all
<1>4. [WindowNext]_all => [HelmNext]_helmVars
  BY Zenon DEF WindowNext, all
<1>5. [WindowNext]_all => [FormNext \/ ManifestNext]_prefVars
  BY Zenon DEF WindowNext, all
<1>6. [WindowNext]_all => [UpdatesNext]_updateVars
  BY Zenon DEF WindowNext, all
<1>7. [WindowNext]_all => [LogNext]_logVars
  BY Zenon DEF WindowNext, all
<1>8. [WindowNext]_all => [ExecNext]_execVars
  BY Zenon DEF WindowNext, all
<1>9. [WindowNext]_all => [LaunchNext]_benchVars
  BY Zenon DEF WindowNext, all
<1>10. [WindowNext]_all => [PanelNext]_panelVars
  BY Zenon DEF WindowNext, all
<1>11. [WindowNext]_all => [DetailNext]_detailVars
  BY Zenon DEF WindowNext, all
<1>12. [WindowNext]_all => [CustomNext \/ SaveNext \/ ModalNext]_customVars
  BY Zenon DEF WindowNext, all
<1> QED
  BY <1>1, <1>2, <1>3, <1>4, <1>5, <1>6, <1>7, <1>8, <1>9, <1>10, <1>11, <1>12, PTL
  DEF WindowSpec, TopologySpec, BrowserSpec, HelmSpec, PrefSpec, UpdatesSpec, LogSpec,
      ExecSpec, LaunchSpec, PanelSpec, DetailSpec, CustomSpec

\* The network graph, side by side with the other parts: what is drawn is of the scene
\* that is chosen, from the newest answer, and the spinner turns while one is awaited.
THEOREM NetworkHolds == WindowSpec => []NetworkTrue
<1>1. NetworkPanelTrue => NetworkTrue
  BY DEF NetworkTrue
<1> QED
  BY <1>1, WindowRefines, PanelHolds, PTL

\* The Helm panels, side by side with the other parts: releases are of the context
\* selected and acted on where they were meant, and charts are installed as ordered.
THEOREM HelmHolds == WindowSpec => []HelmTrue
<1>1. HelmPanelTrue /\ HelmBrowserTrue => HelmTrue
  BY DEF HelmTrue
<1> QED
  BY <1>1, WindowRefines, ReleasesHold, BrowserHolds, PTL

\* The settings and the updates, side by side with the other parts: a setting keeps the
\* value last asked for, and the window tells of an update what has happened to it.
THEOREM SettingsHold == WindowSpec => []SettingsTrue
<1>1. PreferencesTrue /\ UpdatesTrue => SettingsTrue
  BY DEF SettingsTrue
<1> QED
  BY <1>1, WindowRefines, PrefsHold, NewsHold, PTL

\* Log streams, shells, debug pods and the panel of a pod, side by side with the other
\* parts: lines and shells are of what they say, a stream that runs can be stopped, and
\* the cluster a shell or a debug pod is of is the one that was meant.
THEOREM StreamsHold == WindowSpec => []StreamsTrue
<1>1. LogsTrue /\ ShellsTrue /\ LauncherTrue /\ PodPanelTrue => StreamsTrue
  BY DEF StreamsTrue
<1> QED
  BY <1>1, WindowRefines, StreamLogsHold, ShellsHold, LaunchesHold, PodHolds, PTL

\* The panels of an object, side by side with the other parts: what is shown of an object
\* is of it and no older than what was done to it, an editor keeps what was typed, and the
\* rows, the manifest and the saves of a custom resource are of what is chosen.
THEOREM PanelsHold == WindowSpec => []PanelsTrue
<1>1. DetailsTrue /\ CustomTrue => PanelsTrue
  BY DEF PanelsTrue
<1> QED
  BY <1>1, WindowRefines, DetailsHold, CustomHold, PTL

=============================================================================
