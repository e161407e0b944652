------------------------------- MODULE HelmRepo -------------------------------
(***************************************************************************)
(* The Helm repository manager (internal/helm/repo.go): repositories.yaml, *)
(* index files on disk, indices in memory, cached chart archives, and the  *)
(* install of a chart. Requests run at the same time; only the map of      *)
(* indices has a lock.                                                     *)
(***************************************************************************)
EXTENDS Naturals, FiniteSets

CONSTANTS RepoNames,
          Adders,        \* requests that add a repository
          Loaders,       \* requests that need an index
          MaxPublished,  \* a bound: index versions a repository publishes
          NoRepo

VARIABLES
  published,   \* [RepoNames -> newest index version at the repository's URL]
  repoFile,    \* repositories.yaml: the names in it
  onDisk,      \* [RepoNames -> version of the index file, or 0]
  indices,     \* [RepoNames -> version of the index in memory, or 0]
  adds,        \* [Adders -> what an add has read, or NoRepo]
  loads,       \* [Loaders -> what a load has read, or NoRepo]
  refresh,     \* repositories a refresh has yet to download, or NoRepo
  archive,     \* the cached archive of a chart version: "none", "chart", "junk"
  values,      \* the last answer about its values: "none", "ok", "error"
  install,     \* an install: "idle", "run", "force", "ok", "error"
  release,     \* its release in the cluster: "none", "failed", "deployed"
  added,       \* history: repositories answered as added
  raced,       \* history: those whose add met another add
  newest,      \* history: [RepoNames -> newest index version answered from]
  badDownload  \* history: a download of the archive went wrong

repoVars  == <<published, repoFile, onDisk, adds, refresh, added, raced>>
indexVars == <<indices, loads, newest>>
chartVars == <<archive, values, badDownload>>
helmVars  == <<repoVars, indexVars, chartVars, install, release>>

RepoInit ==
  /\ published = [r \in RepoNames |-> 1] /\ repoFile = {}
  /\ onDisk = [r \in RepoNames |-> 0] /\ indices = [r \in RepoNames |-> 0]
  /\ adds = [d \in Adders |-> NoRepo] /\ loads = [l \in Loaders |-> NoRepo]
  /\ refresh = NoRepo /\ archive = "none" /\ values = "none"
  /\ install = "idle" /\ release = "none"
  /\ added = {} /\ raced = {} /\ newest = [r \in RepoNames |-> 0] /\ badDownload = FALSE

--------------------------------------------------------------------------
(* Repositories                                                            *)

Publishes(r) ==
  /\ published[r] < MaxPublished
  /\ published' = [published EXCEPT ![r] = @ + 1]
  /\ UNCHANGED <<repoFile, onDisk, adds, refresh, added, raced, indexVars, chartVars,
                 install, release>>

\* Adding a repository that is there already updates its entry.
Pending == {d \in Adders : adds[d] # NoRepo}

\* Slip: the file is started anew.
SlipReadFile == {}

ReadFile == repoFile

\* AddRepo reads the file before it downloads the index.
AddRepo(d, r) ==
  /\ adds[d] = NoRepo /\ r \notin added
  /\ \A e \in Pending : adds[e].name # r
  /\ adds' = [adds EXCEPT ![d] = [name |-> r, file |-> ReadFile]]
  /\ raced' = IF Pending = {} THEN raced
              ELSE raced \cup {r} \cup {adds[e].name : e \in Pending}
  /\ UNCHANGED <<published, repoFile, onDisk, refresh, added, indexVars, chartVars,
                 install, release>>

\* It writes the file, as it was read and with the new entry; the indices in memory
\* stay as they are (LoadIndices does nothing).
Adds(d) ==
  /\ d \in Pending
  /\ LET made == adds[d]
     IN  /\ onDisk' = [onDisk EXCEPT ![made.name] = published[made.name]]
         /\ repoFile' = made.file \cup {made.name} /\ added' = added \cup {made.name}
  /\ adds' = [adds EXCEPT ![d] = NoRepo]
  /\ UNCHANGED <<published, refresh, raced, indexVars, chartVars, install, release>>

\* The download fails, and nothing is written.
AddFails(d) ==
  /\ d \in Pending /\ adds' = [adds EXCEPT ![d] = NoRepo]
  /\ UNCHANGED <<published, repoFile, onDisk, refresh, added, raced, indexVars, chartVars,
                 install, release>>

Refresh ==
  /\ refresh = NoRepo /\ refresh' = repoFile
  /\ UNCHANGED <<published, repoFile, onDisk, adds, added, raced, indexVars, chartVars,
                 install, release>>

\* One repository after another; a download that fails leaves the file there was.
RefreshOne(r) ==
  /\ refresh # NoRepo /\ r \in refresh /\ refresh' = refresh \ {r}
  /\ onDisk' \in {onDisk, [onDisk EXCEPT ![r] = published[r]]}
  /\ UNCHANGED <<published, repoFile, adds, added, raced, indexVars, chartVars,
                 install, release>>

Refreshed ==
  /\ refresh = {} /\ refresh' = NoRepo
  /\ UNCHANGED <<published, repoFile, onDisk, adds, added, raced, indexVars, chartVars,
                 install, release>>

--------------------------------------------------------------------------
(* Indices: Search, GetVersions, LatestVersion, GetValues                  *)

\* An index that is not in memory is read from disk, without the lock.
LoadIndex(l, r) ==
  /\ loads[l] = NoRepo /\ indices[r] = 0 /\ onDisk[r] # 0
  /\ loads' = [loads EXCEPT ![l] = [name |-> r, version |-> onDisk[r]]]
  /\ UNCHANGED <<repoVars, indices, newest, chartVars, install, release>>

\* Slip: what was read is stored whatever is there by now.
SlipStored(l) == loads[l].version

Stored(l) == LET there == indices[loads[l].name]
             IN  IF there # 0 THEN there ELSE loads[l].version

Newer(v, r) == newest' = [newest EXCEPT ![r] = IF v > @ THEN v ELSE @]

\* The index is stored, unless another load was first, and answered from.
StoreIndex(l) ==
  /\ loads[l] # NoRepo
  /\ indices' = [indices EXCEPT ![loads[l].name] = Stored(l)]
  /\ Newer(Stored(l), loads[l].name)
  /\ loads' = [loads EXCEPT ![l] = NoRepo]
  /\ UNCHANGED <<repoVars, chartVars, install, release>>

\* GetValues of a chart version: from the archive cached, or downloaded, and then
\* cached, whatever was answered: the status of the answer is not looked at.
GetValues ==
  /\ \E r \in RepoNames : indices[r] # 0
  /\ \E gets \in IF archive = "none" THEN {"chart", "junk", "none"} ELSE {archive} :
       /\ archive' = gets
       /\ values' = IF gets = "chart" THEN "ok" ELSE "error"
       /\ badDownload' = (badDownload \/ gets # "chart")
  /\ UNCHANGED <<repoVars, indexVars, install, release>>

--------------------------------------------------------------------------
(* Install                                                                 *)

Install ==
  /\ install = "idle" /\ install' = "run"
  /\ UNCHANGED <<repoVars, indexVars, chartVars, release>>

\* What running an install ends with: Helm refuses objects it does not own before
\* it writes anything; other failures come before or after.
RunEnds == {[error |-> "none", release |-> "deployed"], [error |-> "owner", release |-> "none"],
            [error |-> "other", release |-> "none"], [error |-> "other", release |-> "failed"]}

\* Slip: every failure is one of ownership.
SlipOwnershipConflict(error) == error # "none"

OwnershipConflict(error) == error = "owner"

\* The chart cannot be located or loaded, or its values cannot be read.
InstallUnprepared ==
  /\ install = "run" /\ install' = "error"
  /\ UNCHANGED <<repoVars, indexVars, chartVars, release>>

RunInstall ==
  /\ install = "run"
  /\ \E e \in RunEnds :
       /\ release' = e.release
       /\ install' = IF e.error = "none" THEN "ok"
                     ELSE IF OwnershipConflict(e.error) THEN "force" ELSE "error"
  /\ UNCHANGED <<repoVars, indexVars, chartVars>>

\* The forced upgrade.
ForceInstall ==
  /\ install = "force"
  /\ \E e \in RunEnds : /\ release' = e.release
                        /\ install' = IF e.error = "none" THEN "ok" ELSE "error"
  /\ UNCHANGED <<repoVars, indexVars, chartVars>>

RepoNext ==
  \/ \E r \in RepoNames : Publishes(r) \/ RefreshOne(r)
  \/ \E d \in Adders : Adds(d) \/ AddFails(d) \/ \E r \in RepoNames : AddRepo(d, r)
  \/ Refresh \/ Refreshed
  \/ \E l \in Loaders : StoreIndex(l) \/ \E r \in RepoNames : LoadIndex(l, r)
  \/ GetValues \/ Install \/ InstallUnprepared \/ RunInstall \/ ForceInstall
RepoSpec == RepoInit /\ [][RepoNext]_helmVars

--------------------------------------------------------------------------
(* Properties                                                              *)

RepoTypeOK ==
  /\ published \in [RepoNames -> 1..MaxPublished] /\ repoFile \subseteq RepoNames
  /\ onDisk \in [RepoNames -> 0..MaxPublished] /\ indices \in [RepoNames -> 0..MaxPublished]
  /\ refresh = NoRepo \/ refresh \subseteq RepoNames
  /\ archive \in {"none", "chart", "junk"} /\ values \in {"none", "ok", "error"}
  /\ install \in {"idle", "run", "force", "ok", "error"}
  /\ release \in {"none", "failed", "deployed"}

\* A repository that was answered as added stays in the file, unless its add and
\* another went on at the same time: then the one that writes last takes the
\* other's entry away (AddRepo has no lock).
AddedKept == added \ repoFile \subseteq raced

\* Searches do not go back in time: once a request was answered from an index, no
\* request is from an older one, whatever refreshes and loads overlap it (the
\* checks under the lock in getIndex).
IndexNeverOlder == \A r \in RepoNames : indices[r] = newest[r] /\ indices[r] <= onDisk[r]

\* A chart whose values cannot be had was badly downloaded, now or before.
ValuesExplained == values = "error" => badDownload

\* An install is forced only when the attempt before it has left nothing behind,
\* and is answered as done exactly if the release is deployed.
ForcedCleanly ==
  /\ install = "force" => release = "none"
  /\ install \in {"ok", "error"} => (install = "ok" <=> release = "deployed")

\* What the repository manager tells its callers.
RepoTrue == RepoTypeOK /\ AddedKept /\ IndexNeverOlder /\ ValuesExplained /\ ForcedCleanly
=============================================================================
