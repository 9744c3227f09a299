---------------------------- MODULE ProjectStore ----------------------------
(***************************************************************************)
(* Projects and settings: the requests that create, delete, retarget and   *)
(* read a project or change the settings (internal/api/handlers_*.go,      *)
(* internal/store/project.go, store.go), file by file, against each other, *)
(* against the jobs of the projects and against a restart.                 *)
(*                                                                         *)
(* A job is what JobService makes of it, seen from outside: its directory, *)
(* its place in the service's index, and the order in which its hook lets  *)
(* go of both.                                                             *)
(***************************************************************************)
EXTENDS Naturals, Sequences, SequencesExt, FiniteSets

CONSTANTS
  Ids,         \* project ids: the slug of a name with a random suffix
  Clients,     \* requests in flight
  Jobs,        \* analyses and exports
  Targets,     \* targets validateTarget accepts
  DefaultTarget,
  Keys,        \* signature keys
  NoKey,
  Mask,        \* what the settings page shows for a key
  NoId, NoClient, NoJob, NoRecord,
  MaxRequests, \* bound: requests of users
  MaxFaults,   \* bound: file operations that fail
  MaxRestarts  \* bound: crashes of the server

VARIABLES
  made,        \* the project directories that exist
  record,      \* record[p]: project.json, NoRecord without one
  manifest,    \* manifest[p]: whose upload package.json is, NoClient without one
  dir,         \* dir[j]: the directory of j: "absent", "tmp" or "final"
  saved,       \* private/settings.json
  settings,    \* Store.settings
  home, kind,  \* the project and kind directory of j
  phase,       \* phase[j]: where j, its submitter or its hook is
  line,        \* the jobs in Service.byJobKey, in the order they were queued
  latest,      \* Service.byProjectID
  at, on,      \* at[r], on[r]: where request r is, and its project
  about,       \* about[r]: the job r asks for
  draft,       \* draft[r]: what r is about to write
  shown,       \* shown[r]: the jobs on the page r makes
  requests, faults, restarts,
  created,     \* history: created[p]: the client told that p was created
  gone,        \* history: projects that were removed, if only in part
  lost,        \* history: jobs that left no directory, or a user deleted
  due,         \* history: due[r]: what r's page was to show, when r began
  spared,      \* history: spared[r]: jobs that wrote when deletion r began
  crossed      \* history: two updates of the settings overlapped

disk == <<made, record, manifest, dir>>
settingsVars == <<saved, settings>>
jobVars == <<home, kind, phase, line, latest>>
askVars == <<on, about, draft, shown, due, spared>>
requestVars == <<at, askVars>>
boundVars == <<requests, faults, restarts>>
pastVars == <<created, gone, lost, crossed>>
vars == <<disk, settingsVars, jobVars, requestVars, boundVars, pastVars>>

Tracked == ToSet(line)
Of(p) == {j \in Jobs : home[j] = p}

ASSUME DefaultAssumption == DefaultTarget \in Targets
ASSUME RecordAssumption == NoRecord \notin [owner : Clients, target : Targets]

Init ==
  /\ made = {} /\ dir = [j \in Jobs |-> "absent"]
  /\ record = [p \in Ids |-> NoRecord] /\ manifest = [p \in Ids |-> NoClient]
  /\ saved = [target |-> DefaultTarget, key |-> NoKey] /\ settings = saved
  /\ home = [j \in Jobs |-> NoId] /\ kind = [j \in Jobs |-> "analyses"]
  /\ phase = [j \in Jobs |-> "new"] /\ line = <<>> /\ latest = [p \in Ids |-> NoJob]
  /\ at = [r \in Clients |-> "idle"] /\ on = [r \in Clients |-> NoId]
  /\ about = [r \in Clients |-> NoJob] /\ draft = [r \in Clients |-> NoRecord]
  /\ shown = [r \in Clients |-> {}]
  /\ requests = 0 /\ faults = 0 /\ restarts = 0
  /\ gone = {} /\ lost = {} /\ crossed = FALSE
  /\ created = [p \in Ids |-> NoClient]
  /\ due = [r \in Clients |-> {}] /\ spared = [r \in Clients |-> {}]

-----------------------------------------------------------------------------
(* Requests *)

\* A new request.
Asks(r) == at[r] = "idle" /\ requests < MaxRequests /\ requests' = requests + 1

Go(r, where) == at' = [at EXCEPT ![r] = where]

\* The answer, after which nothing of r is left.
Answer(r) ==
  /\ Go(r, "idle")
  /\ on' = [on EXCEPT ![r] = NoId] /\ about' = [about EXCEPT ![r] = NoJob]
  /\ draft' = [draft EXCEPT ![r] = NoRecord] /\ shown' = [shown EXCEPT ![r] = {}]
  /\ due' = [due EXCEPT ![r] = {}] /\ spared' = [spared EXCEPT ![r] = {}]

Fails == faults < MaxFaults /\ faults' = faults + 1

\* RemoveAll of a project, with everything under it.
RemoveTree(p) ==
  /\ made' = made \ {p}
  /\ record' = [record EXCEPT ![p] = NoRecord]
  /\ manifest' = [manifest EXCEPT ![p] = NoClient]
  /\ dir' = [j \in Jobs |-> IF home[j] = p THEN "absent" ELSE dir[j]]
  /\ lost' = lost \cup {j \in Of(p) : dir[j] # "absent"}
  /\ gone' = gone \cup {p}

\* RemoveAll fails half way and leaves some of it.
RemoveSome(p) ==
  /\ \E rest \in SUBSET Of(p) :
       /\ dir' = [j \in Jobs |-> IF j \in Of(p) \ rest THEN "absent" ELSE dir[j]]
       /\ lost' = lost \cup {j \in Of(p) \ rest : dir[j] # "absent"}
  /\ record' \in {record, [record EXCEPT ![p] = NoRecord]}
  /\ manifest' \in {manifest, [manifest EXCEPT ![p] = NoClient]}
  /\ gone' = gone \cup {p}
  /\ UNCHANGED made

-----------------------------------------------------------------------------
(* CreateProject *)

\* Seeded fault: MkdirAll, which an existing directory does not stop.
ReserveAnyway(r) ==
  /\ Asks(r)
  /\ \E p \in Ids :
       /\ p \notin gone
       /\ made' = made \cup {p}
       /\ on' = [on EXCEPT ![r] = p]
  /\ Go(r, "reserved")
  /\ UNCHANGED <<record, manifest, dir, settingsVars, jobVars, about, draft, shown,
                 faults, restarts, due, spared, pastVars>>

\* reserveProjectDir: Mkdir, with another suffix while one is taken. A suffix
\* is never drawn again once its project is gone.
Reserve(r) ==
  /\ Asks(r)
  /\ \E p \in Ids \ (made \cup gone) :
       /\ made' = made \cup {p}
       /\ on' = [on EXCEPT ![r] = p]
  /\ Go(r, "reserved")
  /\ UNCHANGED <<record, manifest, dir, settingsVars, jobVars, about, draft, shown,
                 faults, restarts, due, spared, pastVars>>

\* project.json, with the target of the settings. atomicWriteFile makes a
\* missing directory anew.
WriteRecord(r) ==
  /\ at[r] = "reserved" /\ Go(r, "recorded")
  /\ made' = made \cup {on[r]}
  /\ record' = [record EXCEPT ![on[r]] = [owner |-> r, target |-> settings.target]]
  /\ UNCHANGED <<manifest, dir, settingsVars, jobVars, askVars,
                 boundVars, pastVars>>

\* package.json, and the answer.
WriteManifest(r) ==
  /\ at[r] = "recorded" /\ Answer(r)
  /\ made' = made \cup {on[r]}
  /\ manifest' = [manifest EXCEPT ![on[r]] = r]
  /\ created' = [created EXCEPT ![on[r]] = r]
  /\ UNCHANGED <<record, dir, settingsVars, jobVars, boundVars, gone, lost, crossed>>

\* Either file cannot be written: the directory goes. (That its removal fails
\* too, a second failure, is left out.)
CreateFails(r) ==
  /\ at[r] \in {"reserved", "recorded"} /\ Answer(r) /\ Fails
  /\ RemoveTree(on[r])
  /\ UNCHANGED <<settingsVars, jobVars, requests, restarts, created, crossed>>

-----------------------------------------------------------------------------
(* SetProjectTarget *)

ReadRecord(r) ==
  /\ Asks(r)
  /\ \E p \in Ids, t \in Targets :
       /\ record[p] # NoRecord /\ record[p].target # t
       /\ on' = [on EXCEPT ![r] = p]
       /\ draft' = [draft EXCEPT ![r] = [record[p] EXCEPT !.target = t]]
  /\ Go(r, "retargeting")
  /\ UNCHANGED <<disk, settingsVars, jobVars, about, shown, due, spared, faults, restarts,
                 pastVars>>

\* The whole record as it was read, whatever has become of the project.
WriteTarget(r) ==
  /\ at[r] = "retargeting" /\ Answer(r)
  /\ made' = made \cup {on[r]}
  /\ record' = [record EXCEPT ![on[r]] = draft[r]]
  /\ UNCHANGED <<manifest, dir, settingsVars, jobVars, boundVars, pastVars>>

-----------------------------------------------------------------------------
(* DeleteProject *)

StatProject(r) ==
  /\ Asks(r)
  /\ \E p \in made :
       /\ on' = [on EXCEPT ![r] = p]
       /\ spared' = [spared EXCEPT ![r] = {j \in Of(p) : dir[j] = "tmp"}]
  /\ Go(r, "analyses")
  /\ UNCHANGED <<disk, settingsVars, jobVars, about, draft, shown, due, faults,
                 restarts, pastVars>>

Busy(r, k) == \E j \in Of(on[r]) : kind[j] = k /\ dir[j] = "tmp"

\* A .tmp in a kind's directory means busy.
ListKind(r, k, where) ==
  /\ at[r] = k
  /\ \/ Busy(r, k) /\ Answer(r)
     \/ ~Busy(r, k) /\ Go(r, where) /\ UNCHANGED <<askVars>>
  /\ UNCHANGED <<disk, settingsVars, jobVars, boundVars, pastVars>>

ListAnalyses(r) == ListKind(r, "analyses", "exports")

\* Seeded fault: only the analyses are looked at.
ListNoExports(r) ==
  /\ at[r] = "exports" /\ Go(r, "removing")
  /\ UNCHANGED <<disk, settingsVars, jobVars, askVars, boundVars, pastVars>>

ListExports(r) == ListKind(r, "exports", "removing")

RemoveProject(r) ==
  /\ at[r] = "removing" /\ Answer(r)
  /\ \/ RemoveTree(on[r]) /\ UNCHANGED faults
     \/ RemoveSome(on[r]) /\ Fails
  /\ UNCHANGED <<settingsVars, jobVars, requests, restarts, created, crossed>>

-----------------------------------------------------------------------------
(* UpdateSettings *)

\* The body's key, or the current one when the body has the mask. Updates that
\* change nothing are left out.
TakeSettings(r) ==
  /\ Asks(r)
  /\ \E t \in Targets, k \in Keys \cup {Mask} :
       LET wanted == [target |-> t, key |-> IF k = Mask THEN settings.key ELSE k]
       IN wanted # settings /\ draft' = [draft EXCEPT ![r] = wanted]
  /\ Go(r, "saving")
  /\ UNCHANGED <<disk, settingsVars, jobVars, on, about, shown, due, spared, faults,
                 restarts, pastVars>>

\* Seeded fault: a file that could not be written does not stop the update.
SaveFileUnchecked(r) ==
  /\ at[r] = "saving" /\ Go(r, "saved")
  /\ \/ saved' = draft[r] /\ UNCHANGED faults
     \/ Fails /\ UNCHANGED saved
  /\ crossed' = (crossed \/ \E c \in Clients : at[c] = "saved")
  /\ UNCHANGED <<disk, settings, jobVars, askVars, requests, restarts,
                 created, gone, lost>>

\* SaveSettings writes the file first, outside the lock, ...
SaveFile(r) ==
  /\ at[r] = "saving"
  /\ \/ /\ saved' = draft[r] /\ Go(r, "saved")
        /\ UNCHANGED <<faults, askVars>>
     \/ Fails /\ UNCHANGED saved /\ Answer(r)
  /\ crossed' = (crossed \/ \E c \in Clients : at[c] = "saved")
  /\ UNCHANGED <<disk, settings, jobVars, requests, restarts,
                 created, gone, lost>>

\* ... then the copy in memory.
SaveMemory(r) ==
  /\ at[r] = "saved" /\ Answer(r)
  /\ settings' = draft[r]
  /\ UNCHANGED <<disk, saved, jobVars, boundVars, pastVars>>

-----------------------------------------------------------------------------
(* GetAnalysis, GetExport, and a Cancel that finds nothing to cancel *)

\* LiveState (or Cancel) first. A job it tracks is answered at once. Ids are
\* known once QueueAnalysis or QueueExport has answered.
LookLive(r) ==
  /\ Asks(r)
  /\ \E j \in Jobs :
       /\ phase[j] \notin {"new", "read", "reserved"} /\ j \notin Tracked
       /\ about' = [about EXCEPT ![r] = j]
  /\ Go(r, "looking")
  /\ UNCHANGED <<disk, settingsVars, jobVars, on, draft, shown, due, spared, faults,
                 restarts, pastVars>>

\* AnalysisInfo, ExportInfo: Stat, then the files. A committed job is answered,
\* be it with an error when its files, or its id with a suffix, cannot be read.
LookStore(r) ==
  /\ at[r] = "looking"
  /\ \/ dir[about[r]] = "final" /\ Answer(r)
     \/ dir[about[r]] # "final" /\ Go(r, "missing") /\ UNCHANGED <<askVars>>
  /\ UNCHANGED <<disk, settingsVars, jobVars, boundVars, pastVars>>

AnswerMissing(r) ==
  /\ at[r] = "missing" /\ Answer(r)
  /\ UNCHANGED <<disk, settingsVars, jobVars, boundVars, pastVars>>

-----------------------------------------------------------------------------
(* GetProject *)

Committed(p) == {j \in Of(p) : dir[j] = "final"}

\* The job queued last among those of p the service still holds.
Newest(p) ==
  LET held == SelectSeq(line, LAMBDA j : home[j] = p)
  IN IF held = <<>> THEN {} ELSE {Last(held)}

\* Analyses and Exports list what is committed, ...
ListCommitted(r) ==
  /\ Asks(r)
  /\ \E p \in Ids :
       /\ record[p] # NoRecord
       /\ on' = [on EXCEPT ![r] = p]
       /\ shown' = [shown EXCEPT ![r] = Committed(p)]
       /\ due' = [due EXCEPT ![r] = Committed(p) \cup Newest(p)]
  /\ Go(r, "listed")
  /\ UNCHANGED <<disk, settingsVars, jobVars, about, draft, spared, faults, restarts,
                 pastVars>>

\* ... then LiveForProject adds the live job. A job that is still queued or
\* running behind a newer one is not due.
AddLive(r) ==
  /\ at[r] = "listed" /\ Go(r, "shown")
  /\ shown' = [shown EXCEPT ![r] = @ \cup ({latest[on[r]]} \cap Tracked)]
  /\ due' = [due EXCEPT ![r] = @ \ (Tracked \ Newest(on[r]))]
  /\ UNCHANGED <<disk, settingsVars, jobVars, on, about, draft, spared, boundVars, pastVars>>

AnswerPage(r) ==
  /\ at[r] = "shown" /\ Answer(r)
  /\ UNCHANGED <<disk, settingsVars, jobVars, boundVars, pastVars>>

-----------------------------------------------------------------------------
(* Jobs *)

Step(j, from, to) == phase[j] = from /\ phase' = [phase EXCEPT ![j] = to]

\* QueueAnalysis, QueueExport read the project, ...
ReadProject(j) ==
  /\ Step(j, "new", "read")
  /\ \E p \in Ids, k \in {"analyses", "exports"} :
       record[p] # NoRecord /\ home' = [home EXCEPT ![j] = p]
       /\ kind' = [kind EXCEPT ![j] = k]
  /\ UNCHANGED <<disk, settingsVars, line, latest, requestVars, boundVars, pastVars>>

\* ... make a directory, and with MkdirAll every one above it, ...
NewDir(j) ==
  /\ Step(j, "read", "reserved")
  /\ made' = made \cup {home[j]} /\ dir' = [dir EXCEPT ![j] = "tmp"]
  /\ UNCHANGED <<record, manifest, settingsVars, home, kind, line, latest, requestVars,
                 boundVars, pastVars>>

\* ... and submit a job that is tracked before it can run.
Track(j) ==
  /\ Step(j, "reserved", "queued")
  /\ line' = Append(line, j) /\ latest' = [latest EXCEPT ![home[j]] = j]
  /\ UNCHANGED <<disk, settingsVars, home, kind, requestVars, boundVars, pastVars>>

\* The worker takes one job at a time.
Start(j) ==
  /\ Step(j, "queued", "running")
  /\ \A k \in Jobs : phase[k] \notin {"running", "returned", "moved", "rewriting"}
  /\ UNCHANGED <<disk, settingsVars, home, kind, line, latest, requestVars, boundVars,
                 pastVars>>

\* A queued job is cancelled; its directory is empty and is discarded.
Withdraw(j) ==
  /\ Step(j, "queued", "dropped")
  /\ dir' = [dir EXCEPT ![j] = "absent"] /\ lost' = lost \cup {j}
  /\ UNCHANGED <<made, record, manifest, settingsVars, home, kind, line, latest,
                 requestVars, boundVars, created, gone, crossed>>

\* status.json of a running job, in a directory made anew if it is gone.
WriteStatus(j) ==
  /\ phase[j] = "running" /\ dir[j] = "absent"
  /\ made' = made \cup {home[j]} /\ dir' = [dir EXCEPT ![j] = "tmp"]
  /\ UNCHANGED <<record, manifest, settingsVars, jobVars, requestVars, boundVars, pastVars>>

\* The rename of a .tmp, which may fail, or the removal of an empty one.
Publish(j) ==
  \/ dir[j] = "tmp" /\ dir' = [dir EXCEPT ![j] = "final"] /\ UNCHANGED <<lost, faults>>
  \/ dir[j] = "tmp" /\ dir' = [dir EXCEPT ![j] = "absent"] /\ lost' = lost \cup {j}
     /\ UNCHANGED faults
  \/ dir[j] = "tmp" /\ Fails /\ lost' = lost \cup {j} /\ UNCHANGED dir
  \/ dir[j] # "tmp" /\ UNCHANGED <<dir, lost, faults>>

\* Seeded fault: the hook untracks the job before it publishes the directory.
ReturnUntracked(j) ==
  /\ Step(j, "running", "returned")
  /\ line' = RemoveFirst(line, j)
  /\ UNCHANGED <<disk, settingsVars, home, kind, latest, requestVars, boundVars, pastVars>>

\* Run returns.
Return(j) ==
  /\ Step(j, "running", "returned")
  /\ UNCHANGED <<disk, settingsVars, home, kind, line, latest, requestVars, boundVars,
                 pastVars>>

\* An analysis has published its directory itself, or the hook does.
Finalize(j) ==
  /\ Step(j, "returned", "moved") /\ Publish(j)
  /\ UNCHANGED <<made, record, manifest, settingsVars, home, kind, line, latest,
                 requestVars, requests, restarts, created, gone, crossed>>

\* The hook reads status.json to correct it, ...
ReadStatus(j) ==
  /\ dir[j] = "final" /\ Step(j, "moved", "rewriting")
  /\ UNCHANGED <<disk, settingsVars, home, kind, line, latest, requestVars, boundVars,
                 pastVars>>

\* ... and writes it, in a directory made anew if it is gone by then.
RewriteStatus(j) ==
  /\ phase[j] = "rewriting" /\ phase' = [phase EXCEPT ![j] = "corrected"]
  /\ made' = made \cup {home[j]} /\ dir' = [dir EXCEPT ![j] = "final"]
  /\ UNCHANGED <<record, manifest, settingsVars, home, kind, line, latest, requestVars,
                 boundVars, pastVars>>

\* The index lets go of j, of its project's entry only when it is j's.
Untrack(j) ==
  /\ phase[j] \in {"dropped", "moved", "corrected"}
  /\ phase' = [phase EXCEPT ![j] = "over"]
  /\ line' = RemoveFirst(line, j)
  /\ latest' = [latest EXCEPT ![home[j]] = IF @ = j THEN NoJob ELSE @]
  /\ UNCHANGED <<disk, settingsVars, home, kind, requestVars, boundVars, pastVars>>

\* DeleteAnalysis, DeleteExport.
DeleteJob(j) ==
  /\ dir[j] = "final" /\ requests < MaxRequests /\ requests' = requests + 1
  /\ dir' = [dir EXCEPT ![j] = "absent"] /\ lost' = lost \cup {j}
  /\ UNCHANGED <<made, record, manifest, settingsVars, jobVars, requestVars, faults,
                 restarts, created, gone, crossed>>

-----------------------------------------------------------------------------

\* A crash and the start after it: requests and jobs are gone, the sweep
\* removes every .tmp and Open reads the settings back.
Restart ==
  /\ restarts < MaxRestarts /\ restarts' = restarts + 1
  /\ settings' = saved
  /\ dir' = [j \in Jobs |-> IF dir[j] = "tmp" THEN "absent" ELSE dir[j]]
  /\ lost' = lost \cup {j \in Jobs : phase[j] # "new" /\ dir[j] # "final"}
  /\ phase' = [j \in Jobs |-> IF phase[j] = "new" THEN "new" ELSE "over"]
  /\ line' = <<>> /\ latest' = [p \in Ids |-> NoJob]
  /\ at' = [r \in Clients |-> "idle"] /\ on' = [r \in Clients |-> NoId]
  /\ about' = [r \in Clients |-> NoJob] /\ draft' = [r \in Clients |-> NoRecord]
  /\ shown' = [r \in Clients |-> {}] /\ due' = [r \in Clients |-> {}]
  /\ spared' = [r \in Clients |-> {}]
  /\ crossed' = FALSE
  /\ UNCHANGED <<made, record, manifest, saved, home, kind, requests, faults,
                 created, gone>>

Request(r) ==
  \/ Reserve(r) \/ WriteRecord(r) \/ WriteManifest(r) \/ CreateFails(r)
  \/ ReadRecord(r) \/ WriteTarget(r)
  \/ StatProject(r) \/ ListAnalyses(r) \/ ListExports(r) \/ RemoveProject(r)
  \/ TakeSettings(r) \/ SaveFile(r) \/ SaveMemory(r)
  \/ LookLive(r) \/ LookStore(r) \/ AnswerMissing(r)
  \/ ListCommitted(r) \/ AddLive(r) \/ AnswerPage(r)

Job(j) ==
  \/ ReadProject(j) \/ NewDir(j) \/ Track(j) \/ Start(j) \/ Withdraw(j)
  \/ WriteStatus(j) \/ Return(j) \/ Finalize(j) \/ ReadStatus(j) \/ RewriteStatus(j)
  \/ Untrack(j) \/ DeleteJob(j)

Next == (\E r \in Clients : Request(r)) \/ (\E j \in Jobs : Job(j)) \/ Restart

Spec == Init /\ [][Next]_vars

-----------------------------------------------------------------------------
(* Properties *)

\* Two creations never share a directory, and a project whose creation was
\* answered keeps, over failures, other requests and restarts, the manifest
\* uploaded for it next to a record of that same manifest, until it is deleted.
OwnManifest ==
  \A p \in Ids :
    created[p] # NoClient /\ p \notin gone =>
      /\ manifest[p] = created[p]
      /\ record[p] # NoRecord /\ record[p].owner = created[p]

\* DeleteProject: "a job holds its .tmp directory from the moment it queues
\* until it commits": a deletion never gets to remove a project under a job
\* that held its directory when the deletion began and still does.
DeletionSparesWriters ==
  \A r \in Clients :
    at[r] = "removing" => \A j \in spared[r] : dir[j] # "tmp" \/ j \in lost

\* "The store, not Service, has the last word": asking the index first and the
\* store after it, a request for a job that was queued is told that there is
\* none only when the job left no directory or a user deleted it.
JobsAreFound == \A r \in Clients : at[r] = "missing" => about[r] \in lost

\* SaveSettings: the settings the server works with are those a restart would
\* read, whichever write failed, as long as no two updates overlapped.
SettingsSurvive ==
  crossed \/ settings = saved \/ \E r \in Clients : at[r] = "saved"

\* GetProject returns the "full analysis and export history", a live job
\* prepended: what was committed when the page was asked for is on it, and so is
\* the job queued last among those still held, unless it is deleted meanwhile or
\* leaves nothing.
PageShowsEveryJob ==
  \A r \in Clients : at[r] = "shown" => due[r] \subseteq shown[r] \cup lost
=============================================================================
