----------------------------- MODULE JobService -----------------------------
(***************************************************************************)
(* jobs.Service over the queue and the store: directories reserved under a *)
(* .tmp name and published by rename (internal/store/pending.go), the      *)
(* service's index of live jobs and its finalize hook                      *)
(* (internal/jobs/service.go), what Analysis.Run and Export.Run leave on   *)
(* disk, deletion, and the sweep at start.  Composes with JobQueue: the    *)
(* finalize hook is the worker's, or a canceller's, "hook" step.           *)
(*                                                                         *)
(* One project: no two projects share a directory, and the index keeps     *)
(* them apart by key.                                                      *)
(***************************************************************************)
EXTENDS JobQueue

CONSTANTS
  RandomSuffixes,    \* the random suffixes NewDir may draw
  NoSuffix,    \* an id that is the second alone
  NoDir,
  Seconds,     \* bound: the seconds in which directories are made
  MaxCrashes,  \* bound: crashes of the server
  MaxFaults    \* bound: file operations that fail for no reason in the model

ASSUME SuffixAssumption == NoSuffix \notin RandomSuffixes

VARIABLES
  boot,        \* "up", or how far the start of the server got
  crashes,
  tmp, final,  \* what <id>.tmp and <id> hold, by directory id
  free,        \* free[j]: the id whose final path NewDir found free for j
  dirOf,       \* dirOf[j]: the id of j's Pending, NoDir before and without one
  ran,         \* ran[j]: what j's Run has come to
  fin,         \* fin[j]: where the finalize hook of j is
  byQueueID,   \* the jobs in Service.byQueueID
  byJobKey,    \* Service.byJobKey of the directory id
  byProject,   \* Service.byProjectID of the one project
  crashed,     \* history: jobs a crash took with it
  given,       \* history: given[i]: how often NewDir handed out i, up to 2
  deleted,     \* history: ids whose committed directory a user deleted
  faults,
  unmoved,     \* history: ids whose .tmp a hook could not read, move or remove
  swept,        \* history: those whose .tmp a start then removed or emptied
  unsaid       \* history: ids whose status.json a hook or a start could not rewrite

diskVars == <<tmp, final>>
indexVars == <<byQueueID, byJobKey, byProject>>
bootVars == <<boot, crashes, crashed>>
failVars == <<faults, unmoved, swept, unsaid>>
pastVars == <<given, deleted, failVars>>
serviceVars == <<bootVars, diskVars, free, dirOf, ran, fin, indexVars, pastVars>>
vars == <<queueVars, serviceVars>>

\* A directory: absent, empty, with files but no status.json, or with a
\* status.json in a state.
States == Terminal \cup {"running", "interrupted"}
Contents == {"absent", "empty", "files"} \cup States

\* What an os.RemoveAll that fails leaves of a directory.
Remains(c) == {"empty", c} \cup (IF c \in States THEN {"files"} ELSE {})

Faults(n) == faults + n <= MaxFaults /\ faults' = faults + n

Kinds == {"analysis", "export"}
Ids == [kind : Kinds, at : Seconds, suffix : RandomSuffixes \cup {NoSuffix}]

\* readAnalysisInfo and readExportInfo parse the id as a plain timestamp.
Readable(i) == i.suffix = NoSuffix

\* A job is of the kind its directory was made for.
Kind(j) == dirOf[j].kind

\* The state they report. Without a status.json an export counts as done.
Shown(i) ==
  IF final[i] \in States THEN final[i]
  ELSE IF i.kind = "export" THEN "done" ELSE "interrupted"

ServiceInit ==
  /\ QueueInit
  /\ boot = "up" /\ crashes = 0 /\ crashed = {}
  /\ given = [i \in Ids |-> 0] /\ deleted = {}
  /\ faults = 0 /\ unmoved = {} /\ swept = {} /\ unsaid = {}
  /\ tmp = [i \in Ids |-> "absent"] /\ final = [i \in Ids |-> "absent"]
  /\ free = [j \in Jobs |-> NoDir] /\ dirOf = [j \in Jobs |-> NoDir]
  /\ ran = [j \in Jobs |-> "no"] /\ fin = [j \in Jobs |-> "no"]
  /\ byQueueID = {} /\ byJobKey = [i \in Ids |-> NoJob] /\ byProject = NoJob

-----------------------------------------------------------------------------
(* QueueAnalysis and QueueExport *)

\* An export needs an analysis the store reads as done.
MayQueue(k) ==
  k = "export" =>
    \E i \in Ids : i.kind = "analysis" /\ Readable(i)
                   /\ final[i] # "absent" /\ Shown(i) = "done"

\* The second alone as an id.
Plain(k, t) == [kind |-> k, at |-> t, suffix |-> NoSuffix]

\* NewDir finds no committed directory under an id: the second alone, or with
\* a suffix when one holds that.  The second is the wall clock's, which may be
\* set back.
NewDirStat(j) ==
  /\ boot = "up" /\ id[j] = 0 /\ dirOf[j] = NoDir /\ free[j] = NoDir
  /\ \E i \in Ids :
       /\ MayQueue(i.kind) /\ final[i] = "absent"
       /\ i = Plain(i.kind, i.at) \/ final[Plain(i.kind, i.at)] # "absent"
       /\ free' = [free EXCEPT ![j] = i]
  /\ UNCHANGED <<queueVars, bootVars, diskVars, dirOf, ran, fin, indexVars, pastVars>>

\* Mkdir of the .tmp: it exists already, and NewDir tries with a suffix, ...
NewDirTaken(j) ==
  /\ free[j] # NoDir /\ tmp[free[j]] # "absent"
  /\ \E x \in RandomSuffixes :
       LET i == [free[j] EXCEPT !.suffix = x]
       IN final[i] = "absent" /\ free' = [free EXCEPT ![j] = i]
  /\ UNCHANGED <<queueVars, bootVars, diskVars, dirOf, ran, fin, indexVars, pastVars>>

\* Seeded fault: MkdirAll, which an existing .tmp does not stop.
NewDirMakeAnyway(j) ==
  /\ free[j] # NoDir
  /\ tmp' = [tmp EXCEPT ![free[j]] = "empty"]
  /\ dirOf' = [dirOf EXCEPT ![j] = free[j]]
  /\ free' = [free EXCEPT ![j] = NoDir]
  /\ given' = [given EXCEPT ![free[j]] = Min({@ + 1, 2})]
  /\ UNCHANGED <<queueVars, bootVars, final, ran, fin, indexVars, deleted, failVars>>

\* ... or the directory is reserved.
NewDirMake(j) ==
  /\ free[j] # NoDir /\ tmp[free[j]] = "absent"
  /\ tmp' = [tmp EXCEPT ![free[j]] = "empty"]
  /\ dirOf' = [dirOf EXCEPT ![j] = free[j]]
  /\ free' = [free EXCEPT ![j] = NoDir]
  /\ given' = [given EXCEPT ![free[j]] = Min({@ + 1, 2})]
  /\ UNCHANGED <<queueVars, bootVars, final, ran, fin, indexVars, deleted, failVars>>

\* SubmitWith, which tracks the job before the worker can see it.
Queue(j) ==
  /\ Submit(j) /\ dirOf[j] # NoDir
  /\ byQueueID' = byQueueID \cup {j}
  /\ byJobKey' = [byJobKey EXCEPT ![dirOf[j]] = j]
  /\ byProject' = j
  /\ UNCHANGED <<bootVars, diskVars, free, dirOf, ran, fin, pastVars>>

\* delete of one tracked job from the index; the project's entry only when it
\* is still this job's.
Untrack(j, i) ==
  /\ byQueueID' = byQueueID \ {j}
  /\ byJobKey' = [byJobKey EXCEPT ![i] = NoJob]
  /\ byProject' = IF byProject = j THEN NoJob ELSE byProject

\* A closed queue refuses: untrackPending, then Discard, whose error is dropped.
QueueRefused(j) ==
  /\ closed /\ id[j] = 0 /\ dirOf[j] # NoDir
  /\ IF byJobKey[dirOf[j]] = NoJob THEN UNCHANGED indexVars
     ELSE Untrack(byJobKey[dirOf[j]], dirOf[j])
  /\ \/ tmp' = [tmp EXCEPT ![dirOf[j]] = "absent"] /\ UNCHANGED faults
     \/ Faults(1) /\ UNCHANGED tmp
  /\ dirOf' = [dirOf EXCEPT ![j] = NoDir]
  /\ UNCHANGED <<queueVars, bootVars, final, free, ran, fin, given, deleted, unmoved,
                 swept, unsaid>>

\* Service.Cancel finds the job by its key and cancels it in the queue.
Cancel(j) ==
  /\ \E i \in Ids : byJobKey[i] = j
  /\ CancelRunning(j) \/ CancelQueued(j)
  /\ UNCHANGED serviceVars

-----------------------------------------------------------------------------
(* What a job's Run leaves on disk *)

\* Analysis.Run opens log.txt and writes status.json in state running; Export
\* starts on its working files.
Begin(j) ==
  /\ worker = "running" /\ current = j /\ ran[j] = "no"
  /\ tmp' = [tmp EXCEPT ![dirOf[j]] = IF Kind(j) = "export" THEN "files" ELSE "running"]
  /\ ran' = [ran EXCEPT ![j] = "began"]
  /\ UNCHANGED <<queueVars, bootVars, final, free, dirOf, fin, indexVars, pastVars>>

\* The outcome a job writes itself goes by its context, not by the queue.
Guess(j, e) ==
  IF j \in ctxDone THEN "cancelled" ELSE IF e = "nil" THEN "done" ELSE "failed"

\* Analysis.Run returns. Before Begin it leaves what little it wrote; after it
\* the deferred commit writes the outcome and renames, also past a panic, which
\* it takes for no error. A commit that fails leaves the .tmp behind.
AnalysisReturns(j) ==
  \/ /\ ran[j] = "no"
     /\ RunReturns("error")
     /\ \E c \in {"empty", "files"} : tmp' = [tmp EXCEPT ![dirOf[j]] = c]
     /\ UNCHANGED final
  \/ /\ ran[j] = "began" /\ final[dirOf[j]] = "absent"
     /\ \E e \in Errors, panic \in BOOLEAN :
          /\ panic => e = "nil"
          /\ final' = [final EXCEPT ![dirOf[j]] = Guess(j, e)]
          /\ tmp' = [tmp EXCEPT ![dirOf[j]] = "absent"]
          /\ RunReturns(IF panic THEN "error" ELSE e)
  \/ /\ ran[j] = "began"
     /\ \E e \in Errors :
          /\ \E c \in {tmp[dirOf[j]], Guess(j, e)} : tmp' = [tmp EXCEPT ![dirOf[j]] = c]
          /\ RunReturns(IF e = "canceled" THEN e ELSE "error")
     /\ UNCHANGED final

\* Export.Run returns. Done, it leaves its files; failed, its status.json in
\* their place, or, when that cannot be written or the job panics, none.
ExportReturns(j) ==
  /\ ran[j] = "began" /\ UNCHANGED final
  /\ \/ RunReturns("nil") /\ UNCHANGED tmp
     \/ \E e \in Errors \ {"nil"} :
          /\ RunReturns(e)
          /\ \E c \in {Guess(j, e), "files", "empty"} : tmp' = [tmp EXCEPT ![dirOf[j]] = c]
     \/ RunReturns("error") /\ UNCHANGED tmp

Return(j) ==
  /\ current = j
  /\ IF Kind(j) = "export" THEN ExportReturns(j) ELSE AnalysisReturns(j)
  /\ ran' = [ran EXCEPT ![j] = "returned"]
  /\ UNCHANGED <<bootVars, free, dirOf, fin, indexVars, pastVars>>

-----------------------------------------------------------------------------
(* Service.finalize, on the worker or on the goroutine of a Cancel *)

Finalizing(j) ==
  (worker = "hook" /\ current = j) \/ dropping[j] = "hook"

FinalState(j) == IF dropping[j] = "hook" THEN "cancelled" ELSE state

\* finalizePending finds nothing where the job took care of its directory, ...
TakenCareOf(i) == tmp[i] = "absent" /\ UNCHANGED <<diskVars, faults, unmoved>>

\* ... discards an empty one, ...
Discarded(i) ==
  /\ tmp[i] = "empty" /\ tmp' = [tmp EXCEPT ![i] = "absent"]
  /\ UNCHANGED <<final, faults, unmoved>>

\* ... commits any other, ...
Committing(i) ==
  /\ tmp[i] \notin {"absent", "empty"} /\ final[i] = "absent"
  /\ final' = [final EXCEPT ![i] = tmp[i]] /\ tmp' = [tmp EXCEPT ![i] = "absent"]
  /\ UNCHANGED <<faults, unmoved>>

\* ... or leaves the .tmp, when ReadDir, RemoveAll or Rename fails; a Rename onto
\* a directory that another job committed always does.
LeftBehind(i) ==
  /\ tmp[i] # "absent" /\ unmoved' = unmoved \cup {i}
  /\ IF tmp[i] # "empty" /\ final[i] # "absent" THEN UNCHANGED faults ELSE Faults(1)
  /\ UNCHANGED diskVars

FinalizePending(j) ==
  /\ Finalizing(j) /\ fin[j] = "no" /\ j \in byQueueID
  /\ LET i == dirOf[j] IN TakenCareOf(i) \/ Discarded(i) \/ Committing(i) \/ LeftBehind(i)
  /\ fin' = [fin EXCEPT ![j] = "moved"]
  /\ UNCHANGED <<queueVars, bootVars, free, dirOf, ran, indexVars, given, deleted, swept, unsaid>>

\* Seeded fault: status.json keeps the job's own account.
ReconcileNothing(j) ==
  /\ fin[j] = "moved"
  /\ fin' = [fin EXCEPT ![j] = "reconciled"]
  /\ UNCHANGED <<queueVars, bootVars, diskVars, free, dirOf, ran, indexVars, pastVars>>

\* reconcileAnalysisStatus: the queue's verdict replaces the state in a
\* committed status.json, if there is one and it can be read and written.
Reconcile(j) ==
  /\ fin[j] = "moved"
  /\ \/ /\ final' = [final EXCEPT ![dirOf[j]] = IF @ \in States THEN FinalState(j) ELSE @]
        /\ UNCHANGED <<unsaid, faults>>
     \/ /\ final[dirOf[j]] \in States /\ unsaid' = unsaid \cup {dirOf[j]}
        /\ Faults(1) /\ UNCHANGED final
  /\ fin' = [fin EXCEPT ![j] = "reconciled"]
  /\ UNCHANGED <<queueVars, bootVars, tmp, free, dirOf, ran, indexVars, given, deleted,
                 unmoved, swept>>

\* Seeded fault: the error of finalizePending ends the hook there.
FinalizeReturnsOnError(j) ==
  /\ (worker = "hook" /\ current = j /\ RunFinalizer) \/ DropHook(j)
  /\ \/ fin[j] = "reconciled" /\ Untrack(j, dirOf[j])
     \/ fin[j] = "moved" /\ dirOf[j] \in unmoved /\ UNCHANGED indexVars
     \/ fin[j] = "no" /\ j \notin byQueueID /\ UNCHANGED indexVars
  /\ fin' = [fin EXCEPT ![j] = "over"]
  /\ UNCHANGED <<bootVars, diskVars, free, dirOf, ran, pastVars>>

\* The hook untracks the job, whatever failed, and returns to the queue, which
\* only logs its error.
FinalizeReturns(j) ==
  /\ (worker = "hook" /\ current = j /\ RunFinalizer) \/ DropHook(j)
  /\ \/ /\ fin[j] = "reconciled"
        /\ Untrack(j, dirOf[j])
     \/ /\ fin[j] = "no" /\ j \notin byQueueID
        /\ UNCHANGED indexVars
  /\ fin' = [fin EXCEPT ![j] = "over"]
  /\ UNCHANGED <<bootVars, diskVars, free, dirOf, ran, pastVars>>

-----------------------------------------------------------------------------
(* Users, crashes *)

\* DeleteAnalysis, DeleteExport: no check that anything still uses it, and a
\* RemoveAll that may fail half way.
Delete(i) ==
  /\ boot = "up" /\ final[i] # "absent"
  /\ \/ final' = [final EXCEPT ![i] = "absent"] /\ UNCHANGED faults
     \/ \E c \in Remains(final[i]) : final' = [final EXCEPT ![i] = c] /\ Faults(1)
  /\ deleted' = deleted \cup {i}
  /\ UNCHANGED <<queueVars, bootVars, tmp, free, dirOf, ran, fin, indexVars, given,
                 unmoved, swept, unsaid>>

\* The queue, the index and every goroutine are in memory only.
Crash ==
  /\ boot # "down" /\ crashes < MaxCrashes
  /\ boot' = "down" /\ crashes' = crashes + 1
  /\ crashed' = crashed \cup {j \in Jobs : id[j] > 0 /\ ends[j] = 0}
  /\ pending' = <<>> /\ current' = NoJob /\ closed' = FALSE
  /\ cancelRequested' = FALSE /\ nextID' = 0 /\ worker' = "waiting"
  /\ firing' = {}
  /\ dropping' = [j \in Jobs |-> IF dropping[j] = "gone" THEN "gone" ELSE "no"]
  /\ free' = [j \in Jobs |-> NoDir]
  /\ dirOf' = [j \in Jobs |-> IF id[j] = 0 THEN NoDir ELSE dirOf[j]]
  /\ fin' = [j \in Jobs |-> "no"]
  /\ byQueueID' = {} /\ byJobKey' = [i \in Ids |-> NoJob] /\ byProject' = NoJob
  /\ UNCHANGED <<id, err, state, ctxDone, runs, asked, toldVars,
                 diskVars, ran, pastVars>>

\* The start: MarkRunningInterrupted, whose pattern matches a .tmp too, skips
\* what it cannot read or write, ...
MarkRunningInterrupted ==
  /\ boot = "down" /\ boot' = "marked"
  /\ \E skipTmp \in SUBSET {i \in Ids : tmp[i] = "running"},
        skip \in SUBSET {i \in Ids : final[i] = "running"} :
       LET Marked(d, s) ==
             [i \in Ids |-> IF d[i] = "running" /\ i \notin s THEN "interrupted" ELSE d[i]]
       IN /\ tmp' = Marked(tmp, skipTmp) /\ final' = Marked(final, skip)
          /\ unsaid' = unsaid \cup skip
          /\ Faults(Cardinality(skipTmp) + Cardinality(skip))
  /\ UNCHANGED <<queueVars, crashes, crashed, free, dirOf, ran, fin, indexVars, given,
                 deleted, unmoved, swept>>

\* ... then RemoveOrphanDirs, which goes on past a directory it cannot remove
\* and may have emptied; only then does the server listen.
RemoveOrphanDirs ==
  /\ boot = "marked" /\ boot' = "up"
  /\ \E kept \in SUBSET {i \in Ids : tmp[i] # "absent"} :
       \E emptied \in SUBSET kept :
         /\ tmp' = [i \in Ids |-> IF i \notin kept THEN "absent"
                                 ELSE IF i \in emptied THEN "empty" ELSE tmp[i]]
         /\ Faults(Cardinality(kept))
         /\ swept' = swept \cup (unmoved \ (kept \ emptied))
  /\ UNCHANGED <<queueVars, crashes, crashed, final, free, dirOf, ran, fin,
                 indexVars, given, deleted, unmoved, unsaid>>

-----------------------------------------------------------------------------

\* The queue's own steps that the service has no part in.
QueueStep ==
  /\ boot = "up"
  /\ \/ Pick \/ Stop \/ Judge \/ PublishEnd \/ Close
     \/ \E j \in Jobs : FireCancel(j) \/ DropEnd(j)
  /\ UNCHANGED serviceVars

ServiceNext ==
  \/ QueueStep
  \/ \E j \in Jobs :
       \/ NewDirStat(j) \/ NewDirTaken(j) \/ NewDirMake(j) \/ Queue(j) \/ QueueRefused(j)
       \/ Cancel(j) \/ Begin(j) \/ Return(j)
       \/ FinalizePending(j) \/ Reconcile(j) \/ FinalizeReturns(j)
  \/ \E i \in Ids : Delete(i)
  \/ Crash \/ MarkRunningInterrupted \/ RemoveOrphanDirs

ServiceSpec == ServiceInit /\ [][ServiceNext]_vars

-----------------------------------------------------------------------------
(* Properties *)

\* The id of j's directory was handed out once.
Alone(j) == dirOf[j] # NoDir /\ given[dirOf[j]] = 1

\* j has a directory that neither its Run nor its finalize hook is done with.
Owns(j) ==
  /\ dirOf[j] # NoDir /\ ran[j] # "returned" /\ fin[j] = "no"
  /\ hooks[j] = 0 /\ j \notin crashed

\* SubmitWith: "registering after Submit returns races a job that has already
\* finished": the service tracks every job the queue holds, from the moment
\* the worker can see it until its hook is done with its directory.  Whatever
\* of its files failed, a job whose end was announced is in no index, and it
\* has a .tmp left only where its hook could not move it.
IndexFollowsJobs ==
  \A j \in Jobs :
    Alone(j) =>
      /\ j \in Range(pending) \/ (j = current /\ worker # "ending") \/ dropping[j] = "hook"
           => j \in byQueueID /\ byJobKey[dirOf[j]] = j
      /\ ends[j] > 0 =>
           /\ j \notin byQueueID /\ byProject # j /\ byJobKey[dirOf[j]] = NoJob
           /\ tmp[dirOf[j]] = "absent" \/ dirOf[j] \in unmoved

\* A hook could not move the directory, which still holds what its job wrote
\* unless a start of the server took it for an orphan.
Stranded(i) == i \in unmoved /\ (tmp[i] \notin {"absent", "empty"} \/ i \in swept)

\* "The queue, not the job, has the last word", and finalizePending: "a failed
\* commit here loses a finished export outright": a job that ended done is on
\* disk until somebody deletes it; when its commit failed its .tmp still holds
\* it, and only a later start loses it.  A status.json a job left says what the
\* queue announced, whichever way the job, its context and its commit disagreed,
\* and while the server is up, after a crash too, a published one says running
\* only on behalf of a job whose hook is about to correct it: each unless that
\* very file could not be rewritten.
DiskTellsTheVerdict ==
  /\ \A j \in Jobs :
       ends[j] > 0 /\ Alone(j) =>
         /\ verdict[j] = "done" =>
              final[dirOf[j]] # "absent" \/ dirOf[j] \in deleted \/ Stranded(dirOf[j])
         /\ final[dirOf[j]] \in States /\ dirOf[j] \notin unsaid =>
              final[dirOf[j]] = verdict[j]
  /\ boot = "up" =>
       \A i \in Ids : final[i] = "running" /\ given[i] = 1 /\ i \notin unsaid =>
         \E j \in byQueueID : dirOf[j] = i /\ fin[j] = "moved"

\* A directory was committed under the id at some time.
Committed(i) == final[i] # "absent" \/ i \in deleted

\* NewDir: "two calls inside the same second would otherwise get the same ID":
\* the directory a job that waits or runs writes to is no other's, unless the
\* id was committed between the Stat of one of them and its Mkdir.
OwnDirectory ==
  \A j, k \in Jobs :
    j # k /\ Owns(j) /\ Owns(k) /\ dirOf[j] = dirOf[k] => Committed(dirOf[j])
=============================================================================
