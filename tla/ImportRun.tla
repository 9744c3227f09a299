------------------------------ MODULE ImportRun ------------------------------
(***************************************************************************)
(* What an attempt of an import does: Handlers.StartImport, RetryImport,   *)
(* RunAttempt and remove (internal/importer/service), importer.RunAttempt  *)
(* and PublishEach (internal/importer), over MinIO and Nexus.  Composes    *)
(* with ImportQueue, whose open RunStep it takes the place of.             *)
(*                                                                         *)
(* One archive key of one user.  An object is its ETag; an archive and a   *)
(* manifest of the same export have the same one here.  A call to MinIO or *)
(* Nexus may fail at any time, and one that changes something may have     *)
(* done so.                                                                *)
(***************************************************************************)
EXTENDS ImportQueue

CONSTANTS
  Versions,    \* the exports the user may put under the key
  Gone,        \* no object
  MaxChanges   \* bound: objects the user changes, packages others put in Nexus

ASSUME GoneAssumption == Gone \notin Versions

VARIABLES
  objects,    \* the archive and the manifest in MinIO
  nexus,      \* nexus[p]: what Nexus serves of package p
  described,  \* described[i]: what checkArchive found, before startMu is taken
  recorded,   \* recorded[i]: the ETags in i's record
  step,       \* where RunAttempt, or remove, is
  raced,      \* history: the user changed an object after remove's check
  taken,      \* history: archives the service deleted, as its check saw them
  emptied,    \* history: imports whose remover deleted an archive
  changes

minioVars == <<objects, described, recorded>>
pastVars == <<raced, taken, emptied, changes>>
runVars == <<minioVars, nexus, step, pastVars>>
vars == <<importVars, runVars>>

Objects == [archive : Versions \cup {Gone}, manifest : Versions \cup {Gone}]
Nowhere == [archive |-> Gone, manifest |-> Gone]

\* "same" is the content of a package stripped at export, packed differently.
Copies == {"absent", "shipped", "same", "other"}

RunInit ==
  /\ ImportInit
  /\ objects \in {[archive |-> v, manifest |-> v] : v \in Versions}
  /\ nexus = Every("absent")
  /\ described = [i \in Imports |-> Nowhere] /\ recorded = [i \in Imports |-> Nowhere]
  /\ step = "head" /\ raced = FALSE /\ taken = {} /\ emptied = {} /\ changes = 0

-----------------------------------------------------------------------------
(* Handlers *)

\* checkArchive, before the lock: both objects are there.
CheckArchive(i) ==
  /\ boot = "up" /\ record[i] = <<>> /\ described[i] = Nowhere
  /\ objects.archive # Gone /\ objects.manifest # Gone
  /\ described' = [described EXCEPT ![i] = objects]
  /\ UNCHANGED <<importVars, objects, recorded, nexus, step, pastVars>>

\* Import.Outcome
Outcome(i) == IF Unended(i) THEN Latest(i).status ELSE Latest(i).outcome

\* Seeded fault: an attempt cut short does not block.
BlocksRunning(k, objs) ==
  record[k] # <<>> /\ recorded[k] = objs /\ Unended(k)

\* An earlier import of the same objects blocks a start.
Blocks(k, objs) ==
  record[k] # <<>> /\ recorded[k] = objs /\ Outcome(k) \notin {"complete", "refused"}

StartImport(i) ==
  /\ described[i] # Nowhere
  /\ \/ /\ \A k \in Imports : ~Blocks(k, described[i])
        /\ Create(i)
        /\ recorded' = [recorded EXCEPT ![i] = described[i]]
     \/ /\ boot = "up" /\ handler.at = "idle" /\ \E k \in Imports : Blocks(k, described[i])
        /\ UNCHANGED <<importVars, recorded>>
  /\ described' = [described EXCEPT ![i] = Nowhere]
  /\ UNCHANGED <<objects, nexus, step, pastVars>>

\* RetryImport asks only for an archive under the key.
RetryImport(i) ==
  /\ objects.archive # Gone
  /\ Retry(i)
  /\ UNCHANGED runVars

-----------------------------------------------------------------------------
(* RunAttempt: MinIO *)

At(s) == worker = "running" /\ step = s
Return(outcome, rm) == RunReturns(outcome, rm) /\ step' = "head"
QuietRun == UNCHANGED <<minioVars, nexus, pastVars>>
QuietQueue == UNCHANGED importVars

Changed(o) == objects[o] \notin {Gone, recorded[it][o]}
Same(o) == objects[o] = recorded[it][o]

\* unchanged: the archive's ETag, then the manifest's. The directory of the
\* run may not be made, which counts as a refusal.
HeadObjects ==
  /\ At("head")
  /\ \/ Same("archive") /\ Same("manifest") /\ step' = "manifest" /\ QuietQueue
     \/ (Changed("archive") \/ (Same("archive") /\ Changed("manifest"))) /\ Return("refused", FALSE)
     \/ Return("incomplete", FALSE)
     \/ Same("archive") /\ Same("manifest") /\ Return("refused", FALSE)
  /\ QuietRun

\* readManifest, on condition of the ETag. A failure names no package; one that
\* is not MinIO's, in its parsing for one, is a refusal.
ReadManifest ==
  /\ At("manifest")
  /\ \/ Same("manifest") /\ Listed /\ step' = "archive"
     \/ objects.manifest # Gone /\ Return("refused", FALSE)
     \/ Return("incomplete", FALSE)
  /\ QuietRun

\* verify, on condition of the ETag: an archive the manifest does not describe
\* never passes, a failure of the source fails every package, any other one and
\* a change are refusals.
ReadArchive ==
  /\ At("archive")
  /\ \/ /\ Same("archive") /\ recorded[it].archive = recorded[it].manifest
        /\ Checked /\ step' = "repository"
     \/ objects.archive # Gone /\ Return("refused", FALSE)
     \/ QuietQueue /\ step' = "failing"
  /\ QuietRun

-----------------------------------------------------------------------------
(* PublishEach: Nexus *)

Pending == {p \in Packages : rep.packages[p] = "pending"}
First == CHOOSE p \in Pending : \A o \in Pending : p <= o

CheckRepository ==
  /\ At("repository")
  /\ step' \in {"fetch", "failing"}
  /\ QuietQueue /\ QuietRun

\* Every package fails for the one reason.
FailEvery ==
  /\ At("failing")
  /\ IF Pending # {} THEN Ended(First, "failed") /\ UNCHANGED step
     ELSE Return("incomplete", FALSE)
  /\ QuietRun

\* Seeded fault: a version that Nexus holds is taken for the shipped one.
FetchTrusting ==
  /\ At("fetch") /\ Pending # {}
  /\ \/ Ended(First, "failed") /\ UNCHANGED step
     \/ /\ ~ctxDone /\ nexus[First] # "absent"
        /\ Ended(First, "present") /\ UNCHANGED step
     \/ ~ctxDone /\ nexus[First] = "absent" /\ step' = "upload" /\ QuietQueue
  /\ QuietRun

\* publishOne asks Nexus first. No package starts after an interrupt.
Fetch ==
  /\ At("fetch") /\ Pending # {}
  /\ \/ Ended(First, "failed") /\ UNCHANGED step
     \/ /\ ~ctxDone /\ nexus[First] \in {"shipped", "same"}
        /\ Ended(First, "present") /\ UNCHANGED step
     \/ ~ctxDone /\ nexus[First] = "absent" /\ step' = "upload" /\ QuietQueue
  /\ QuietRun

\* Nexus takes the bytes or, when the version came to be meanwhile and may not
\* be replaced, not; the answer may be lost either way.
Upload ==
  /\ At("upload")
  /\ \/ /\ nexus' = [nexus EXCEPT ![First] = "shipped"]
        /\ \/ step' = "readback" /\ QuietQueue
           \/ step' = "fetch" /\ Ended(First, "failed")
     \/ UNCHANGED nexus /\ step' = "fetch" /\ Ended(First, "failed")
  /\ UNCHANGED <<minioVars, pastVars>>

ReadBack ==
  /\ At("readback")
  /\ \/ nexus[First] = "shipped" /\ Ended(First, "published")
     \/ Ended(First, "failed")
  /\ step' = "fetch"
  /\ QuietRun

\* runAttempt counts the results; everyPackageIn allows the removal.
PublishedEach ==
  /\ At("fetch") /\ Pending = {}
  /\ IF \E p \in Packages : rep.packages[p] = "failed" THEN Return("incomplete", FALSE)
     ELSE Return("complete", TRUE)
  /\ QuietRun

Panic == RunPanics /\ step' = "head" /\ QuietRun

-----------------------------------------------------------------------------
(* remove, once the complete end is stored *)

Removing(s) == worker = "removing" /\ step = s
Removes(rm) == RemoverReturns(rm) /\ step' = "head"

\* Seeded fault: the ETags are not compared again.
CheckPresent ==
  /\ Removing("head")
  /\ \/ /\ ~ctxDone /\ objects.archive # Gone /\ objects.manifest # Gone
        /\ step' = "archive" /\ QuietQueue
     \/ Removes("kept")
  /\ raced' = FALSE
  /\ UNCHANGED <<minioVars, nexus, taken, emptied, changes>>

\* Both objects are headed again, ...
CheckAgain ==
  /\ Removing("head")
  /\ \/ ~ctxDone /\ Same("archive") /\ Same("manifest") /\ step' = "archive" /\ QuietQueue
     \/ Removes("kept")
  /\ raced' = FALSE
  /\ UNCHANGED <<minioVars, nexus, taken, emptied, changes>>

TakeArchive ==
  /\ objects' = [objects EXCEPT !.archive = Gone]
  /\ taken' = IF raced \/ objects.archive = Gone THEN taken ELSE taken \cup {objects.archive}
  /\ emptied' = emptied \cup {it}

\* Seeded fault: the manifest goes first.
DeleteManifestFirst ==
  /\ Removing("archive")
  /\ \/ /\ objects' = [objects EXCEPT !.manifest = Gone]
        /\ step' = "manifest" /\ QuietQueue
     \/ UNCHANGED objects /\ Removes("kept")
  /\ UNCHANGED <<described, recorded, nexus, pastVars>>

\* ... then the archive is deleted, whatever it is by then, ...
DeleteArchive ==
  /\ Removing("archive")
  /\ \/ TakeArchive /\ step' = "manifest" /\ QuietQueue
     \/ TakeArchive /\ Removes("kept")
     \/ UNCHANGED <<objects, taken, emptied>> /\ Removes("kept")
  /\ UNCHANGED <<described, recorded, nexus, raced, changes>>

\* ... and after it the manifest.
DeleteManifest ==
  /\ Removing("manifest")
  /\ objects' \in {objects, [objects EXCEPT !.manifest = Gone]}
  /\ Removes("removed")
  /\ UNCHANGED <<described, recorded, nexus, pastVars>>

-----------------------------------------------------------------------------
(* The user, others, and the service as a whole *)

\* The user replaces or removes one of the objects.
Put(o, v) ==
  /\ changes < MaxChanges /\ changes' = changes + 1 /\ objects[o] # v
  /\ objects' = [objects EXCEPT ![o] = v]
  /\ raced' = TRUE
  /\ UNCHANGED <<importVars, described, recorded, nexus, step, taken, emptied>>

PublishElsewhere(p, c) ==
  /\ changes < MaxChanges /\ changes' = changes + 1 /\ nexus[p] = "absent" /\ c # "absent"
  /\ nexus' = [nexus EXCEPT ![p] = c]
  /\ UNCHANGED <<importVars, minioVars, step, raced, taken, emptied>>

\* The process ends within a run or a handler's check as well.
StopRun ==
  /\ Stop
  /\ step' = "head" /\ described' = [i \in Imports |-> Nowhere]
  /\ UNCHANGED <<objects, recorded, nexus, pastVars>>

QueueSteps ==
  /\ \/ Submit \/ Stopping \/ NextStops \/ NextTakes \/ NextWaits \/ NextWakes
     \/ Begin \/ Get \/ Abandon \/ Judge \/ Finish \/ Clean \/ Removed
     \/ Close \/ Sweep \/ SweepWork
  /\ UNCHANGED runVars

RunNext ==
  \/ QueueSteps \/ StopRun
  \/ \E i \in Imports : CheckArchive(i) \/ StartImport(i) \/ RetryImport(i)
  \/ boot = "up" /\ (\/ HeadObjects \/ ReadManifest \/ ReadArchive \/ CheckRepository
                     \/ FailEvery \/ Fetch \/ Upload \/ ReadBack \/ PublishedEach \/ Panic
                     \/ CheckAgain \/ DeleteArchive \/ DeleteManifest)
  \/ \E o \in {"archive", "manifest"}, v \in Versions \cup {Gone} : Put(o, v)
  \/ \E p \in Packages, c \in Copies : PublishElsewhere(p, c)

RunSpec == RunInit /\ [][RunNext]_vars

-----------------------------------------------------------------------------
(* Properties *)

Serves(p) == nexus[p] \in {"shipped", "same"}
Completed(a) == a.status = "ended" /\ a.outcome = "complete"

\* A record never says more of Nexus than is true, in an attempt that runs, one
\* that was cut short or one that ended, across lost answers, faults and stops;
\* "complete" means that Nexus serves every package as shipped.
RecordsAreTrue ==
  \A i \in Imports : \A m \in DOMAIN record[i] :
    LET a == record[i][m]
    IN /\ \A p \in Packages : a.packages[p] \in {"published", "present"} => Serves(p)
       /\ Completed(a) =>
            \A p \in Packages : a.packages[p] \in {"published", "present"}

\* remove "runs only after an attempt that put every package in Nexus": the
\* service deletes no archive but one whose complete import is on disk already,
\* save for what the user put there between its check and its delete; and a
\* removal on record is that of an archive this import's own attempt deleted,
\* though the store and the delete are two steps.
DeletesFollowRecords ==
  /\ \A v \in taken :
       \E i \in Imports : recorded[i] = [archive |-> v, manifest |-> v] /\
         \E m \in DOMAIN record[i] : Completed(record[i][m]) /\ \A p \in Packages : Serves(p)
  /\ \A i \in Imports : \A m \in DOMAIN record[i] :
       record[i][m].removal = "removed" => i \in emptied

\* StartImport reads "every match": two imports of the same objects are both
\* short of complete only through a retry, which asks for no other import,
\* though checkArchive reads MinIO before the lock.
OneStartPerObjects ==
  \A i, k \in Imports :
    /\ i # k /\ record[i] # <<>> /\ record[k] # <<>> /\ recorded[i] = recorded[k]
    /\ {Outcome(i), Outcome(k)} \cap {"complete", "refused"} = {}
    => Len(record[i]) > 1 \/ Len(record[k]) > 1

\* "The archive goes first: an archive left without its manifest would be
\* listed as not importable": the service never leaves one so, unless the user
\* put it there after the check.
NoArchiveWithoutManifest ==
  [][worker = "removing" /\ ~raced /\ objects'.manifest = Gone /\ objects.manifest # Gone
       => objects.archive = Gone \/ changes' # changes]_vars
=============================================================================
