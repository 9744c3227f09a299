------------------------------ MODULE ExportRun ------------------------------
(***************************************************************************)
(* Export.Run (internal/jobs/export.go): the package list, the downloads   *)
(* that share a tarball cache and run several at a time, the archive, the  *)
(* reports, and what a failed run clears away.  JobService knows it only   *)
(* by what it may leave.                                                   *)
(*                                                                         *)
(* A tarball is its sha512 and, in the cache, whether the bytes can be     *)
(* read and match that name.  DownloadFile (npm/registry.go) with its      *)
(* retries is one step, its check of what arrived included.                *)
(***************************************************************************)
EXTENDS Naturals, FiniteSets, Sequences

CONSTANTS
  N,          \* how many packages the export ships
  Parallel,   \* Settings.DownloadParallelism
  Digests,    \* sha512 digests of tarballs
  Other,      \* that of any bytes the lockfiles do not name
  NoSum

ASSUME SizesAssumption == N \in Nat \ {0} /\ Parallel \in Nat \ {0}
ASSUME OtherAssumption == Other \notin Digests /\ NoSum \notin Digests

VARIABLES
  locked,     \* locked[p]: p's tarball, and whether its integrity is a sha512
  cancelled,  \* the job's context is done
  step,       \* the step Run is at
  err,        \* what Run returns
  started,    \* how many downloads downloadAll started
  at,         \* at[p]: where p's goroutine is
  stopped,    \* downloadAll called cancel()
  firstErr,
  sha,        \* sha[p]: the sha512 that downloadOne has for p, of which p ships
  hits, done, \* the two counters
  nth,        \* nth[p]: what p's increment of done gave it
  shownHits,  \* the hits in the progress event of the last package
  cache,      \* cache/tarballs
  files,      \* the job's directory
  whole,      \* packages_npm.tar.gz is complete
  packed      \* the packages whose right bytes are in it

loopVars == <<started, at, stopped, firstErr, sha>>
countVars == <<hits, done, nth, shownHits>>
dirVars == <<files, whole, packed>>
vars == <<locked, cancelled, step, err, loopVars, countVars, cache, dirVars>>

Packages == 1..N
Bytes == {"absent", "good", "bad"}
Failures == {"canceled", "other"}
Working == {"downloads", "stripped", "export.cdx-input.json"}
Reports == <<"manifest.json", "export.cdx-input.json", "report.trivy.json", "report.cdx.json",
             "findings.csv", "summary.md">>
ExportInit ==
  /\ locked \in [Packages -> [digest : Digests, sha512 : BOOLEAN]]
  /\ cache \in [Digests -> Bytes]
  /\ cancelled = FALSE /\ step = "package-list" /\ err = "nil"
  /\ started = 0 /\ at = [p \in Packages |-> "waiting"] /\ stopped = FALSE /\ firstErr = "nil"
  /\ sha = [p \in Packages |-> NoSum]
  /\ hits = 0 /\ done = 0 /\ nth = [p \in Packages |-> 0] /\ shownHits = 0
  /\ files = {} /\ whole = FALSE /\ packed = {}

\* Cancel of the job, or Close of the queue.
Cancel ==
  /\ ~cancelled /\ step # "over" /\ cancelled' = TRUE
  /\ UNCHANGED <<locked, step, err, loopVars, countVars, cache, dirVars>>

\* A step of Run gives up: with its context's error only once that is done.
GiveUp(e) ==
  /\ e = "canceled" => cancelled
  /\ err' = e /\ step' = "failing"

\* The signature key and the lockfiles are there and the directories can be
\* made, or not.
PackageList ==
  /\ step = "package-list"
  /\ \/ step' = "download" /\ files' = files \cup {"downloads"} /\ UNCHANGED err
     \/ GiveUp("other") /\ files' \in {files, files \cup {"downloads"}}
  /\ UNCHANGED <<locked, cancelled, loopVars, countVars, cache, whole, packed>>

-----------------------------------------------------------------------------
(* downloadAll and downloadOne *)

InFlight == {p \in Packages : at[p] \notin {"waiting", "gone"}}
DownloadOver == stopped \/ cancelled
Move(p, from, to) == at[p] = from /\ at' = [at EXCEPT ![p] = to]
LeavesRun == UNCHANGED <<locked, cancelled, step, err, dirVars>>

\* The loop takes a slot for the next package, whatever happened to the others.
StartDownload ==
  /\ step = "download" /\ started < N /\ Cardinality(InFlight) < Parallel
  /\ started' = started + 1
  /\ Move(started + 1, "waiting", "checking")
  /\ LeavesRun /\ UNCHANGED <<stopped, firstErr, sha, countVars, cache>>

\* Seeded fault: a cached file is taken by its name.
CheckCacheByName(p) ==
  /\ LET found == IF locked[p].sha512 THEN cache[locked[p].digest] ELSE "absent"
     IN IF found # "absent"
        THEN Move(p, "checking", "hit") /\ sha' = [sha EXCEPT ![p] = locked[p].digest]
        ELSE Move(p, "checking", "fetching") /\ UNCHANGED sha
  /\ LeavesRun /\ UNCHANGED <<started, stopped, firstErr, countVars, cache>>

\* sha512CacheKey and fileSHA512: only a sha512 integrity names a cached file,
\* and its bytes are hashed before it counts. A file that cannot be read is a bad
\* one that is not dropped, but replaced.
CheckCache(p) ==
  /\ LET found == IF locked[p].sha512 THEN cache[locked[p].digest] ELSE "absent"
     IN \/ /\ found = "good" /\ Move(p, "checking", "hit")
           /\ sha' = [sha EXCEPT ![p] = locked[p].digest]
        \/ found = "bad" /\ Move(p, "checking", "dropping") /\ UNCHANGED sha
        \/ found # "good" /\ Move(p, "checking", "fetching") /\ UNCHANGED sha
  /\ LeavesRun /\ UNCHANGED <<started, stopped, firstErr, countVars, cache>>

\* os.Remove of the wrong file, or of what another download put there since.
DropCached(p) ==
  /\ Move(p, "dropping", "fetching")
  /\ cache' = [cache EXCEPT ![locked[p].digest] = "absent"]
  /\ LeavesRun /\ UNCHANGED <<started, stopped, firstErr, sha, countVars>>

\* ParseIntegrity, and the comparison with the digest of what arrived.
DigestMatches(p, sum) == sum = locked[p].digest

\* Bytes arrived, those the integrity names or others; ErrIntegrity ends the
\* tries.
Fetched(p) ==
  /\ \E sum \in {locked[p].digest, Other} :
       IF DigestMatches(p, sum)
       THEN Move(p, "fetching", "caching") /\ sha' = [sha EXCEPT ![p] = sum]
       ELSE Move(p, "fetching", "lost other") /\ UNCHANGED sha
  /\ LeavesRun /\ UNCHANGED <<started, stopped, firstErr, countVars, cache>>

\* The tarball is renamed into the cache, to the sha512 of its own bytes.
Store(p) ==
  /\ Move(p, "caching", "done")
  /\ cache' = [d \in Digests |-> IF d = sha[p] THEN "good" ELSE cache[d]]
  /\ LeavesRun /\ UNCHANGED <<started, stopped, firstErr, sha, countVars>>

\* An error of downloadOne: of the disk, of the network or of the registry at
\* the end of its tries, ...
DownloadFails(p) ==
  /\ \E from \in {"dropping", "fetching", "caching"} : Move(p, from, "lost other")
  /\ LeavesRun /\ UNCHANGED <<started, stopped, firstErr, sha, countVars, cache>>

\* ... or of the context of the downloads.
DownloadAborts(p) ==
  /\ DownloadOver /\ Move(p, "fetching", "lost canceled")
  /\ LeavesRun /\ UNCHANGED <<started, stopped, firstErr, sha, countVars, cache>>

LostTo == [p \in Packages |->
             CASE at[p] = "lost canceled" -> "canceled"
               [] at[p] = "lost other"    -> "other"
               [] OTHER                   -> "nil"]

\* Seeded fault: the last error is kept, not the first.
KeepLastError(p) ==
  /\ LostTo[p] # "nil"
  /\ firstErr' = LostTo[p]
  /\ at' = [at EXCEPT ![p] = "cancelling"]
  /\ LeavesRun /\ UNCHANGED <<started, stopped, sha, countVars, cache>>

\* Under the mutex: the first error is kept.
KeepFirstError(p) ==
  /\ LostTo[p] # "nil"
  /\ firstErr' = IF firstErr = "nil" THEN LostTo[p] ELSE firstErr
  /\ at' = [at EXCEPT ![p] = "cancelling"]
  /\ LeavesRun /\ UNCHANGED <<started, stopped, sha, countVars, cache>>

\* Seeded fault: the other downloads are left to themselves.
NoCancelOthers(p) ==
  /\ Move(p, "cancelling", "gone")
  /\ LeavesRun /\ UNCHANGED <<started, stopped, firstErr, sha, countVars, cache>>

\* cancel(), after the unlock.
CancelOthers(p) ==
  /\ Move(p, "cancelling", "gone") /\ stopped' = TRUE
  /\ LeavesRun /\ UNCHANGED <<started, firstErr, sha, countVars, cache>>

\* Seeded fault: a hit is counted after its package.
CountHitLast(p) ==
  /\ at[p] = "hit"
  /\ IF nth[p] = 0
     THEN done' = done + 1 /\ nth' = [nth EXCEPT ![p] = done + 1] /\ UNCHANGED <<at, hits>>
     ELSE Move(p, "hit", "reporting") /\ hits' = hits + 1 /\ UNCHANGED <<done, nth>>
  /\ LeavesRun /\ UNCHANGED <<started, stopped, firstErr, sha, shownHits, cache>>

CountHit(p) ==
  /\ Move(p, "hit", "done") /\ hits' = hits + 1
  /\ LeavesRun /\ UNCHANGED <<started, stopped, firstErr, sha, done, nth, shownHits, cache>>

CountDone(p) ==
  /\ Move(p, "done", "reporting")
  /\ done' = done + 1 /\ nth' = [nth EXCEPT ![p] = done + 1]
  /\ LeavesRun /\ UNCHANGED <<started, stopped, firstErr, sha, hits, shownHits, cache>>

\* The progress event: its count is p's own, the hits are read now.
ReportProgress(p) ==
  /\ Move(p, "reporting", "gone")
  /\ shownHits' = IF nth[p] = N THEN hits ELSE shownHits
  /\ LeavesRun /\ UNCHANGED <<started, stopped, firstErr, sha, hits, done, nth, cache>>

\* wg.Wait: every goroutine is over before the step is.
WaitForAll ==
  /\ step = "download" /\ started = N /\ InFlight = {}
  /\ step' = IF firstErr = "nil" THEN "strip" ELSE "failing"
  /\ err' = firstErr
  /\ UNCHANGED <<locked, cancelled, loopVars, countVars, cache, dirVars>>

-----------------------------------------------------------------------------
(* The other steps *)

\* stripAll reads every tarball from the cache and rewrites some of them.
StripAll ==
  /\ step = "strip"
  /\ \/ /\ ~cancelled /\ \A p \in Packages : sha[p] \in Digests => cache[sha[p]] # "absent"
        /\ step' = "archive" /\ UNCHANGED err
     \/ \E e \in Failures : GiveUp(e)
  /\ \E some \in {{}, {"stripped"}} : files' = files \cup some
  /\ UNCHANGED <<locked, cancelled, loopVars, countVars, cache, whole, packed>>

\* writeArchive asks for the context before each entry.
WriteArchive ==
  /\ step = "archive"
  /\ files' = files \cup {"packages_npm.tar.gz"}
  /\ \/ /\ ~cancelled /\ step' = "reports" /\ UNCHANGED err
        /\ whole' = TRUE
        /\ packed' = {p \in Packages : sha[p] = locked[p].digest /\ cache[sha[p]] = "good"}
     \/ (\E e \in Failures : GiveUp(e)) /\ UNCHANGED <<whole, packed>>
  /\ UNCHANGED <<locked, cancelled, loopVars, countVars, cache>>

\* The report that is due, with the one before it written; Trivy writes two of
\* them, under the job's context.
Due == {k \in DOMAIN Reports : Reports[k] \notin files /\ \A l \in 1..(k - 1) : Reports[l] \in files}
ByTrivy == \E k \in Due : Reports[k] \in {"report.trivy.json", "report.cdx.json"}

WriteReport ==
  /\ step = "reports"
  /\ \E k \in Due :
       /\ files' = files \cup {Reports[k]}
       /\ step' = IF k = Len(Reports) THEN "prune" ELSE step
  /\ UNCHANGED <<locked, cancelled, err, loopVars, countVars, cache, whole, packed>>

\* A report that cannot be written may be there in part.
ReportFails ==
  /\ step = "reports"
  /\ \E e \in Failures : GiveUp(e) /\ (e = "canceled" => ByTrivy)
  /\ \E k \in Due : files' \in {files, files \cup {Reports[k]}}
  /\ UNCHANGED <<locked, cancelled, loopVars, countVars, cache, whole, packed>>

\* pruneWorkingFiles
Prune ==
  /\ step = "prune"
  /\ \/ files' = files \ Working /\ step' = "over" /\ UNCHANGED err
     \/ GiveUp("other") /\ \E left \in SUBSET Working : files' = files \ left
  /\ UNCHANGED <<locked, cancelled, loopVars, countVars, cache, whole, packed>>

\* failed: working files and archive are removed, then status.json is written;
\* what cannot be done of it is logged.
Failed ==
  /\ step = "failing" /\ step' = "over"
  /\ \E left \in SUBSET (Working \cup {"packages_npm.tar.gz"}),
        status \in {{}, {IF cancelled THEN "status cancelled" ELSE "status failed"}} :
       files' = (files \ left) \cup status
  /\ UNCHANGED <<locked, cancelled, err, loopVars, countVars, cache, whole, packed>>

-----------------------------------------------------------------------------

Goroutine(p) ==
  \/ CheckCache(p) \/ DropCached(p) \/ Fetched(p) \/ Store(p)
  \/ DownloadFails(p) \/ DownloadAborts(p) \/ KeepFirstError(p) \/ CancelOthers(p)
  \/ CountHit(p) \/ CountDone(p) \/ ReportProgress(p)

ExportNext ==
  \/ Cancel \/ PackageList \/ StartDownload \/ WaitForAll
  \/ StripAll \/ WriteArchive \/ WriteReport \/ ReportFails \/ Prune \/ Failed
  \/ \E p \in Packages : Goroutine(p)

ExportSpec == ExportInit /\ [][ExportNext]_vars

\* The scheduler runs every goroutine, the disk answers, and a request or a
\* child process ends once its context is done; nothing else makes it end.
ExportFairness ==
  /\ WF_vars(PackageList \/ StartDownload \/ WaitForAll \/ StripAll \/ WriteArchive \/ Prune
             \/ Failed \/ (~ByTrivy /\ WriteReport) \/ (cancelled /\ ReportFails))
  /\ \A p \in Packages :
       WF_vars(CheckCache(p) \/ DropCached(p) \/ Store(p) \/ DownloadAborts(p)
               \/ KeepFirstError(p) \/ CancelOthers(p)
               \/ CountHit(p) \/ CountDone(p) \/ ReportProgress(p))

ExportFairSpec == ExportSpec /\ ExportFairness

-----------------------------------------------------------------------------
(* Properties *)

Places == {"waiting", "checking", "dropping", "fetching", "caching", "hit", "done", "reporting",
           "lost canceled", "lost other", "cancelling", "gone"}
\* downloadOne: "a file left wrong by an earlier run would otherwise ship": a
\* complete archive holds the right bytes of every package, whichever downloads
\* shared, dropped and replaced a cached file.
ShippedIsVerified == whole => packed = Packages

\* downloadAll keeps the first error and only then cancels the others, whose own
\* errors say "canceled": an export nobody cancelled never says it was.
CauseIsKept ==
  ~cancelled => "canceled" \notin {firstErr, err} /\ "status cancelled" \notin files

\* No download outlives its step: failed removes the directory they write to,
\* stripAll reads what they put in the cache.
NothingOutlivesTheStep == step # "download" => InFlight = {}

\* "Tarballs served from the tarball cache instead of downloaded, a running
\* count" (api/openapi.yaml): it is read when the event is built, after the
\* package was counted, while other downloads add to both counters. Still the
\* event that says N of N has every hit in it.
LastEventIsExact ==
  started = N /\ InFlight = {} /\ firstErr = "nil" => done = N /\ shownHits = hits

\* downloadAll: a mismatch "fails the export at once" and "cancels the other
\* downloads still in flight"; Job: "Run must return once ctx is done".  After
\* an error or a cancel Run returns, though a download that nothing cancels may
\* take forever.
StopEndsExport == (firstErr # "nil" \/ cancelled) ~> step = "over"
=============================================================================
