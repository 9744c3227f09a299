---------------------------- MODULE ExportProofs ----------------------------
(***************************************************************************)
(* Proofs about an export and what becomes of its archive.                 *)
(*                                                                         *)
(* ExportRun, for any number of packages, any parallelism and any sharing  *)
(* of tarballs: the inductive invariant IInv follows a tarball through the *)
(* downloads that share it.  One that has been settled is in the cache,    *)
(* unless a download that dropped it is still to replace it or the step    *)
(* has failed.                                                             *)
(*                                                                         *)
(* ArchiveTransfer, for any packages, tarballs and limits: TransferInv     *)
(* says of each phase what the ones before it established.  The export's   *)
(* entries are its listings in order; the road leaves the archive or its   *)
(* manifest as sent; the scan of n entries counted their content and       *)
(* copied exactly what it found listed; and when nothing was changed, what *)
(* is left of the stream suffices for the entries to come.                 *)
(***************************************************************************)
EXTENDS ExportRun, ArchiveTransfer, FiniteSetTheorems, WellFoundedInduction, TLAPS

\* The types the argument needs.
ShapeInv ==
  /\ locked \in [Packages -> [digest : Digests, sha512 : BOOLEAN]]
  /\ cache \in [Digests -> Bytes] /\ at \in [Packages -> Places]
  /\ sha \in [Packages -> Digests \cup {Other, NoSum}]
  /\ started \in 0..N /\ cancelled \in BOOLEAN /\ stopped \in BOOLEAN
  /\ {err, firstErr} \subseteq Failures \cup {"nil"}
  /\ step \in {"package-list", "download", "strip", "archive", "reports", "prune", "failing",
                "over"}

\* The loop starts the packages in order and waits for all of them.
LoopInv ==
  /\ \A p \in Packages : at[p] = "waiting" <=> p > started
  /\ step = "package-list" => started = 0
  /\ step \notin {"package-list", "download"} => InFlight = {}

\* Whatever stops the downloads is on record before it does.
RecordInv ==
  /\ stopped => firstErr # "nil"
  /\ \A p \in Packages :
       /\ at[p] = "cancelling" => firstErr # "nil"
       /\ at[p] = "lost canceled" => cancelled \/ firstErr # "nil"

\* A download at one of these is to put its tarball in the cache, or to fail.
Replacing == {"fetching", "caching", "lost canceled", "lost other"}
Settled == {"hit", "done", "reporting", "gone"}

\* A download that matched is its package's tarball, and so is what settled.
SumInv ==
  \A p \in Packages :
    at[p] \in Settled \cup {"caching"} => firstErr # "nil" \/ sha[p] = locked[p].digest

\* A settled tarball is in the cache, is being replaced there, or will not ship.
CachedInv ==
  \A p \in Packages :
    at[p] \in Settled =>
      \/ firstErr # "nil"
      \/ cache[locked[p].digest] = "good"
      \/ \E q \in Packages : locked[q].digest = locked[p].digest /\ at[q] \in Replacing

\* The steps after the downloads find every tarball in the cache.
PackedInv ==
  /\ step \in {"strip", "archive", "reports", "prune"} =>
       \A p \in Packages : sha[p] = locked[p].digest /\ cache[sha[p]] = "good"
  /\ whole => packed = Packages

IInv == ShapeInv /\ LoopInv /\ RecordInv /\ SumInv /\ CachedInv /\ PackedInv /\ CauseIsKept

-----------------------------------------------------------------------------

LEMMA InitInv == ExportInit => IInv
<1> SUFFICES ASSUME ExportInit PROVE IInv
  OBVIOUS
<1>1. at \in [Packages -> Places]
  BY DEF ExportInit, Places
<1>2. ShapeInv
  <2>1. 0 \in 0..N
    BY SizesAssumption
  <2> QED
    BY <1>1, <2>1 DEF ExportInit, ShapeInv
<1>3. LoopInv
  BY DEF ExportInit, LoopInv, Packages, InFlight
<1>4. RecordInv /\ SumInv /\ CachedInv /\ PackedInv /\ CauseIsKept
  BY DEF ExportInit, RecordInv, SumInv, CachedInv, Settled, PackedInv, CauseIsKept
<1> QED
  BY <1>2, <1>3, <1>4 DEF IInv

\* The names of the reports are not those of a status.
LEMMA ReportNames ==
  \A k \in DOMAIN Reports : Reports[k] # "status cancelled"
<1>1. DOMAIN Reports = 1..6
  BY DEF Reports
<1>2. \A k \in 1..6 : k = 1 \/ k = 2 \/ k = 3 \/ k = 4 \/ k = 5 \/ k = 6
  OBVIOUS
<1>3. /\ Reports[1] = "manifest.json" /\ Reports[2] = "export.cdx-input.json"
      /\ Reports[3] = "report.trivy.json" /\ Reports[4] = "report.cdx.json"
      /\ Reports[5] = "findings.csv" /\ Reports[6] = "summary.md"
  BY DEF Reports
<1> QED
  BY <1>1, <1>2, <1>3

\* One step of a download's goroutine, by what it does to the cache.
LEMMA GoroutineInv ==
  ASSUME IInv, NEW p \in Packages, Goroutine(p) PROVE IInv'
<1> USE DEF IInv, Move, LeavesRun, dirVars, countVars
<1> DEFINE d == locked[p].digest
<1>1. /\ at' = [at EXCEPT ![p] = at'[p]]
      /\ at[p] \in Places \ {"waiting", "gone"} /\ at'[p] \in Places \ {"waiting"}
  BY DEF ShapeInv, Goroutine, CheckCache, DropCached, Fetched, Store, DownloadFails,
         DownloadAborts, KeepFirstError, CancelOthers, CountHit, CountDone, ReportProgress,
         LostTo, Places
<1>2. UNCHANGED <<locked, cancelled, step, err, started, files, whole, packed>>
  BY DEF Goroutine, CheckCache, DropCached, Fetched, Store, DownloadFails, DownloadAborts,
         KeepFirstError, CancelOthers, CountHit, CountDone, ReportProgress
<1>3. step = "download"
  BY <1>1 DEF LoopInv, ShapeInv, InFlight, Packages
<1>4. \A q \in Packages \ {p} : at'[q] = at[q]
  BY <1>1 DEF ShapeInv
<1>5. d \in Digests
  BY DEF ShapeInv
<1>6. ShapeInv' /\ RecordInv'
  <2>7. sha' \in [Packages -> Digests \cup {Other, NoSum}]
    BY <1>5 DEF ShapeInv, Goroutine, CheckCache, DropCached, Fetched, Store, DownloadFails,
         DownloadAborts, KeepFirstError, CancelOthers, CountHit, CountDone, ReportProgress
  <2>8. cache' \in [Digests -> Bytes]
    <3>1. CASE Store(p)
      <4>1. cache' = [e \in Digests |-> IF e = sha[p] THEN "good" ELSE cache[e]]
        BY <3>1 DEF Store
      <4> QED
        BY <4>1 DEF ShapeInv, Bytes
    <3>2. CASE DropCached(p)
      BY <3>2 DEF DropCached, ShapeInv, Bytes
    <3>3. CASE cache' = cache
      BY <3>3 DEF ShapeInv
    <3> QED
      BY <3>1, <3>2, <3>3 DEF Goroutine, CheckCache, Fetched, DownloadFails, DownloadAborts,
         KeepFirstError, CancelOthers, CountHit, CountDone, ReportProgress
  <2>1. /\ at' \in [Packages -> Places]
        /\ stopped' \in BOOLEAN /\ firstErr' \in Failures \cup {"nil"}
    BY <1>1, <1>5 DEF ShapeInv, Bytes, Failures, Goroutine, CheckCache, DropCached, Fetched, Store,
         DownloadFails, DownloadAborts, KeepFirstError, CancelOthers, CountHit, CountDone,
         ReportProgress, LostTo
  <2>2. ShapeInv'
    BY <2>1, <2>7, <2>8, <1>2 DEF ShapeInv
  <2>3. firstErr # "nil" => firstErr' = firstErr
    BY DEF Goroutine, CheckCache, DropCached, Fetched, Store, DownloadFails, DownloadAborts,
         KeepFirstError, CancelOthers, CountHit, CountDone, ReportProgress
  <2>4. stopped' => firstErr' # "nil"
    BY <2>3 DEF RecordInv, Goroutine, CheckCache, DropCached, Fetched, Store, DownloadFails,
         DownloadAborts, KeepFirstError, CancelOthers, CountHit, CountDone, ReportProgress
  <2>5. at'[p] = "cancelling" => firstErr' # "nil"
    BY DEF ShapeInv, Goroutine, CheckCache, DropCached, Fetched, Store, DownloadFails,
         DownloadAborts, KeepFirstError, CancelOthers, CountHit, CountDone, ReportProgress
  <2>6. at'[p] = "lost canceled" => cancelled \/ firstErr # "nil"
    BY DEF ShapeInv, RecordInv, DownloadOver, Goroutine, CheckCache, DropCached, Fetched, Store,
         DownloadFails, DownloadAborts, KeepFirstError, CancelOthers, CountHit, CountDone,
         ReportProgress
  <2> QED
    BY <2>2, <2>3, <2>4, <2>5, <2>6, <1>2, <1>4 DEF RecordInv
<1>7. LoopInv'
  BY <1>1, <1>2, <1>3, <1>4 DEF LoopInv, Places
<1>11. SumInv'
  <2>1. \A q \in Packages \ {p} : sha'[q] = sha[q]
    BY DEF ShapeInv, Goroutine, CheckCache, DropCached, Fetched, Store, DownloadFails,
         DownloadAborts, KeepFirstError, CancelOthers, CountHit, CountDone, ReportProgress
  <2>2. firstErr' = "nil" => firstErr = "nil"
    BY DEF Goroutine, CheckCache, DropCached, Fetched, Store, DownloadFails, DownloadAborts,
         KeepFirstError, CancelOthers, CountHit, CountDone, ReportProgress
  <2>3. at'[p] \in Settled \cup {"caching"} => firstErr' # "nil" \/ sha'[p] = locked[p].digest
    <3>1. CASE CheckCache(p) \/ Fetched(p)
      BY <3>1, <1>5 DEF ShapeInv, CheckCache, Fetched, DigestMatches, Settled
    <3>2. CASE ~CheckCache(p) /\ ~Fetched(p)
      <4>1. /\ sha' = sha
            /\ \/ at[p] \in Settled \cup {"caching"}
               \/ at'[p] \notin Settled \cup {"caching"}
               \/ firstErr' # "nil"
        BY <3>2 DEF ShapeInv, RecordInv, Goroutine, DropCached, Store, DownloadFails,
             DownloadAborts, KeepFirstError, CancelOthers, CountHit, CountDone, ReportProgress,
             Settled, LostTo
      <4> QED
        BY <4>1, <2>2 DEF SumInv
    <3> QED
      BY <3>1, <3>2
  <2> QED
    BY <2>1, <2>2, <2>3, <1>2, <1>4 DEF SumInv
<1>8. CachedInv'
  <2> SUFFICES ASSUME NEW r \in Packages, at'[r] \in Settled, firstErr' = "nil",
                      cache'[locked[r].digest] # "good"
               PROVE  \E q \in Packages :
                        locked[q].digest = locked[r].digest /\ at'[q] \in Replacing
    BY <1>2 DEF CachedInv
  <2>1. firstErr = "nil"
    BY DEF Goroutine, CheckCache, DropCached, Fetched, Store, DownloadFails, DownloadAborts,
         KeepFirstError, CancelOthers, CountHit, CountDone, ReportProgress
  <2>2. CASE DropCached(p)
    <3>1. /\ at[p] = "dropping" /\ at'[p] = "fetching"
          /\ \A e \in Digests \ {d} : cache'[e] = cache[e]
      BY <2>2, <1>1 DEF DropCached, ShapeInv
    <3>2. CASE locked[r].digest = d
      BY <3>1, <3>2 DEF Replacing
    <3>3. CASE locked[r].digest # d
      <4>1. r # p /\ locked[r].digest \in Digests
        BY <3>3 DEF ShapeInv
      <4> QED
        BY <4>1, <3>1, <3>3, <2>1, <1>4 DEF CachedInv, Replacing
    <3> QED
      BY <3>2, <3>3
  <2>3. CASE Store(p)
    <3>1. cache'[d] = "good" /\ \A e \in Digests \ {d} : cache'[e] = cache[e]
      <4>1. firstErr = "nil" => sha[p] = d
        BY <2>3 DEF Store, SumInv
      <4> QED
        BY <4>1, <2>1, <2>3, <1>5 DEF Store, ShapeInv
    <3>2. locked[r].digest \in Digests \ {d}
      BY <3>1 DEF ShapeInv
    <3> QED
      BY <3>1, <3>2, <2>1, <1>4 DEF CachedInv
  <2>4. CASE cache' = cache
    <3>1. at[p] \in Replacing => at'[p] \in Replacing \/ Store(p)
      BY DEF ShapeInv, Goroutine, CheckCache, DropCached, Fetched, DownloadFails, DownloadAborts,
           KeepFirstError, CancelOthers, CountHit, CountDone, ReportProgress, LostTo, Replacing
    <3>2. at'[p] \in Settled => at[p] \in Settled \/ cache[d] = "good" \/ Store(p)
      BY <2>1 DEF ShapeInv, RecordInv, Goroutine, CheckCache, DropCached, Fetched, DownloadFails,
           DownloadAborts, KeepFirstError, CancelOthers, CountHit, CountDone, ReportProgress,
           LostTo, Settled
    <3>3. CASE ~Store(p)
      <4>1. at[r] \in Settled
        BY <3>2, <3>3, <2>4, <1>4
      <4> QED
        BY <4>1, <3>1, <3>3, <2>1, <2>4, <1>4 DEF CachedInv
    <3> QED
      BY <3>3, <2>3
  <2> QED
    BY <2>2, <2>3, <2>4 DEF Goroutine, CheckCache, Fetched, DownloadFails, DownloadAborts,
         KeepFirstError, CancelOthers, CountHit, CountDone, ReportProgress
<1>9. PackedInv'
  BY <1>2, <1>3 DEF PackedInv
<1>10. CauseIsKept'
  <2>1. ~cancelled => firstErr' # "canceled"
    BY DEF ShapeInv, RecordInv, CauseIsKept, Goroutine, CheckCache, DropCached, Fetched, Store,
         DownloadFails, DownloadAborts, KeepFirstError, CancelOthers, CountHit, CountDone,
         ReportProgress, LostTo
  <2> QED
    BY <2>1, <1>2 DEF CauseIsKept
<1> QED
  BY <1>6, <1>7, <1>8, <1>9, <1>10, <1>11

\* A step of Run after the downloads leaves what they left.
LEMMA LaterStep ==
  ASSUME IInv, step \notin {"package-list", "download"}, step' \notin {"package-list", "download"},
         UNCHANGED <<locked, cancelled, loopVars, cache>>
  PROVE  LoopInv' /\ RecordInv' /\ SumInv' /\ CachedInv'
<1> USE DEF IInv, loopVars
<1>1. LoopInv'
  BY DEF LoopInv, InFlight
<1>2. RecordInv'
  BY DEF RecordInv
<1>3. CachedInv'
  BY DEF CachedInv
<1>4. SumInv'
  BY DEF SumInv
<1> QED
  BY <1>1, <1>2, <1>3, <1>4

LEMMA StepInv == IInv /\ [ExportNext]_vars => IInv'
<1> SUFFICES ASSUME IInv, [ExportNext]_vars PROVE IInv'
  OBVIOUS
<1> USE DEF IInv, loopVars, countVars, dirVars
<1>1. CASE Cancel
  <2>1. ShapeInv' /\ PackedInv'
    BY <1>1 DEF Cancel, ShapeInv, PackedInv
  <2>2. LoopInv'
    BY <1>1 DEF Cancel, LoopInv, InFlight
  <2>3. RecordInv' /\ SumInv' /\ CachedInv' /\ CauseIsKept'
    BY <1>1 DEF Cancel, RecordInv, SumInv, CachedInv, CauseIsKept
  <2> QED
    BY <2>1, <2>2, <2>3
<1>2. CASE PackageList
  <2>1. step' \in {"download", "failing"} /\ err' \in {err, "other"} /\ step = "package-list"
    BY <1>2 DEF PackageList, GiveUp
  <2>2. /\ "status cancelled" \in files' => "status cancelled" \in files
        /\ UNCHANGED <<locked, cancelled, loopVars, cache, whole, packed>>
    BY <1>2 DEF PackageList
  <2>3. InFlight = {}
    BY <2>1 DEF LoopInv, InFlight, Packages
  <2>4. ShapeInv'
    BY <2>1, <2>2 DEF ShapeInv, Failures
  <2>5. LoopInv'
    BY <2>1, <2>2, <2>3 DEF LoopInv, InFlight
  <2>6. RecordInv' /\ SumInv' /\ CachedInv'
    BY <2>2 DEF RecordInv, SumInv, CachedInv
  <2>7. PackedInv' /\ CauseIsKept'
    BY <2>1, <2>2 DEF PackedInv, CauseIsKept
  <2> QED
    BY <2>4, <2>5, <2>6, <2>7
<1>3. CASE StartDownload
  <2>1. started + 1 \in Packages /\ started' = started + 1 /\ step = "download"
    BY <1>3, SizesAssumption DEF StartDownload, ShapeInv, Packages
  <2>2. /\ at' = [at EXCEPT ![started + 1] = "checking"] /\ at[started + 1] = "waiting"
        /\ UNCHANGED <<locked, cancelled, step, err, stopped, firstErr, sha, cache, files, whole,
                       packed>>
    BY <1>3 DEF StartDownload, Move, LeavesRun
  <2>3. \A q \in Packages : at'[q] = IF q = started + 1 THEN "checking" ELSE at[q]
    BY <2>1, <2>2 DEF ShapeInv
  <2>4. ShapeInv'
    <3>1. at' \in [Packages -> Places]
      BY <2>2 DEF ShapeInv, Places
    <3>2. started' \in 0..N
      BY <2>1, SizesAssumption DEF Packages
    <3> QED
      BY <2>2, <3>1, <3>2 DEF ShapeInv
  <2>5. LoopInv'
    BY <2>1, <2>2, <2>3 DEF LoopInv, ShapeInv, Packages
  <2>6. PackedInv' /\ CauseIsKept'
    BY <2>2 DEF PackedInv, CauseIsKept
  <2>9. RecordInv'
    <3>1. \A q \in Packages : at'[q] \in {"cancelling", "lost canceled"} => at[q] = at'[q]
      BY <2>3
    <3> QED
      BY <2>2, <3>1 DEF RecordInv
  <2>10. SumInv'
    <3>1. \A q \in Packages : at'[q] \in Settled \cup {"caching"} => at[q] = at'[q]
      BY <2>3 DEF Settled
    <3> QED
      BY <2>2, <3>1 DEF SumInv
  <2>7. CachedInv'
    <3>1. \A q \in Packages : at'[q] \in Settled => at[q] = at'[q]
      BY <2>3 DEF Settled
    <3>2. \A q \in Packages : at[q] \in Replacing => at[q] = at'[q]
      BY <2>2, <2>3 DEF Replacing
    <3> QED
      BY <2>2, <3>1, <3>2 DEF CachedInv
  <2> QED
    BY <2>4, <2>5, <2>6, <2>7, <2>9, <2>10
<1>4. CASE WaitForAll
  <2>1. /\ started = N /\ InFlight = {} /\ step = "download"
        /\ step' = IF firstErr = "nil" THEN "strip" ELSE "failing"
        /\ err' = firstErr
        /\ UNCHANGED <<locked, cancelled, loopVars, cache, dirVars>>
    BY <1>4 DEF WaitForAll
  <2>2. \A p \in Packages : at[p] = "gone"
    BY <2>1 DEF LoopInv, InFlight, Packages, ShapeInv
  <2>3. firstErr = "nil" =>
          \A p \in Packages : sha[p] = locked[p].digest /\ cache[sha[p]] = "good"
    BY <2>2 DEF SumInv, CachedInv, Settled, Replacing
  <2>4. ShapeInv' /\ CauseIsKept'
    BY <2>1 DEF ShapeInv, CauseIsKept
  <2>5. LoopInv'
    BY <2>1 DEF LoopInv, InFlight
  <2>6. RecordInv' /\ SumInv' /\ CachedInv'
    BY <2>1 DEF RecordInv, SumInv, CachedInv
  <2>7. PackedInv'
    BY <2>1, <2>3 DEF PackedInv
  <2> QED
    BY <2>4, <2>5, <2>6, <2>7
<1>5. CASE StripAll
  <2>1. /\ step = "strip" /\ step' \in {"archive", "failing"}
        /\ err' = err \/ (err' \in Failures /\ (err' = "canceled" => cancelled))
        /\ UNCHANGED <<locked, cancelled, loopVars, cache, whole, packed>>
    BY <1>5 DEF StripAll, GiveUp
  <2>2. "status cancelled" \in files' => "status cancelled" \in files
    BY <1>5 DEF StripAll
  <2>3. LoopInv' /\ RecordInv' /\ SumInv' /\ CachedInv'
    BY <2>1, LaterStep
  <2>4. ShapeInv'
    BY <2>1 DEF ShapeInv
  <2>5. PackedInv'
    BY <2>1 DEF PackedInv
  <2>6. CauseIsKept'
    BY <2>1, <2>2 DEF CauseIsKept
  <2> QED
    BY <2>3, <2>4, <2>5, <2>6
<1>6. CASE WriteArchive
  <2>1. whole' => packed' = Packages
    BY <1>6 DEF WriteArchive, PackedInv
  <2>2. /\ step = "archive" /\ step' \in {"reports", "failing"}
        /\ err' = err \/ (err' \in Failures /\ (err' = "canceled" => cancelled))
        /\ "status cancelled" \in files' => "status cancelled" \in files
        /\ UNCHANGED <<locked, cancelled, loopVars, cache>>
    BY <1>6 DEF WriteArchive, GiveUp
  <2>3. LoopInv' /\ RecordInv' /\ SumInv' /\ CachedInv'
    BY <2>2, LaterStep
  <2>4. ShapeInv'
    BY <2>2 DEF ShapeInv
  <2>5. PackedInv'
    BY <2>1, <2>2 DEF PackedInv
  <2>6. CauseIsKept'
    BY <2>2 DEF CauseIsKept
  <2> QED
    BY <2>3, <2>4, <2>5, <2>6
<1>7. CASE WriteReport
  <2>1. /\ step = "reports" /\ step' \in {"reports", "prune"}
        /\ UNCHANGED <<locked, cancelled, err, loopVars, cache, whole, packed>>
    BY <1>7 DEF WriteReport
  <2>2. "status cancelled" \in files' => "status cancelled" \in files
    BY <1>7, ReportNames DEF WriteReport, Due
  <2>3. LoopInv' /\ RecordInv' /\ SumInv' /\ CachedInv'
    BY <2>1, LaterStep
  <2>4. ShapeInv'
    BY <2>1 DEF ShapeInv
  <2>5. PackedInv'
    BY <2>1 DEF PackedInv
  <2>6. CauseIsKept'
    BY <2>1, <2>2 DEF CauseIsKept
  <2> QED
    BY <2>3, <2>4, <2>5, <2>6
<1>8. CASE ReportFails
  <2>1. /\ step = "reports" /\ step' = "failing"
        /\ err' \in Failures /\ (err' = "canceled" => cancelled)
        /\ UNCHANGED <<locked, cancelled, loopVars, cache, whole, packed>>
    BY <1>8 DEF ReportFails, GiveUp
  <2>2. "status cancelled" \in files' => "status cancelled" \in files
    BY <1>8, ReportNames DEF ReportFails, Due
  <2>3. LoopInv' /\ RecordInv' /\ SumInv' /\ CachedInv'
    BY <2>1, LaterStep
  <2>4. ShapeInv'
    BY <2>1 DEF ShapeInv
  <2>5. PackedInv'
    BY <2>1 DEF PackedInv
  <2>6. CauseIsKept'
    BY <2>1, <2>2 DEF CauseIsKept
  <2> QED
    BY <2>3, <2>4, <2>5, <2>6
<1>9. CASE Prune
  <2>1. /\ step = "prune" /\ step' \in {"over", "failing"} /\ err' \in {err, "other"}
        /\ UNCHANGED <<locked, cancelled, loopVars, cache, whole, packed>>
    BY <1>9 DEF Prune, GiveUp
  <2>2. "status cancelled" \in files' => "status cancelled" \in files
    BY <1>9 DEF Prune
  <2>3. LoopInv' /\ RecordInv' /\ SumInv' /\ CachedInv'
    BY <2>1, LaterStep
  <2>4. ShapeInv'
    BY <2>1 DEF ShapeInv, Failures
  <2>5. PackedInv'
    BY <2>1 DEF PackedInv
  <2>6. CauseIsKept'
    BY <2>1, <2>2 DEF CauseIsKept
  <2> QED
    BY <2>3, <2>4, <2>5, <2>6
<1>10. CASE Failed
  <2>1. /\ step = "failing" /\ step' = "over"
        /\ UNCHANGED <<locked, cancelled, err, loopVars, cache, whole, packed>>
    BY <1>10 DEF Failed
  <2>2. ASSUME ~cancelled, "status cancelled" \in files' PROVE "status cancelled" \in files
    <3>1. PICK left \in SUBSET (Working \cup {"packages_npm.tar.gz"}),
               status \in {{}, {"status failed"}} : files' = (files \ left) \cup status
      BY <1>10, <2>2 DEF Failed
    <3> QED
      BY <3>1, <2>2
  <2>3. LoopInv' /\ RecordInv' /\ SumInv' /\ CachedInv'
    BY <2>1, LaterStep
  <2>4. ShapeInv'
    BY <2>1 DEF ShapeInv
  <2>5. PackedInv'
    BY <2>1 DEF PackedInv
  <2>6. CauseIsKept'
    BY <2>1, <2>2 DEF CauseIsKept
  <2> QED
    BY <2>3, <2>4, <2>5, <2>6
<1>11. ASSUME NEW p \in Packages, Goroutine(p) PROVE IInv'
  BY <1>11, GoroutineInv
<1>12. CASE UNCHANGED vars
  <2>1. ShapeInv' /\ PackedInv' /\ CauseIsKept'
    BY <1>12 DEF vars, ShapeInv, PackedInv, CauseIsKept
  <2>2. LoopInv'
    BY <1>12 DEF vars, LoopInv, InFlight
  <2>3. RecordInv' /\ SumInv' /\ CachedInv'
    BY <1>12 DEF vars, RecordInv, SumInv, CachedInv
  <2> QED
    BY <2>1, <2>2, <2>3
<1> QED
  BY <1>1, <1>2, <1>3, <1>4, <1>5, <1>6, <1>7, <1>8, <1>9, <1>10, <1>11, <1>12 DEF ExportNext

LEMMA Invariance == ExportSpec => []IInv
<1>1. ExportInit => IInv
  BY InitInv
<1>2. IInv /\ [ExportNext]_vars => IInv'
  BY StepInv
<1> QED
  BY <1>1, <1>2, PTL DEF ExportSpec

-----------------------------------------------------------------------------

\* A complete archive holds the right bytes of every package, though a download
\* may drop from the cache what another has put there and counted on.
THEOREM Verified == ExportSpec => []ShippedIsVerified
<1>1. IInv => ShippedIsVerified
  BY DEF IInv, PackedInv, ShippedIsVerified
<1> QED
  BY <1>1, Invariance, PTL

\* An export nobody cancelled never says it was.
THEOREM Cause == ExportSpec => []CauseIsKept
<1>1. IInv => CauseIsKept
  BY DEF IInv
<1> QED
  BY <1>1, Invariance, PTL

\* No download outlives downloadAll.
THEOREM AllReturned == ExportSpec => []NothingOutlivesTheStep
<1>1. IInv => NothingOutlivesTheStep
  <2> SUFFICES ASSUME IInv, step = "package-list" PROVE InFlight = {}
    BY DEF IInv, LoopInv, NothingOutlivesTheStep
  <2> QED
    BY DEF IInv, LoopInv, InFlight, Packages
<1> QED
  BY <1>1, Invariance, PTL

-----------------------------------------------------------------------------
(* The two counters of downloadAll                                          *)

Counted == {p \in Packages : nth[p] # 0}
Reported == {"reporting", "gone"}

\* done counts the packages that were given a number, which follow each other;
\* none is given before its package's hit is counted.
CountInv ==
  /\ nth \in [Packages -> 0..N] /\ done = Cardinality(Counted)
  /\ \A p \in Packages :
       /\ at[p] \notin Reported => nth[p] = 0
       /\ at[p] = "reporting" => nth[p] # 0
       /\ at[p] = "gone" => nth[p] # 0 \/ firstErr # "nil"
       /\ nth[p] <= done
       /\ at[p] = "gone" /\ nth[p] = N => shownHits = hits
  /\ done = 0 \/ \E p \in Packages : nth[p] = done

LEMMA PackagesFinite == IsFiniteSet(Packages) /\ Cardinality(Packages) = N
BY SizesAssumption, FS_Interval DEF Packages

\* The last number is given when no package is left that has none.
LEMMA CountFact ==
  ASSUME CountInv
  PROVE  /\ done \in 0..N /\ IsFiniteSet(Counted)
         /\ \A p \in Packages : nth[p] = 0 => done < N
<1>1. IsFiniteSet(Counted) /\ Cardinality(Counted) <= N /\ Cardinality(Counted) \in Nat
  BY PackagesFinite, SizesAssumption, FS_Subset, FS_CardinalityType DEF Counted
<1>2. ASSUME NEW p \in Packages, nth[p] = 0 PROVE done < N
  <2>1. Counted \subseteq Packages /\ Counted # Packages
    BY <1>2 DEF Counted
  <2> QED
    BY <1>1, <2>1, PackagesFinite, FS_Subset, SizesAssumption DEF CountInv
<1> QED
  BY <1>1, <1>2, SizesAssumption DEF CountInv

LEMMA CountInit == ExportInit => CountInv
<1> SUFFICES ASSUME ExportInit PROVE CountInv
  OBVIOUS
<1>1. nth = [p \in Packages |-> 0] /\ done = 0 /\ \A p \in Packages : at[p] = "waiting"
  BY DEF ExportInit
<1>2. Counted = {}
  BY <1>1 DEF Counted
<1> QED
  BY <1>1, <1>2, FS_EmptySet, SizesAssumption DEF CountInv, Reported

\* A step that gives no number, counts no hit and shows none.
LEMMA CountStays ==
  ASSUME CountInv, UNCHANGED <<hits, done, nth, shownHits>>,
         firstErr # "nil" => firstErr' # "nil",
         \A p \in Packages : \/ at'[p] = at[p]
                             \/ at[p] \notin Reported /\ at'[p] \notin Reported
                             \/ at[p] \notin Reported /\ at'[p] = "gone" /\ firstErr' # "nil"
  PROVE  CountInv'
<1>1. Counted' = Counted
  BY DEF Counted
<1>2. ASSUME NEW p \in Packages, at[p] \notin Reported PROVE nth[p] = 0 /\ nth[p] # N
  BY <1>2, SizesAssumption DEF CountInv
<1> QED
  BY <1>1, <1>2 DEF CountInv, Reported

LEMMA CountStep ==
  ASSUME IInv, CountInv, [ExportNext]_vars PROVE CountInv'
<1> USE DEF Move, LeavesRun, countVars
<1>1. at \in [Packages -> Places] /\ RecordInv
  BY DEF IInv, ShapeInv
<1>2. ASSUME NEW p \in Packages, CountHit(p) PROVE CountInv'
  <2>1. /\ at[p] = "hit" /\ at' = [at EXCEPT ![p] = "done"]
        /\ UNCHANGED <<firstErr, done, nth, shownHits>>
    BY <1>2 DEF CountHit
  <2>2. nth[p] = 0 /\ done < N
    BY <2>1, CountFact DEF CountInv, Reported
  <2>3. \A q \in Packages : nth[q] # N
    BY <2>2, CountFact, SizesAssumption DEF CountInv
  <2>4. Counted' = Counted
    BY <2>1 DEF Counted
  <2>5. \A q \in Packages : at'[q] = at[q] \/ (at[q] = "hit" /\ at'[q] = "done")
    BY <1>1, <2>1
  <2> QED
    BY <2>1, <2>3, <2>4, <2>5 DEF CountInv, Reported
<1>3. ASSUME NEW p \in Packages, CountDone(p) PROVE CountInv'
  <2>1. /\ at[p] = "done" /\ at' = [at EXCEPT ![p] = "reporting"]
        /\ done' = done + 1 /\ nth' = [nth EXCEPT ![p] = done + 1]
        /\ UNCHANGED <<firstErr, hits, shownHits>>
    BY <1>3 DEF CountDone
  <2>2. nth[p] = 0 /\ done < N /\ done \in 0..N
    BY <2>1, CountFact DEF CountInv, Reported
  <2>3. Counted' = Counted \cup {p} /\ p \notin Counted
    BY <2>1, <2>2 DEF CountInv, Counted
  <2>4. done' = Cardinality(Counted')
    BY <2>1, <2>3, CountFact, FS_AddElement DEF CountInv
  <2>5. nth' \in [Packages -> 0..N] /\ nth'[p] = done' /\ done' # 0
    BY <2>1, <2>2, SizesAssumption DEF CountInv
  <2>6. ASSUME NEW q \in Packages \ {p}
        PROVE  at'[q] = at[q] /\ nth'[q] = nth[q] /\ nth[q] # N /\ nth'[q] <= done'
    BY <1>1, <2>1, <2>2, SizesAssumption DEF CountInv
  <2>7. at'[p] = "reporting"
    BY <1>1, <2>1
  <2> QED
    BY <2>1, <2>4, <2>5, <2>6, <2>7, <2>2 DEF CountInv, Reported
<1>4. ASSUME NEW p \in Packages, ReportProgress(p) PROVE CountInv'
  <2>1. /\ at[p] = "reporting" /\ at' = [at EXCEPT ![p] = "gone"]
        /\ shownHits' = IF nth[p] = N THEN hits ELSE shownHits
        /\ UNCHANGED <<firstErr, hits, done, nth>>
    BY <1>4 DEF ReportProgress
  <2>2. Counted' = Counted
    BY <2>1 DEF Counted
  <2>3. \A q \in Packages \ {p} : at'[q] = at[q]
    BY <1>1, <2>1
  <2>4. at'[p] = "gone" /\ nth[p] # 0
    BY <1>1, <2>1 DEF CountInv
  <2> QED
    BY <2>1, <2>2, <2>3, <2>4 DEF CountInv, Reported
<1>5. ASSUME NEW p \in Packages, CancelOthers(p) PROVE CountInv'
  <2>1. /\ at[p] = "cancelling" /\ at' = [at EXCEPT ![p] = "gone"] /\ firstErr' = firstErr
        /\ UNCHANGED <<hits, done, nth, shownHits>>
    BY <1>5 DEF CancelOthers
  <2>2. firstErr' # "nil"
    BY <1>1, <2>1 DEF RecordInv
  <2> QED
    BY <1>1, <2>1, <2>2, CountStays DEF Reported
<1>6. ASSUME NEW p \in Packages,
             \/ CheckCache(p) \/ DropCached(p) \/ Fetched(p) \/ Store(p) \/ DownloadFails(p)
             \/ DownloadAborts(p) \/ KeepFirstError(p)
      PROVE  CountInv'
  <2>1. /\ UNCHANGED <<hits, done, nth, shownHits>> /\ (firstErr # "nil" => firstErr' # "nil")
        /\ at[p] \notin Reported /\ at'[p] \notin Reported
        /\ at' = [at EXCEPT ![p] = at'[p]]
    BY <1>1, <1>6 DEF CheckCache, DropCached, Fetched, Store, DownloadFails, DownloadAborts,
       KeepFirstError, LostTo, Reported
  <2> QED
    BY <1>1, <2>1, CountStays
<1>7. CASE StartDownload
  <2>1. /\ at[started + 1] = "waiting" /\ at' = [at EXCEPT ![started + 1] = "checking"]
        /\ UNCHANGED <<hits, done, nth, shownHits, firstErr>>
    BY <1>7 DEF StartDownload
  <2> QED
    BY <1>1, <2>1, CountStays DEF Reported
<1>8. CASE UNCHANGED <<at, firstErr, hits, done, nth, shownHits>>
  BY <1>8, CountStays
<1>9. (ExportNext /\ ~StartDownload /\ ~\E p \in Packages : Goroutine(p)) \/ UNCHANGED vars
        => UNCHANGED <<at, firstErr, hits, done, nth, shownHits>>
  BY DEF ExportNext, Cancel, PackageList, WaitForAll, StripAll, WriteArchive, WriteReport,
     ReportFails, Prune, Failed, vars, loopVars
<1> QED
  BY <1>2, <1>3, <1>4, <1>5, <1>6, <1>7, <1>8, <1>9 DEF Goroutine

LEMMA CountAlways == ExportSpec => []CountInv
<1>1. ExportInit => CountInv
  BY CountInit
<1>2. IInv /\ CountInv /\ [ExportNext]_vars => CountInv'
  BY CountStep
<1> QED
  BY <1>1, <1>2, Invariance, PTL DEF ExportSpec

\* The progress event that says N of N has counted every hit, though each count
\* is read while other downloads add to both counters.
THEOREM LastEvent == ExportSpec => []LastEventIsExact
<1>1. IInv /\ CountInv => LastEventIsExact
  <2> SUFFICES ASSUME IInv, CountInv, started = N, InFlight = {}, firstErr = "nil"
               PROVE  done = N /\ shownHits = hits
    BY DEF LastEventIsExact
  <2>1. \A p \in Packages : at[p] = "gone"
    BY DEF IInv, LoopInv, InFlight, Packages, ShapeInv
  <2>2. Counted = Packages
    BY <2>1 DEF CountInv, Counted
  <2>3. done = N
    BY <2>2, PackagesFinite DEF CountInv
  <2> QED
    BY <2>1, <2>3, SizesAssumption DEF CountInv
<1> QED
  BY <1>1, Invariance, CountAlways, PTL

-----------------------------------------------------------------------------
(* A package tarball: the operators of Tarball *)

LEMMA TarballFact ==
  ASSUME NEW t \in Tarballs
  PROVE  /\ t.entries \in Seq(TarEntries) /\ Len(t.entries) \in Nat
         /\ DOMAIN t.entries = 1..Len(t.entries)
         /\ \A i \in DOMAIN t.entries : t.entries[i] \in TarEntries
BY DEF Tarballs

LEMMA DigestName ==
  ASSUME NEW e \in TarEntries
  PROVE  Digest(e).name = e.name
BY DEF Digest, TarEntries

\* A tarball that inspects holds one package.json, one JSON object.
LEMMA InspectedFact ==
  ASSUME NEW t \in Tarballs, Inspects(t)
  PROVE  \E m \in DOMAIN t.entries :
           /\ Manifests(t) = {m} /\ t.entries[m] \in TarEntries
           /\ PackageJsonOf(t) = t.entries[m].body
           /\ t.entries[m].body \in [pkg : STRING, config : BOOLEAN, layout : Layouts]
<1>1. PICK m \in Manifests(t) : Manifests(t) = {m}
  BY DEF Inspects
<1>2. m \in DOMAIN t.entries /\ t.entries[m] \in TarEntries
  BY <1>1, TarballFact DEF Manifests
<1>3. PackageJsonOf(t) = t.entries[m].body
  BY <1>1 DEF PackageJsonOf
<1>4. t.entries[m].body \in TarBodies /\ "config" \in DOMAIN t.entries[m].body
  BY <1>2, <1>3 DEF TarEntries, Inspects, IsJson
<1>5. t.entries[m].body \notin [text : STRING]
  BY <1>4
<1> QED
  BY <1>1, <1>2, <1>3, <1>4, <1>5 DEF TarBodies

\* StripPublishConfig takes publishConfig out and leaves alone what a reader
\* of the tarball finds beside it.
LEMMA StripFact ==
  ASSUME NEW t \in Tarballs, Inspects(t)
  PROVE  /\ HasPublishConfig(t) \in BOOLEAN
         /\ StripPublishConfig(t) \in Tarballs
         /\ ~HasPublishConfig(StripPublishConfig(t))
         /\ Alike(StripPublishConfig(t), t)
<1> DEFINE s == StripPublishConfig(t)
           Stripped(i) == IF IsManifest(t.entries[i])
                          THEN [t.entries[i] EXCEPT !.body = WithoutPublishConfig(@)]
                          ELSE t.entries[i]
<1>1. PICK m \in DOMAIN t.entries :
        /\ Manifests(t) = {m} /\ t.entries[m] \in TarEntries
        /\ PackageJsonOf(t) = t.entries[m].body
        /\ t.entries[m].body \in [pkg : STRING, config : BOOLEAN, layout : Layouts]
  BY InspectedFact
<1>2. HasPublishConfig(t) \in BOOLEAN
  BY <1>1 DEF HasPublishConfig
<1>3. /\ s.entries = [i \in DOMAIN t.entries |-> Stripped(i)]
      /\ s.end = t.end /\ s.broken = t.broken
      /\ s \in [entries : {s.entries}, end : {t.end}, broken : {t.broken}]
  BY DEF StripPublishConfig, Tarballs
<1>4. ASSUME NEW i \in DOMAIN t.entries
      PROVE  /\ Stripped(i) \in TarEntries
             /\ Stripped(i).name = t.entries[i].name /\ Stripped(i).mode = t.entries[i].mode
             /\ IsManifest(Stripped(i)) = IsManifest(t.entries[i])
             /\ Digest(Stripped(i)) = Digest(t.entries[i])
  <2>1. t.entries[i] \in TarEntries
    BY <1>4, TarballFact
  <2>2. CASE ~IsManifest(t.entries[i])
    BY <2>1, <2>2
  <2>3. CASE IsManifest(t.entries[i])
    <3>1. i = m
      BY <1>1, <1>4, <2>3 DEF Manifests
    <3>2. Stripped(i) = [t.entries[i] EXCEPT !.body = WithoutPublishConfig(t.entries[i].body)]
      BY <2>3
    <3>3. WithoutPublishConfig(t.entries[i].body) \in TarBodies
      <4> DEFINE b == t.entries[m].body
      <4>1. b.pkg \in STRING
        BY <1>1
      <4>2. [pkg |-> b.pkg, config |-> FALSE, layout |-> "sealift"]
              \in [pkg : STRING, config : BOOLEAN, layout : Layouts]
        BY <4>1 DEF Layouts
      <4> QED
        BY <3>1, <4>2 DEF WithoutPublishConfig, PackageJson, TarBodies
    <3>4. /\ Stripped(i) \in TarEntries
          /\ Stripped(i).name = t.entries[i].name /\ Stripped(i).mode = t.entries[i].mode
          /\ Stripped(i).body = WithoutPublishConfig(t.entries[i].body)
      BY <2>1, <3>2, <3>3 DEF TarEntries
    <3>5. IsManifest(Stripped(i))
      BY <2>3, <3>4 DEF IsManifest
    <3>6. WithoutPublishConfig(WithoutPublishConfig(t.entries[i].body)) =
            WithoutPublishConfig(t.entries[i].body)
      BY DEF WithoutPublishConfig, PackageJson
    <3>7. Digest(Stripped(i)) =
            [Stripped(i) EXCEPT !.body = WithoutPublishConfig(Stripped(i).body)]
      BY <3>5 DEF Digest
    <3>8. Digest(t.entries[i]) = Stripped(i)
      BY <2>3 DEF Digest
    <3>9. [Stripped(i) EXCEPT !.body = Stripped(i).body] = Stripped(i)
      BY <3>4 DEF TarEntries
    <3> QED
      BY <2>3, <3>4, <3>5, <3>6, <3>7, <3>8, <3>9
  <2> QED
    BY <2>2, <2>3
<1> HIDE DEF s, Stripped
<1>5. /\ s.entries \in Seq(TarEntries) /\ DOMAIN s.entries = DOMAIN t.entries
      /\ \A i \in DOMAIN t.entries : s.entries[i] = Stripped(i)
  BY <1>3, <1>4, TarballFact
<1>6. s \in Tarballs
  BY <1>3, <1>5 DEF Tarballs
<1>7. Manifests(s) = {m}
  BY <1>1, <1>4, <1>5 DEF Manifests
<1>8. PackageJsonOf(s) = Stripped(m).body
  BY <1>1, <1>5, <1>7 DEF PackageJsonOf
<1>9. IsManifest(t.entries[m])
  BY <1>1 DEF Manifests
<1>10. ~HasPublishConfig(s)
  BY <1>1, <1>8, <1>9 DEF Stripped, HasPublishConfig, WithoutPublishConfig, PackageJson, TarEntries
<1>11. s.end = "zeros" /\ t.end = "zeros"
  BY <1>3 DEF Inspects, EndsInZeros
<1>12. Names(s) = Names(t)
  BY <1>4, <1>5 DEF Names
<1>13. ASSUME NEW n PROVE FirstOf(s, n) = FirstOf(t, n) /\ LastOf(s, n) = LastOf(t, n)
  <2>1. \A i \in DOMAIN t.entries : /\ s.entries[i].name = t.entries[i].name
                                    /\ Digest(s.entries[i]) = Digest(t.entries[i])
    BY <1>4, <1>5
  <2>2. FirstOf(s, n) = FirstOf(t, n)
    <3>1. {j \in DOMAIN s.entries : s.entries[j].name = n
             /\ \A k \in DOMAIN s.entries : k < j => s.entries[k].name # n}
            = {j \in DOMAIN t.entries : t.entries[j].name = n
                 /\ \A k \in DOMAIN t.entries : k < j => t.entries[k].name # n}
      BY <1>5, <2>1
    <3> QED
      BY <2>1, <3>1 DEF FirstOf
  <2>3. LastOf(s, n) = LastOf(t, n)
    <3>1. {j \in DOMAIN s.entries : s.entries[j].name = n
             /\ \A k \in DOMAIN s.entries : k > j => s.entries[k].name # n}
            = {j \in DOMAIN t.entries : t.entries[j].name = n
                 /\ \A k \in DOMAIN t.entries : k > j => t.entries[k].name # n}
      BY <1>5, <2>1
    <3> QED
      BY <2>1, <3>1 DEF LastOf
  <2> QED
    BY <2>2, <2>3
<1> QED
  BY <1>2, <1>6, <1>10, <1>11, <1>12, <1>13 DEF Alike, s

\* A tarball that holds no name twice holds each in one place.
LEMMA NamesOnce ==
  ASSUME NEW t \in Tarballs, ~HoldsNameTwice(t),
         NEW i \in DOMAIN t.entries, NEW j \in DOMAIN t.entries,
         t.entries[i].name = t.entries[j].name
  PROVE  i = j
<1> DEFINE f == [k \in DOMAIN t.entries |-> t.entries[k].name]
<1>1. DOMAIN t.entries = 1..Len(t.entries) /\ Len(t.entries) \in Nat
  BY TarballFact
<1>2. IsFiniteSet(DOMAIN t.entries) /\ Cardinality(DOMAIN t.entries) = Len(t.entries)
  <2>1. /\ IsFiniteSet(1..Len(t.entries))
        /\ Cardinality(1..Len(t.entries)) =
             IF 1 > Len(t.entries) THEN 0 ELSE Len(t.entries) - 1 + 1
    BY <1>1, FS_Interval
  <2>2. \A n \in Nat : (1 > n => n = 0) /\ n - 1 + 1 = n
    OBVIOUS
  <2> QED
    BY <1>1, <2>1, <2>2
<1>3. f \in Surjection(DOMAIN t.entries, Names(t))
  BY DEF Names, Surjection
<1>4. Cardinality(Names(t)) <= Len(t.entries) /\ IsFiniteSet(Names(t))
  BY <1>2, <1>3, FS_Surjection
<1>5. Cardinality(Names(t)) \in Nat
  BY <1>4, FS_CardinalityType
<1>6. Cardinality(Names(t)) = Cardinality(DOMAIN t.entries)
  BY <1>1, <1>2, <1>4, <1>5 DEF HoldsNameTwice
<1>7. f \in Injection(DOMAIN t.entries, Names(t))
  BY <1>2, <1>3, <1>6, FS_Surjection
<1>8. f[i] = f[j]
  OBVIOUS
<1> QED
  BY <1>7, <1>8 DEF Injection, IsInjective

LEMMA OnceDigests ==
  ASSUME NEW t \in Tarballs, ~HoldsNameTwice(t)
  PROVE  /\ LastDigests(t) = {Digest(t.entries[i]) : i \in DOMAIN t.entries}
         /\ \A n : /\ FirstOf(t, n) = {Digest(t.entries[i]) :
                                         i \in {j \in DOMAIN t.entries : t.entries[j].name = n}}
                   /\ LastOf(t, n) = FirstOf(t, n)
<1>1. \A i, j \in DOMAIN t.entries : t.entries[i].name = t.entries[j].name => i = j
  BY NamesOnce
<1>2. \A i \in DOMAIN t.entries : i \in Nat
  BY TarballFact
<1>3. {j \in DOMAIN t.entries :
         \A k \in DOMAIN t.entries : k > j => t.entries[k].name # t.entries[j].name}
        = DOMAIN t.entries
  BY <1>1, <1>2
<1>4. ASSUME NEW n
      PROVE  /\ {j \in DOMAIN t.entries : t.entries[j].name = n
                   /\ \A k \in DOMAIN t.entries : k < j => t.entries[k].name # n}
                  = {j \in DOMAIN t.entries : t.entries[j].name = n}
             /\ {j \in DOMAIN t.entries : t.entries[j].name = n
                   /\ \A k \in DOMAIN t.entries : k > j => t.entries[k].name # n}
                  = {j \in DOMAIN t.entries : t.entries[j].name = n}
  BY <1>1, <1>2
<1>5. LastDigests(t) = {Digest(t.entries[i]) : i \in DOMAIN t.entries}
  BY <1>3, Zenon DEF LastDigests
<1>6. ASSUME NEW n
      PROVE  /\ FirstOf(t, n) = {Digest(t.entries[i]) :
                                   i \in {j \in DOMAIN t.entries : t.entries[j].name = n}}
             /\ LastOf(t, n) = FirstOf(t, n)
  BY <1>4, Zenon DEF FirstOf, LastOf
<1> QED
  BY <1>5, <1>6

\* SameContent's comparison says whether two such tarballs are read alike.
LEMMA SameAlike ==
  ASSUME NEW t \in Tarballs, NEW c \in Tarballs, ~HoldsNameTwice(t), ~HoldsNameTwice(c),
         EndsInZeros(t), EndsInZeros(c)
  PROVE  LastDigests(t) = LastDigests(c) <=> Alike(t, c)
<1>1. /\ \A i \in DOMAIN t.entries : Digest(t.entries[i]).name = t.entries[i].name
      /\ \A i \in DOMAIN c.entries : Digest(c.entries[i]).name = c.entries[i].name
  BY TarballFact, DigestName
<1>2. ASSUME LastDigests(t) = LastDigests(c) PROVE Alike(t, c)
  <2>1. /\ \A i \in DOMAIN t.entries : \E j \in DOMAIN c.entries :
             Digest(t.entries[i]) = Digest(c.entries[j])
        /\ \A j \in DOMAIN c.entries : \E i \in DOMAIN t.entries :
             Digest(t.entries[i]) = Digest(c.entries[j])
    BY <1>2, OnceDigests
  <2>2. Names(t) = Names(c)
    BY <1>1, <2>1 DEF Names
  <2>3. ASSUME NEW n PROVE FirstOf(t, n) = FirstOf(c, n)
    <3>1. /\ FirstOf(t, n) = {Digest(t.entries[i]) :
                                i \in {j \in DOMAIN t.entries : t.entries[j].name = n}}
          /\ FirstOf(c, n) = {Digest(c.entries[i]) :
                                i \in {j \in DOMAIN c.entries : c.entries[j].name = n}}
      BY OnceDigests
    <3> QED
      BY <1>1, <2>1, <3>1
  <2>4. ASSUME NEW n PROVE LastOf(t, n) = LastOf(c, n)
    BY <2>3, OnceDigests
  <2> QED
    BY <2>2, <2>3, <2>4 DEF Alike, EndsInZeros
<1>3. ASSUME Alike(t, c) PROVE LastDigests(t) = LastDigests(c)
  <2> DEFINE T(n) == {Digest(t.entries[i]) : i \in {j \in DOMAIN t.entries : t.entries[j].name = n}}
             C(n) == {Digest(c.entries[i]) : i \in {j \in DOMAIN c.entries : c.entries[j].name = n}}
  <2>1. /\ \A i \in DOMAIN t.entries : t.entries[i].name \in Names(t)
        /\ \A j \in DOMAIN c.entries : c.entries[j].name \in Names(t)
    BY <1>3 DEF Alike, Names
  <2>2. ASSUME NEW n \in Names(t) PROVE T(n) = C(n)
    <3>1. T(n) = FirstOf(t, n) /\ C(n) = FirstOf(c, n)
      BY OnceDigests
    <3>2. FirstOf(t, n) = FirstOf(c, n)
      BY <1>3, <2>2 DEF Alike
    <3> QED
      BY <3>1, <3>2
  <2>3. ASSUME NEW i \in DOMAIN t.entries
        PROVE  \E j \in DOMAIN c.entries : Digest(t.entries[i]) = Digest(c.entries[j])
    <3>1. Digest(t.entries[i]) \in T(t.entries[i].name)
      OBVIOUS
    <3>2. Digest(t.entries[i]) \in C(t.entries[i].name)
      BY <2>1, <2>2, <3>1
    <3> QED
      BY <3>2
  <2>4. ASSUME NEW j \in DOMAIN c.entries
        PROVE  \E i \in DOMAIN t.entries : Digest(t.entries[i]) = Digest(c.entries[j])
    <3>1. Digest(c.entries[j]) \in C(c.entries[j].name)
      OBVIOUS
    <3>2. Digest(c.entries[j]) \in T(c.entries[j].name)
      BY <2>1, <2>2, <3>1
    <3> QED
      BY <3>2
  <2>5. {Digest(t.entries[i]) : i \in DOMAIN t.entries}
          = {Digest(c.entries[i]) : i \in DOMAIN c.entries}
    BY <2>3, <2>4
  <2> QED
    BY <2>5, OnceDigests
<1> QED
  BY <1>2, <1>3

-----------------------------------------------------------------------------
(* ParseIntegrity *)

\* What the archive holds and what its fields digest.
Stuff == Tarballs \cup [text : {"key", "another", ""}]
Fields == [algo : {"none", "sha1", "sha256", "sha512"}, of : Stuff \cup {Malformed, None}]

\* A usable integrity decides by one of its fields.
LEMMA IntegrityFact ==
  ASSUME NEW sri \in Seq(Fields), ParseIntegrity(sri) # Unusable
  PROVE  ParseIntegrity(sri) \in Range(sri)
<1> DEFINE deciding == {i \in DOMAIN sri : Decides(sri[i])}
<1>1. deciding \subseteq Nat /\ DOMAIN sri = 1..Len(sri) /\ Len(sri) \in Nat
  OBVIOUS
<1>2. CASE deciding # {}
  <2>1. PICK m \in deciding : \A o \in deciding : ~(<<o, m>> \in OpToRel(<, Nat))
    BY <1>1, <1>2, WFMin, NatLessThanWellFounded, Zenon
  <2>2. ASSUME NEW o \in deciding PROVE ~(o < m)
    BY <1>1, <2>1, <2>2, Zenon DEF OpToRel
  <2>3. \A o \in deciding : m <= o
    BY <1>1, <2>2
  <2> DEFINE d == CHOOSE i \in deciding : \A j \in deciding : i <= j
  <2>4. d \in deciding
    BY <2>1, <2>3
  <2>5. ParseIntegrity(sri) = sri[d]
    BY <1>2 DEF ParseIntegrity
  <2> HIDE DEF d
  <2> QED
    BY <2>4, <2>5 DEF Range
<1>3. CASE deciding = {}
  <2>1. ParseIntegrity(sri) = Last(sri) /\ sri # <<>>
    BY <1>3 DEF ParseIntegrity
  <2>2. Len(sri) \in DOMAIN sri
    BY <1>1, <2>1
  <2> QED
    BY <2>1, <2>2 DEF Last, Range
<1> QED
  BY <1>2, <1>3

\* The one field the registry's lockfile gives decides.
LEMMA OwnIntegrity ==
  ASSUME NEW t, t # Malformed, NEW a \in {"sha512", "sha1"}
  PROVE  LET sri == <<[algo |-> a, of |-> t]>>
         IN ParseIntegrity(sri) = [algo |-> a, of |-> t] /\ ParseIntegrity(sri) # Unusable
<1> DEFINE f == [algo |-> a, of |-> t]
           sri == <<f>>
           deciding == {i \in DOMAIN sri : Decides(sri[i])}
           sha1s == {i \in DOMAIN sri : sri[i].algo = "sha1"}
<1>1. DOMAIN sri = {1} /\ sri[1] = f /\ sri # <<>> /\ Len(sri) = 1
  OBVIOUS
<1>2. f.algo = a /\ f.of = t
  OBVIOUS
<1>3. f # Unusable
  BY <1>2 DEF Unusable
<1>4. CASE a = "sha512"
  <2>1. deciding = {1}
    BY <1>1, <1>2, <1>4 DEF Decides
  <2>2. (CHOOSE i \in deciding : \A j \in deciding : i <= j) = 1
    BY <2>1
  <2> QED
    BY <1>1, <1>2, <1>3, <1>4, <2>1, <2>2 DEF ParseIntegrity
<1>5. CASE a = "sha1"
  <2>1. deciding = {} /\ sha1s = DOMAIN sri
    BY <1>1, <1>2, <1>5 DEF Decides
  <2> QED
    BY <1>1, <1>3, <2>1 DEF ParseIntegrity, Last
<1> QED
  BY <1>4, <1>5

-----------------------------------------------------------------------------
(* The inductive invariant of ArchiveTransfer *)

\* Names and kinds of the archive's entries.
EntryNames == [at : OddPlaces \cup {"out"}, file : Files \cup {None}]
EntryTypes == {"dir", "reg", "link", "sparse"}

Downloadeds == [pkg : DOMAIN FileOf, tarball : Tarballs, integrity : Seq(Fields)]
Shipments ==
  [pkg : DOMAIN FileOf, file : Files, integrity : Seq(Fields), tarball : Tarballs,
   stripped : BOOLEAN]
Listings ==
  [pkg : DOMAIN FileOf, file : Files, integrity : Seq(Fields), shipped : Stuff, stripped : BOOLEAN]
ArchiveEntries == [name : EntryNames, type : EntryTypes, body : Stuff, size : Nat, headers : Nat]
Archives ==
  [ok : BOOLEAN, entries : Seq(ArchiveEntries), after : {"zeros", "data"}, whole : BOOLEAN]
ManifestFiles == [fields : {"good", "bad"}, archive : Archives, packages : Seq(Listings)]
Scans ==
  [n : Nat, seen : SUBSET EntryNames, unpacked : Nat, left : Int, keySeen : BOOLEAN,
   done : SUBSET Nat, error : {"nil", "refused", "local"}]
Outcomes ==
  [copy : Tarballs \cup {None}, state : {"mismatch", "absent", "present", "failed", "conflict"}]

\* The archive and its manifest are there.
Written == phase \in {"road", "parse", "scan", "verdict", "publish"} \/ verdict # "none"

TransferTypeInv ==
  /\ phase \in {"strip", "road", "parse", "scan", "verdict", "publish", "end"}
  /\ verdict \in {"none", "refused", "local", "damaged", "accepted"}
  /\ packages \in Seq(Downloadeds) /\ shipped \in Seq(Shipments)
  /\ stripped \in [DOMAIN stripped -> Tarballs] /\ copied \in [DOMAIN copied -> Stuff]
  /\ key \in {"key", "another"} /\ limits \in LimitChoices
  /\ scan \in Scans /\ results \in Seq(Outcomes)
  /\ Written => /\ archive \in Archives /\ man \in ManifestFiles
                /\ sent \in [archive : Archives, man : ManifestFiles]

\* Each package is selected once and came with an integrity that fits it.
SelectionInv ==
  /\ \A i, j \in DOMAIN packages : packages[i].pkg = packages[j].pkg => i = j
  /\ \A i \in DOMAIN packages :
       /\ packages[i].tarball # Malformed
       /\ \E a \in {"sha512", "sha1"} :
            packages[i].integrity = <<[algo |-> a, of |-> packages[i].tarball]>>

\* What was inspected so far; a rewritten file is there unless a later package
\* took its name.
ShippedInv ==
  /\ Len(shipped) <= Len(packages)
  /\ \A i \in DOMAIN shipped :
       /\ Inspects(packages[i].tarball)
       /\ shipped[i] = Shipment(packages[i], HasPublishConfig(packages[i].tarball))
  /\ phase = "strip" =>
       \A i \in DOMAIN shipped : shipped[i].stripped =>
         /\ shipped[i].file \in DOMAIN stripped
         /\ \/ stripped[shipped[i].file] = shipped[i].tarball
            \/ \E j \in DOMAIN shipped : j > i /\ shipped[j].file = shipped[i].file

\* What the export wrote.
SentInv ==
  Written \/ sent # None =>
    LET es == sent.archive.entries
        n == Len(packages)
    IN /\ phase # "strip" /\ Len(shipped) = n
       /\ es \in Seq(ArchiveEntries) /\ sent.man.packages \in Seq(Listings)
       /\ sent.archive.whole /\ sent.archive.after = "zeros" /\ Len(es) = n + 2
       /\ es[1] = RootEntry /\ es[n + 2] = Entry(KeyFile, [text |-> "key"])
       /\ \A i \in 1..n : es[i + 1] = Entry(shipped[i].file, shipped[i].tarball)
       /\ \A i, j \in 2..n + 2 : es[i].name = es[j].name => i = j
       /\ sent.man.fields = "good" /\ sent.man.archive = sent.archive
       /\ Len(sent.man.packages) = n
       /\ \A i \in 1..n : sent.man.packages[i] = Listing(shipped[i])

\* What the road leaves of it.
RoadInv ==
  /\ phase \in {"strip", "road"} => key = "key" /\ expected = None
  /\ phase = "road" => archive = sent.archive /\ man = sent.man
  /\ Written => man.archive \in {sent.archive, archive} /\ expected \in {None, sent.archive}

\* Nothing is ahead of its phase.
PhaseInv ==
  /\ phase \in {"strip", "road", "parse"} => scan = NothingScanned /\ copied = <<>>
  /\ phase \in {"strip", "road", "parse", "scan", "verdict"} => verdict = "none" /\ results = <<>>
  /\ phase = "publish" => verdict = "accepted"

\* The bytes of content in the first n entries.
BytesBefore(a, n) == UNION {{i} \X (1 .. Content(a.entries[i])) : i \in 1..n}

IsFileEntry(j) == archive.entries[j].type # "dir"
FileAt(i) == man.packages[i].file

\* The scan of the first scan.n entries met nothing wrong.
Scanned ==
  LET es == archive.entries
      n == scan.n
  IN /\ n <= Len(es) /\ n <= limits.entries
     /\ scan.seen = {es[j].name : j \in 1..n}
     /\ \A j, k \in 1..n : es[j].name = es[k].name => j = k
     /\ scan.unpacked = Cardinality(BytesBefore(archive, n)) /\ scan.unpacked <= limits.unpacked
     /\ \A j \in 1..n :
          /\ es[j].name = Root <=> es[j].type = "dir"
          /\ es[j].name = Below(KeyFile) => es[j].body = [text |-> key]
          /\ IsFileEntry(j) /\ es[j].name # Below(KeyFile) =>
               \E i \in scan.done : es[j].name = Below(FileAt(i))
     /\ scan.done \subseteq DOMAIN man.packages
     /\ \A i \in scan.done :
          LET l == man.packages[i]
          IN /\ \E j \in 1..n : es[j].name = Below(l.file) /\ IsFileEntry(j)
             /\ l.file \in DOMAIN copied /\ copied[l.file] = l.shipped
             /\ l.stripped \/ l.shipped = ParseIntegrity(l.integrity).of
     /\ DOMAIN copied = {FileAt(i) : i \in scan.done}
     /\ scan.keySeen => \E j \in 1..n : es[j].name = Below(KeyFile)

ScanInv ==
  /\ phase \in {"scan", "verdict"} => ManifestPasses(man)
  /\ phase = "scan" => scan.error = "nil" /\ Scanned
  /\ phase = "verdict" /\ scan.error = "nil" =>
       Scanned /\ scan.n = Len(archive.entries) /\ AllPresent

\* The verdict, and what it was told by.
VerdictInv ==
  /\ verdict = "accepted" =>
       /\ ManifestPasses(man) /\ Scanned /\ scan.n = Len(archive.entries) /\ AllPresent
       /\ archive = man.archive /\ expected \in {None, archive}
  /\ verdict \notin {"none", "local"} /\ ManifestPasses(man) =>
       (verdict = "damaged" <=> archive # man.archive \/ expected \notin {None, archive})

\* publishOne's results so far are its decisions.
ResultsInv ==
  /\ results # <<>> => verdict = "accepted"
  /\ \A i \in DOMAIN results :
       /\ i \in DOMAIN man.packages
       /\ results[i].copy \in Copies[man.packages[i].pkg] \cup {None}
       /\ results[i].state = Decision(copied[FileAt(i)], man.packages[i], results[i].copy)

\* The export's own archive, at a site it fits.
Own ==
  /\ archive = sent.archive /\ man = sent.man /\ key = "key" /\ packages # <<>>
  /\ Len(archive.entries) <= limits.entries /\ Total(archive) <= limits.unpacked
  /\ Len(archive.entries) * PerEntry + Total(archive) + TarEnd <= MaxInt
  /\ \A i \in DOMAIN packages : FileOf[packages[i].pkg].plain

\* Its manifest passes, its scan goes through, since what is left suffices and
\* all is found, and it is accepted.
OwnInv ==
  Written /\ Own =>
    /\ phase = "scan" =>
         /\ scan.left = StreamBound(limits) - scan.n * PerEntry - scan.unpacked
         /\ \A i \in DOMAIN packages : i + 1 <= scan.n => i \in scan.done
         /\ scan.n = Len(archive.entries) => scan.keySeen
    /\ phase = "verdict" => scan.error \in {"nil", "local"}
    /\ verdict \notin {"none", "local"} => verdict = "accepted"

TransferInv ==
  /\ TransferTypeInv /\ SelectionInv /\ ShippedInv /\ SentInv /\ RoadInv /\ PhaseInv
  /\ ScanInv /\ VerdictInv /\ ResultsInv /\ OwnInv

-----------------------------------------------------------------------------
(* What the export writes *)

LEMMA WeightFact ==
  /\ \A b \in Stuff : Weight(b) \in Nat
  /\ \A t \in {"key", "another", ""} : [text |-> t] \in Stuff /\ Weight([text |-> t]) = 1
<1>1. ASSUME NEW t \in Tarballs PROVE Weight(t) \in Nat
  <2>1. "entries" \in DOMAIN t
    BY DEF Tarballs
  <2> QED
    BY <2>1, TarballFact DEF Weight
<1>2. ASSUME NEW b \in [text : {"key", "another", ""}] PROVE Weight(b) = 1
  <2>1. "entries" \notin DOMAIN b
    OBVIOUS
  <2> QED
    BY <2>1 DEF Weight
<1>3. \A t \in {"key", "another", ""} : [text |-> t] \in [text : {"key", "another", ""}]
  OBVIOUS
<1>4. ASSUME NEW b \in Stuff PROVE Weight(b) \in Nat
  <2>1. b \in Tarballs \/ b \in [text : {"key", "another", ""}]
    BY DEF Stuff
  <2>2. 1 \in Nat
    OBVIOUS
  <2> QED
    BY ONLY <1>1, <1>2, <2>1, <2>2
<1>5. \A t \in {"key", "another", ""} : [text |-> t] \in Stuff
  BY <1>3 DEF Stuff
<1>6. \A t \in {"key", "another", ""} : Weight([text |-> t]) = 1
  BY <1>2, <1>3
<1> QED
  BY <1>4, <1>5, <1>6

LEMMA EntryFact ==
  /\ RootEntry \in ArchiveEntries
  /\ \A file \in Files, b \in Stuff :
       /\ Entry(file, b) \in ArchiveEntries
       /\ Entry(file, b).name = Below(file) /\ Entry(file, b).body = b
       /\ Entry(file, b).type = "reg" /\ Entry(file, b).headers = 0
       /\ Entry(file, b).size = Weight(b)
<1>1. RootEntry \in ArchiveEntries
  BY WeightFact DEF RootEntry, ArchiveEntries, EntryNames, EntryTypes, Root
<1>2. ASSUME NEW file \in Files, NEW b \in Stuff
      PROVE  /\ Entry(file, b) \in ArchiveEntries
             /\ Entry(file, b).name = Below(file) /\ Entry(file, b).body = b
             /\ Entry(file, b).type = "reg" /\ Entry(file, b).headers = 0
             /\ Entry(file, b).size = Weight(b)
  BY WeightFact DEF Entry, ArchiveEntries, EntryNames, EntryTypes, Below
<1> QED
  BY <1>1, <1>2

LEMMA BelowFact ==
  /\ \A f, g : Below(f) = Below(g) => f = g
  /\ \A f \in Files : Below(f) # Root
BY TransferAssumption DEF Below, Root

LEMMA ShipmentFact ==
  ASSUME NEW d \in Downloadeds, Inspects(d.tarball)
  PROVE  LET s == Shipment(d, HasPublishConfig(d.tarball))
         IN /\ s \in Shipments /\ s.pkg = d.pkg /\ s.file = FileOf[d.pkg]
            /\ s.integrity = d.integrity
            /\ s.stripped = HasPublishConfig(d.tarball)
            /\ s.tarball = IF s.stripped THEN StripPublishConfig(d.tarball) ELSE d.tarball
<1>1. d.tarball \in Tarballs
  BY DEF Downloadeds
<1>2. HasPublishConfig(d.tarball) \in BOOLEAN /\ StripPublishConfig(d.tarball) \in Tarballs
  BY <1>1, StripFact
<1> QED
  BY <1>1, <1>2 DEF Shipment, Shipments, Downloadeds, Files

LEMMA ListingFact ==
  ASSUME NEW s \in Shipments
  PROVE  /\ Listing(s) \in Listings
         /\ Listing(s).pkg = s.pkg /\ Listing(s).file = s.file
         /\ Listing(s).integrity = s.integrity
         /\ Listing(s).shipped = s.tarball /\ Listing(s).stripped = s.stripped
BY DEF Listing, Listings, Shipments, Stuff

-----------------------------------------------------------------------------
(* The start *)

LEMMA TransferInitInv == Init => TransferInv
<1> SUFFICES ASSUME Init PROVE TransferInv
  OBVIOUS
<1>1. PICK sel \in Selections :
        /\ packages \in [DOMAIN sel -> UNION {Downloads(p) : p \in Range(sel)}]
        /\ \A i \in DOMAIN sel : packages[i] \in Downloads(sel[i])
  BY DEF Init
<1>2. /\ sel \in Seq(DOMAIN FileOf) /\ DOMAIN sel = 1..Len(sel) /\ Len(sel) \in Nat
      /\ \A i, j \in DOMAIN sel : sel[i] = sel[j] => i = j
  BY TransferAssumption
<1>3. ASSUME NEW i \in DOMAIN sel
      PROVE  /\ packages[i] \in Downloadeds /\ packages[i].pkg = sel[i]
             /\ packages[i].tarball # Malformed
             /\ \E a \in {"sha512", "sha1"} :
                  packages[i].integrity = <<[algo |-> a, of |-> packages[i].tarball]>>
  <2>1. PICK t \in Registry[sel[i]], a \in {"sha512", "sha1"} :
          packages[i] = [pkg |-> sel[i], tarball |-> t, integrity |-> <<[algo |-> a, of |-> t]>>]
    BY <1>1, <1>3 DEF Downloads
  <2>2. sel[i] \in DOMAIN FileOf
    BY <1>2, <1>3
  <2>3. t \in Tarballs /\ t # Malformed
    BY <2>2, TransferAssumption
  <2>4. [algo |-> a, of |-> t] \in Fields
    BY <2>3 DEF Fields, Stuff
  <2>5. packages[i] \in Downloadeds
    BY <2>1, <2>2, <2>3, <2>4 DEF Downloadeds
  <2>6. /\ packages[i].pkg = sel[i] /\ packages[i].tarball = t
        /\ packages[i].integrity = <<[algo |-> a, of |-> t]>>
    BY <2>1
  <2>7. packages[i].integrity = <<[algo |-> a, of |-> packages[i].tarball]>>
    BY <2>6
  <2>8. \E b \in {"sha512", "sha1"} :
          packages[i].integrity = <<[algo |-> b, of |-> packages[i].tarball]>>
    BY ONLY <2>7
  <2>9. packages[i].pkg = sel[i] /\ packages[i].tarball # Malformed
    BY ONLY <2>3, <2>6
  <2> QED
    BY ONLY <2>5, <2>8, <2>9
<1>4. packages \in Seq(Downloadeds) /\ DOMAIN packages = DOMAIN sel
  <2> DEFINE n == Len(sel)
  <2>1. packages \in [1..n -> UNION {Downloads(p) : p \in Range(sel)}] /\ n \in Nat
    BY <1>1, <1>2
  <2>2. \A i \in 1..n : packages[i] \in Downloadeds
    BY <1>2, <1>3
  <2> HIDE DEF n
  <2>3. packages \in [1..n -> Downloadeds]
    BY ONLY <2>1, <2>2
  <2>4. packages \in Seq(Downloadeds) /\ DOMAIN packages = 1..n
    BY ONLY <2>1, <2>3
  <2> QED
    BY <1>2, <2>4 DEF n
<1>5. SelectionInv
  BY <1>2, <1>3, <1>4 DEF SelectionInv
<1>6. ~Written
  BY DEF Written, Init
<1>7. scan \in Scans
  BY DEF NothingScanned, Scans, Init
<1>8. TransferTypeInv
  <2>1. <<>> \in [DOMAIN <<>> -> Tarballs] /\ <<>> \in [DOMAIN <<>> -> Stuff]
    OBVIOUS
  <2> QED
    BY <1>4, <1>6, <1>7, <2>1 DEF TransferTypeInv, Init
<1>9. ShippedInv
  BY <1>4 DEF ShippedInv, Init
<1>10. SentInv /\ RoadInv /\ PhaseInv /\ ScanInv /\ VerdictInv /\ ResultsInv /\ OwnInv
  BY <1>6 DEF SentInv, RoadInv, PhaseInv, ScanInv, VerdictInv, ResultsInv, OwnInv, Init
<1> QED
  BY <1>5, <1>8, <1>9, <1>10 DEF TransferInv

-----------------------------------------------------------------------------
(* The steps of the export *)

LEMMA StripOneStep ==
  ASSUME TransferInv, StripOne
  PROVE  TransferInv'
<1> USE DEF TransferInv
<1>1. /\ phase = "strip" /\ Len(shipped) < Len(packages)
      /\ packages \in Seq(Downloadeds) /\ shipped \in Seq(Shipments)
      /\ UNCHANGED <<packages, archive, man, sent, key, expected, limits, scan, copied,
                     verdict, results>>
  BY DEF StripOne, TransferTypeInv, roadVars, importVars
<1>2. /\ verdict = "none" /\ sent = None /\ ~Written /\ results = <<>>
      /\ scan = NothingScanned /\ copied = <<>> /\ key = "key"
  BY <1>1 DEF PhaseInv, SentInv, RoadInv, Written
<1> DEFINE n == Len(shipped) + 1
           d == packages[n]
           s == Shipment(d, HasPublishConfig(d.tarball))
<1>3. d \in Downloadeds
  BY <1>1
<1>4. CASE ~Inspects(d.tarball)
  <2>1. phase' = "end" /\ UNCHANGED <<shipped, stripped>>
    BY <1>4 DEF StripOne
  <2>2. ~Written'
    BY <1>1, <1>2, <2>1 DEF Written
  <2>3. TransferTypeInv'
    BY <1>1, <2>1, <2>2 DEF TransferTypeInv
  <2>4. SelectionInv' /\ ShippedInv'
    BY <1>1, <2>1 DEF SelectionInv, ShippedInv
  <2>5. SentInv' /\ RoadInv' /\ PhaseInv'
    BY <1>1, <1>2, <2>1, <2>2 DEF SentInv, RoadInv, PhaseInv
  <2>6. ScanInv' /\ VerdictInv' /\ ResultsInv' /\ OwnInv'
    BY <1>1, <1>2, <2>1, <2>2 DEF ScanInv, VerdictInv, ResultsInv, OwnInv
  <2> QED
    BY <2>3, <2>4, <2>5, <2>6
<1>5. CASE Inspects(d.tarball)
  <2>1. /\ shipped' = Append(shipped, s) /\ phase' = phase
        /\ stripped' = IF s.stripped THEN With(stripped, s.file, s.tarball) ELSE stripped
    BY <1>5 DEF StripOne
  <2>2. s \in Shipments /\ s.file \in Files /\ s.tarball \in Tarballs
    BY <1>3, <1>5, ShipmentFact DEF Shipments
  <2> HIDE DEF s
  <2>3. /\ shipped' \in Seq(Shipments) /\ Len(shipped') = n /\ DOMAIN shipped' = 1..n
        /\ \A i \in 1..Len(shipped) : shipped'[i] = shipped[i]
        /\ shipped'[n] = s /\ Len(shipped) \in Nat
    BY <1>1, <2>1, <2>2
  <2>4. ~Written'
    BY <1>1, <1>2, <2>1 DEF Written
  <2>5. stripped' \in [DOMAIN stripped' -> Tarballs]
    BY <2>1, <2>2 DEF TransferTypeInv, With
  <2>6. TransferTypeInv'
    BY <1>1, <2>1, <2>3, <2>4, <2>5 DEF TransferTypeInv
  <2>7. SelectionInv'
    BY <1>1 DEF SelectionInv
  <2>8. ShippedInv'
    <3>1. Len(shipped') <= Len(packages')
      BY <1>1, <2>3
    <3>2. ASSUME NEW i \in DOMAIN shipped'
          PROVE  /\ Inspects(packages'[i].tarball)
                 /\ shipped'[i] = Shipment(packages'[i], HasPublishConfig(packages'[i].tarball))
      <4>1. CASE i = n
        BY <1>1, <1>5, <2>3, <4>1 DEF s
      <4>2. CASE i \in 1..Len(shipped)
        BY <1>1, <2>3, <4>2 DEF ShippedInv
      <4> QED
        BY <2>3, <4>1, <4>2
    <3>3. ASSUME NEW i \in DOMAIN shipped', shipped'[i].stripped
          PROVE  /\ shipped'[i].file \in DOMAIN stripped'
                 /\ \/ stripped'[shipped'[i].file] = shipped'[i].tarball
                    \/ \E j \in DOMAIN shipped' : j > i /\ shipped'[j].file = shipped'[i].file
      <4>1. CASE i = n
        BY <2>1, <2>3, <3>3, <4>1 DEF With
      <4>2. CASE i \in 1..Len(shipped)
        <5>1. /\ shipped[i].file \in DOMAIN stripped
              /\ \/ stripped[shipped[i].file] = shipped[i].tarball
                 \/ \E j \in DOMAIN shipped : j > i /\ shipped[j].file = shipped[i].file
          BY <1>1, <2>3, <3>3, <4>2 DEF ShippedInv
        <5>2. CASE \E j \in DOMAIN shipped : j > i /\ shipped[j].file = shipped[i].file
          BY <1>1, <2>1, <2>3, <4>2, <5>1, <5>2 DEF With
        <5>3. CASE stripped[shipped[i].file] = shipped[i].tarball /\ s.stripped
                     /\ s.file = shipped[i].file
          <6>1. n \in DOMAIN shipped' /\ n > i /\ shipped'[n].file = shipped'[i].file
            BY <2>3, <4>2, <5>3
          <6> QED
            BY <2>1, <2>3, <4>2, <5>3, <6>1 DEF With
        <5>4. CASE stripped[shipped[i].file] = shipped[i].tarball
                     /\ ~(s.stripped /\ s.file = shipped[i].file)
          BY <2>1, <2>3, <4>2, <5>1, <5>4 DEF With
        <5> QED
          BY <5>1, <5>2, <5>3, <5>4
      <4> QED
        BY <2>3, <4>1, <4>2
    <3> QED
      BY <3>1, <3>2, <3>3 DEF ShippedInv
  <2>9. SentInv' /\ RoadInv' /\ PhaseInv'
    BY <1>1, <1>2, <2>1, <2>4 DEF SentInv, RoadInv, PhaseInv
  <2>10. ScanInv' /\ VerdictInv' /\ ResultsInv' /\ OwnInv'
    BY <1>1, <1>2, <2>1, <2>4 DEF ScanInv, VerdictInv, ResultsInv, OwnInv
  <2> QED
    BY <2>6, <2>7, <2>8, <2>9, <2>10
<1> QED
  BY <1>4, <1>5

\* What WriteTarGz makes of the shipped files when no two share a name.
LEMMA WrittenFact ==
  ASSUME TransferInv, phase = "strip", Len(shipped) = Len(packages), WriteTarGz(Entries).ok
  PROVE  LET n == Len(packages)
             es == WriteTarGz(Entries).entries
         IN /\ WriteTarGz(Entries) \in Archives
            /\ n \in Nat /\ Len(es) = n + 2 /\ es \in Seq(ArchiveEntries)
            /\ es[1] = RootEntry /\ es[n + 2] = Entry(KeyFile, [text |-> "key"])
            /\ \A i \in 1..n : es[i + 1] = Entry(shipped[i].file, shipped[i].tarball)
            /\ \A i, j \in 2..n + 2 : es[i].name = es[j].name => i = j
<1> DEFINE n == Len(packages)
           A == WriteTarGz(Entries)
           fs == [i \in DOMAIN shipped |-> Entry(shipped[i].file, Opened(shipped[i]))]
           k == Entry(KeyFile, [text |-> key])
<1>1. /\ shipped \in Seq(Shipments) /\ DOMAIN shipped = 1..n /\ n \in Nat
      /\ stripped \in [DOMAIN stripped -> Tarballs] /\ key = "key"
      /\ \A i \in DOMAIN shipped : shipped[i].stripped =>
           /\ shipped[i].file \in DOMAIN stripped
           /\ \/ stripped[shipped[i].file] = shipped[i].tarball
              \/ \E j \in DOMAIN shipped : j > i /\ shipped[j].file = shipped[i].file
  BY DEF TransferInv, TransferTypeInv, ShippedInv, RoadInv
<1>2. ASSUME NEW i \in 1..n
      PROVE  /\ shipped[i].file \in Files /\ shipped[i].tarball \in Stuff
             /\ Opened(shipped[i]) \in Stuff
             /\ fs[i] \in ArchiveEntries /\ fs[i].name = Below(shipped[i].file)
             /\ fs[i] = Entry(shipped[i].file, Opened(shipped[i]))
  <2>1. shipped[i] \in Shipments
    BY <1>1
  <2>2. /\ shipped[i].file \in Files /\ shipped[i].tarball \in Tarballs
        /\ shipped[i].stripped \in BOOLEAN
    BY <2>1 DEF Shipments
  <2>3. Opened(shipped[i]) \in Tarballs
    BY <1>1, <2>2 DEF Opened
  <2>4. fs[i] = Entry(shipped[i].file, Opened(shipped[i]))
    BY <1>1
  <2>5. Opened(shipped[i]) \in Stuff /\ shipped[i].tarball \in Stuff
    BY ONLY <2>2, <2>3 DEF Stuff
  <2> HIDE DEF fs
  <2>6. fs[i] \in ArchiveEntries /\ fs[i].name = Below(shipped[i].file)
    BY ONLY <2>2, <2>4, <2>5, EntryFact
  <2> QED
    BY ONLY <2>2, <2>4, <2>5, <2>6
<1>3. k \in ArchiveEntries /\ k = Entry(KeyFile, [text |-> "key"])
  BY <1>1, EntryFact, WeightFact DEF Files
<1>4. fs \in Seq(ArchiveEntries) /\ Len(fs) = n
  <2>1. fs \in [1..n -> ArchiveEntries]
    BY <1>1, <1>2
  <2> QED
    BY <1>1, <2>1
<1>5. /\ Entries \in Seq(ArchiveEntries) /\ Len(Entries) = n + 1 /\ DOMAIN Entries = 1..n + 1
      /\ \A i \in 1..n : Entries[i] = fs[i]
      /\ Entries[n + 1] = k
  <2>1. Entries = fs \o <<k>>
    BY DEF Entries
  <2> HIDE DEF fs, k
  <2> QED
    BY <1>1, <1>3, <1>4, <2>1
<1> HIDE DEF fs, k
<1>6. /\ A.entries = <<RootEntry>> \o Entries /\ A.after = "zeros" /\ A.whole = TRUE
      /\ A.ok = \A i, j \in DOMAIN Entries : Entries[i].name = Entries[j].name => i = j
  BY DEF WriteTarGz
<1>7. /\ A.entries \in Seq(ArchiveEntries) /\ Len(A.entries) = n + 2
      /\ A.entries[1] = RootEntry
      /\ \A i \in 1..n + 1 : A.entries[i + 1] = Entries[i]
  BY <1>1, <1>5, <1>6, EntryFact
<1>8. \A i, j \in 1..n + 1 : Entries[i].name = Entries[j].name => i = j
  BY <1>5, <1>6
<1>9. A \in Archives
  <2>1. A = [ok |-> A.ok, entries |-> A.entries, after |-> "zeros", whole |-> TRUE]
    BY DEF WriteTarGz
  <2>2. A.ok \in BOOLEAN
    BY <1>6
  <2> DEFINE o == A.ok
             x == A.entries
  <2>3. o \in BOOLEAN /\ x \in Seq(ArchiveEntries) /\ TRUE \in BOOLEAN
    BY <1>7, <2>2
  <2> HIDE DEF A, o, x
  <2>4. [ok |-> o, entries |-> x, after |-> "zeros", whole |-> TRUE] \in Archives
    BY ONLY <2>3 DEF Archives
  <2> QED
    BY <2>1, <2>4 DEF o, x
<1>10. ASSUME NEW i \in 1..n
       PROVE  A.entries[i + 1] = Entry(shipped[i].file, shipped[i].tarball)
  <2>1. \A j \in 1..n : shipped[j].file = shipped[i].file => i = j
    BY <1>1, <1>2, <1>5, <1>8
  <2>2. Opened(shipped[i]) = shipped[i].tarball
    BY <1>1, <2>1 DEF Opened
  <2> QED
    BY <1>1, <1>2, <1>5, <1>7, <2>2
<1>11. A.entries[n + 2] = Entry(KeyFile, [text |-> "key"])
  BY <1>1, <1>3, <1>5, <1>7
<1>12. ASSUME NEW i \in 2..n + 2, NEW j \in 2..n + 2, A.entries[i].name = A.entries[j].name
       PROVE  i = j
  <2>1. i - 1 \in 1..n + 1 /\ j - 1 \in 1..n + 1 /\ (i - 1) + 1 = i /\ (j - 1) + 1 = j
    BY <1>1
  <2>2. Entries[i - 1].name = Entries[j - 1].name
    BY <1>7, <1>12, <2>1
  <2>3. i - 1 = j - 1
    BY <1>8, <2>1, <2>2
  <2> QED
    BY <2>1, <2>3
<1> HIDE DEF A
<1> QED
  BY <1>1, <1>7, <1>9, <1>10, <1>11, <1>12 DEF A

LEMMA WriteListedStep ==
  ASSUME TransferInv, WriteListed
  PROVE  TransferInv'
<1> DEFINE n == Len(packages)
           A == WriteTarGz(Entries)
           ls == [i \in DOMAIN shipped |-> Listing(shipped[i])]
           m == [fields |-> "good", archive |-> A, packages |-> ls]
<1>1. /\ phase = "strip" /\ Len(shipped) = n
      /\ packages \in Seq(Downloadeds) /\ shipped \in Seq(Shipments) /\ n \in Nat
      /\ UNCHANGED <<packages, shipped, stripped, key, expected, limits, scan, copied,
                     verdict, results>>
  BY DEF WriteListed, TransferInv, TransferTypeInv, exportVars, importVars
<1>2. /\ verdict = "none" /\ sent = None /\ ~Written /\ results = <<>>
      /\ scan = NothingScanned /\ copied = <<>> /\ key = "key" /\ expected = None
  <2>1. PhaseInv /\ SentInv /\ RoadInv
    BY DEF TransferInv
  <2> QED
    BY <1>1, <2>1 DEF PhaseInv, SentInv, RoadInv, Written
<1>3. IF A.ok
      THEN /\ archive' = A /\ man' = m /\ sent' = [archive |-> A, man |-> m] /\ phase' = "road"
      ELSE phase' = "end" /\ UNCHANGED <<archive, man, sent>>
  BY DEF WriteListed
<1>4. SelectionInv' /\ TransferTypeInv /\ ShippedInv
  <2>1. SelectionInv /\ TransferTypeInv /\ ShippedInv
    BY DEF TransferInv
  <2> QED
    BY <1>1, <2>1 DEF SelectionInv
<1>5. ShippedInv'
  BY <1>1, <1>3, <1>4 DEF ShippedInv
<1>6. ScanInv' /\ VerdictInv' /\ ResultsInv' /\ PhaseInv' /\ OwnInv'
  BY <1>1, <1>2, <1>3 DEF ScanInv, VerdictInv, ResultsInv, PhaseInv, OwnInv
<1>7. CASE ~A.ok
  <2>1. ~Written'
    BY <1>1, <1>2, <1>3, <1>7 DEF Written
  <2>2. TransferTypeInv'
    BY <1>1, <1>3, <1>4, <1>7, <2>1 DEF TransferTypeInv
  <2>3. SentInv' /\ RoadInv'
    BY <1>1, <1>2, <1>3, <1>7, <2>1 DEF SentInv, RoadInv
  <2> QED
    BY <1>4, <1>5, <1>6, <2>2, <2>3 DEF TransferInv
<1>8. CASE A.ok
  <2>1. LET es == A.entries
        IN /\ A \in Archives
           /\ n \in Nat /\ Len(es) = n + 2 /\ es \in Seq(ArchiveEntries)
           /\ es[1] = RootEntry /\ es[n + 2] = Entry(KeyFile, [text |-> "key"])
           /\ \A i \in 1..n : es[i + 1] = Entry(shipped[i].file, shipped[i].tarball)
           /\ \A i, j \in 2..n + 2 : es[i].name = es[j].name => i = j
    BY <1>1, <1>8, WrittenFact
  <2>2. A.whole /\ A.after = "zeros"
    BY DEF WriteTarGz
  <2>3. /\ ls \in Seq(Listings) /\ Len(ls) = n
        /\ \A i \in 1..n : ls[i] = Listing(shipped[i])
    <3>1. DOMAIN shipped = 1..n /\ \A i \in 1..n : shipped[i] \in Shipments
      BY <1>1
    <3>2. ls \in [1..n -> Listings]
      BY <3>1, ListingFact
    <3> QED
      BY <1>1, <3>1, <3>2
  <2> HIDE DEF A, ls
  <2>4. m \in ManifestFiles
    BY <2>1, <2>3 DEF ManifestFiles
  <2>5. m.fields = "good" /\ m.archive = A /\ m.packages = ls
    OBVIOUS
  <2> HIDE DEF m
  <2>6. /\ archive' = A /\ man' = m /\ phase' = "road"
        /\ sent' = [archive |-> A, man |-> m]
    BY <1>3, <1>8
  <2>7. sent'.archive = A /\ sent'.man = m
    BY <2>6
  <2>8. TransferTypeInv'
    <3>1. A \in Archives /\ [archive |-> A, man |-> m] \in [archive : Archives, man : ManifestFiles]
      BY <2>1, <2>4
    <3>2. archive' \in Archives /\ man' \in ManifestFiles /\ phase' = "road"
      BY <2>4, <2>6, <3>1
    <3>3. sent' \in [archive : Archives, man : ManifestFiles]
      BY <2>6, <3>1
    <3> QED
      BY <1>1, <1>4, <3>2, <3>3 DEF TransferTypeInv
  <2>9. RoadInv'
    BY <1>1, <1>2, <2>5, <2>6, <2>7 DEF RoadInv, Written
  <2>10. SentInv'
    BY <1>1, <2>1, <2>2, <2>3, <2>5, <2>6, <2>7 DEF SentInv
  <2> QED
    BY <1>4, <1>5, <1>6, <2>8, <2>9, <2>10 DEF TransferInv
<1> QED
  BY <1>7, <1>8

-----------------------------------------------------------------------------
(* The road *)

\* Another entry, or other entries, in an archive.
LEMMA EntriesReplaced ==
  ASSUME NEW a \in Archives, NEW es \in Seq(ArchiveEntries)
  PROVE  /\ [a EXCEPT !.entries = es] \in Archives
         /\ [a EXCEPT !.entries = es, !.whole = FALSE] \in Archives
         /\ [a EXCEPT !.after = "data"] \in Archives
BY DEF Archives

LEMMA AlteredEntryFact ==
  ASSUME NEW e \in ArchiveEntries
  PROVE  AlteredEntry(e) \subseteq ArchiveEntries
<1>1. ASSUME NEW place \in OddPlaces
      PROVE  [e EXCEPT !.name = [@ EXCEPT !.at = place]] \in ArchiveEntries
  <2>1. [e.name EXCEPT !.at = place] \in EntryNames
    BY DEF ArchiveEntries, EntryNames
  <2> QED
    BY <2>1 DEF ArchiveEntries
<1>2. ASSUME NEW f \in Files PROVE [e EXCEPT !.name = Below(f)] \in ArchiveEntries
  <2>1. Below(f) \in EntryNames
    BY DEF Below, EntryNames
  <2> QED
    BY <2>1 DEF ArchiveEntries
<1>3. ASSUME NEW t \in {"dir", "reg", "link", "sparse"} PROVE [e EXCEPT !.type = t] \in ArchiveEntries
  BY DEF ArchiveEntries, EntryTypes
<1>4. ASSUME NEW b \in Bodies PROVE [e EXCEPT !.body = b, !.size = Weight(b)] \in ArchiveEntries
  <2>1. NotATarball \in Tarballs
    BY DEF NotATarball, Tarballs
  <2>2. b \in Tarballs
    <3>1. b = NotATarball \/ \E p \in DOMAIN Registry : b \in Registry[p]
      BY DEF Bodies
    <3>2. \A p \in DOMAIN Registry : Registry[p] \subseteq Tarballs
      BY TransferAssumption
    <3> QED
      BY ONLY <2>1, <3>1, <3>2
  <2>3. b \in Stuff
    BY ONLY <2>2 DEF Stuff
  <2>4. Weight(b) \in Nat
    BY <2>3, WeightFact
  <2> QED
    BY <2>3, <2>4 DEF ArchiveEntries
<1>5. [e EXCEPT !.size = MaxInt] \in ArchiveEntries /\ [e EXCEPT !.headers = MaxInt] \in ArchiveEntries
  BY TransferAssumption DEF ArchiveEntries
<1> QED
  BY <1>1, <1>2, <1>3, <1>4, <1>5 DEF AlteredEntry

LEMMA AlteredFact ==
  ASSUME NEW a \in Archives
  PROVE  Altered(a) \subseteq Archives
<1> DEFINE es == a.entries
<1>1. es \in Seq(ArchiveEntries) /\ Len(es) \in Nat /\ DOMAIN es = 1..Len(es)
  BY DEF Archives
<1>2. ASSUME NEW i \in DOMAIN es
      PROVE  /\ [a EXCEPT !.entries = RemoveAt(@, i)] \in Archives
             /\ [a EXCEPT !.entries = Append(@, @[i])] \in Archives
             /\ [a EXCEPT !.entries = SubSeq(@, 1, i), !.whole = FALSE] \in Archives
  <2>1. RemoveAt(es, i) \in Seq(ArchiveEntries)
    <3>1. SubSeq(es, 1, i - 1) \in Seq(ArchiveEntries)
      BY <1>1
    <3>2. SubSeq(es, i + 1, Len(es)) \in Seq(ArchiveEntries)
      BY <1>1
    <3> QED
      BY <3>1, <3>2 DEF RemoveAt
  <2>2. Append(es, es[i]) \in Seq(ArchiveEntries)
    BY <1>1
  <2>3. SubSeq(es, 1, i) \in Seq(ArchiveEntries)
    BY <1>1
  <2> QED
    BY <2>1, <2>2, <2>3, EntriesReplaced
<1>3. [a EXCEPT !.entries = Reverse(@)] \in Archives /\ [a EXCEPT !.after = "data"] \in Archives
  <2>1. Reverse(es) \in Seq(ArchiveEntries)
    BY <1>1 DEF Reverse
  <2> QED
    BY <2>1, EntriesReplaced
<1>4. ASSUME NEW i \in DOMAIN es, NEW e \in AlteredEntry(es[i])
      PROVE  [a EXCEPT !.entries[i] = e] \in Archives
  <2>1. e \in ArchiveEntries
    BY <1>1, AlteredEntryFact
  <2>2. [es EXCEPT ![i] = e] \in Seq(ArchiveEntries)
    BY <1>1, <2>1
  <2>3. [a EXCEPT !.entries[i] = e] = [a EXCEPT !.entries = [es EXCEPT ![i] = e]]
    OBVIOUS
  <2> QED
    BY <2>2, <2>3, EntriesReplaced
<1>5. /\ {[a EXCEPT !.entries = RemoveAt(@, i)] : i \in DOMAIN a.entries} \subseteq Archives
      /\ {[a EXCEPT !.entries = Append(@, @[i])] : i \in DOMAIN a.entries} \subseteq Archives
      /\ {[a EXCEPT !.entries = SubSeq(@, 1, i), !.whole = FALSE] : i \in DOMAIN a.entries}
           \subseteq Archives
  BY <1>2
<1>6. UNION {{[a EXCEPT !.entries[i] = e] : e \in AlteredEntry(a.entries[i])} : i \in DOMAIN a.entries}
        \subseteq Archives
  BY <1>4
<1>7. {[a EXCEPT !.entries = Reverse(@)], [a EXCEPT !.after = "data"]} \subseteq Archives
  BY <1>3
<1> QED
  BY <1>5, <1>6, <1>7, Zenon DEF Altered

\* Other packages in a manifest.
LEMMA PackagesReplaced ==
  ASSUME NEW m \in ManifestFiles, NEW ls \in Seq(Listings), NEW a \in Archives
  PROVE  /\ [m EXCEPT !.packages = ls] \in ManifestFiles
         /\ [m EXCEPT !.packages = ls].archive = m.archive
         /\ [m EXCEPT !.fields = "bad"] \in ManifestFiles
         /\ [m EXCEPT !.fields = "bad"].archive = m.archive
         /\ [m EXCEPT !.archive = a] \in ManifestFiles
         /\ [m EXCEPT !.archive = a].archive = a
         /\ [m EXCEPT !.archive = a, !.packages = ls] \in ManifestFiles
         /\ [m EXCEPT !.archive = a, !.packages = ls].archive = a
BY DEF ManifestFiles

LEMMA RelistedFact ==
  ASSUME NEW m \in ManifestFiles, NEW a \in Archives
  PROVE  Relisted(m, a) \in ManifestFiles /\ Relisted(m, a).archive = a
<1> DEFINE ls == [i \in DOMAIN m.packages |-> RelistedAs(m.packages[i], a)]
<1>1. /\ m.packages \in Seq(Listings) /\ DOMAIN m.packages = 1..Len(m.packages)
      /\ Len(m.packages) \in Nat /\ a.entries \in Seq(ArchiveEntries)
  BY DEF ManifestFiles, Archives
<1>2. ASSUME NEW l \in Listings PROVE RelistedAs(l, a) \in Listings
  <2> DEFINE held == EntriesNamed(a, l.file)
  <2>1. CASE held = {}
    BY <2>1 DEF RelistedAs
  <2>2. CASE held # {}
    <3> DEFINE j == CHOOSE j \in held : TRUE
    <3>1. j \in DOMAIN a.entries
      BY <2>2 DEF EntriesNamed
    <3>2. RelistedAs(l, a) = [l EXCEPT !.shipped = a.entries[j].body]
      BY <2>2 DEF RelistedAs
    <3> HIDE DEF j
    <3>3. a.entries[j] \in ArchiveEntries
      BY <1>1, <3>1
    <3>4. a.entries[j].body \in Stuff
      BY <3>3 DEF ArchiveEntries
    <3> QED
      BY <3>2, <3>4 DEF Listings
  <2> QED
    BY <2>1, <2>2
<1>3. ls \in Seq(Listings)
  <2> DEFINE n == Len(m.packages)
  <2>1. ls \in [1..n -> Listings]
    BY <1>1, <1>2
  <2> HIDE DEF ls, n
  <2>2. ls \in Seq(Listings)
    BY <1>1, <2>1 DEF n
  <2> QED
    BY <2>2
<1>4. Relisted(m, a) = [m EXCEPT !.archive = a, !.packages = ls]
  BY DEF Relisted
<1> HIDE DEF ls
<1>5. /\ [m EXCEPT !.archive = a, !.packages = ls] \in ManifestFiles
      /\ [m EXCEPT !.archive = a, !.packages = ls].archive = a
  BY <1>3 DEF ManifestFiles
<1> QED
  BY ONLY <1>4, <1>5

LEMMA AlteredListingFact ==
  ASSUME NEW l \in Listings
  PROVE  AlteredListing(l) \subseteq Listings
<1>1. /\ l.integrity \in Seq(Fields) /\ l.shipped \in Stuff /\ l.stripped \in BOOLEAN
  BY DEF Listings
<1>2. /\ [algo |-> "sha256", of |-> None] \in Fields
      /\ [algo |-> "sha512", of |-> Malformed] \in Fields
      /\ [algo |-> "sha512", of |-> l.shipped] \in Fields
  BY <1>1 DEF Fields
<1>3. /\ Append(l.integrity, [algo |-> "sha256", of |-> None]) \in Seq(Fields)
      /\ <<[algo |-> "sha512", of |-> Malformed]>> \o l.integrity \in Seq(Fields)
      /\ Append(l.integrity, [algo |-> "sha512", of |-> l.shipped]) \in Seq(Fields)
  BY <1>1, <1>2
<1>4. ASSUME NEW sri \in Seq(Fields) PROVE [l EXCEPT !.integrity = sri] \in Listings
  BY DEF Listings
<1>5. [l EXCEPT !.stripped = ~@] \in Listings
  BY DEF Listings
<1>6. /\ \A f \in Files : [l EXCEPT !.file = f] \in Listings
      /\ \A p \in DOMAIN FileOf : [l EXCEPT !.pkg = p] \in Listings
  BY DEF Listings
<1> QED
  BY <1>3, <1>4, <1>5, <1>6 DEF AlteredListing

LEMMA AlteredManifestFact ==
  ASSUME NEW m \in ManifestFiles
  PROVE  \A x \in AlteredManifest(m) : x \in ManifestFiles /\ x.archive = m.archive
<1> DEFINE ls == m.packages
           good(x) == x \in ManifestFiles /\ x.archive = m.archive
<1>1. ls \in Seq(Listings) /\ Len(ls) \in Nat /\ DOMAIN ls = 1..Len(ls) /\ m.archive \in Archives
  BY DEF ManifestFiles
<1>2. good([m EXCEPT !.fields = "bad"]) /\ good([m EXCEPT !.packages = <<>>])
  <2>1. <<>> \in Seq(Listings)
    OBVIOUS
  <2> QED
    BY <1>1, <2>1, PackagesReplaced
<1>3. ASSUME NEW i \in DOMAIN ls
      PROVE  /\ good([m EXCEPT !.packages = RemoveAt(@, i)])
             /\ good([m EXCEPT !.packages = Append(@, @[i])])
  <2>1. RemoveAt(ls, i) \in Seq(Listings)
    <3>1. SubSeq(ls, 1, i - 1) \in Seq(Listings)
      BY <1>1
    <3>2. SubSeq(ls, i + 1, Len(ls)) \in Seq(Listings)
      BY <1>1
    <3> QED
      BY <3>1, <3>2 DEF RemoveAt
  <2>2. Append(ls, ls[i]) \in Seq(Listings)
    BY <1>1
  <2> QED
    BY <1>1, <2>1, <2>2, PackagesReplaced
<1>4. ASSUME NEW i \in DOMAIN ls, NEW l \in AlteredListing(ls[i])
      PROVE  good([m EXCEPT !.packages[i] = l])
  <2>1. l \in Listings
    BY <1>1, AlteredListingFact
  <2>2. [ls EXCEPT ![i] = l] \in Seq(Listings)
    BY <1>1, <2>1
  <2>3. [m EXCEPT !.packages[i] = l] = [m EXCEPT !.packages = [ls EXCEPT ![i] = l]]
    OBVIOUS
  <2> QED
    BY <1>1, <2>2, <2>3, PackagesReplaced
<1> HIDE DEF good
<1>5. \A x \in {[m EXCEPT !.fields = "bad"], [m EXCEPT !.packages = <<>>]} : good(x)
  BY <1>2
<1>6. /\ \A x \in {[m EXCEPT !.packages = RemoveAt(@, i)] : i \in DOMAIN m.packages} : good(x)
      /\ \A x \in {[m EXCEPT !.packages = Append(@, @[i])] : i \in DOMAIN m.packages} : good(x)
  BY <1>3
<1>7. \A x \in UNION {{[m EXCEPT !.packages[i] = l] : l \in AlteredListing(m.packages[i])} :
                      i \in DOMAIN m.packages} : good(x)
  BY <1>4
<1>8. \A x \in AlteredManifest(m) : good(x)
  BY <1>5, <1>6, <1>7, Zenon DEF AlteredManifest
<1> QED
  BY <1>8 DEF good

LEMMA RoadStep ==
  ASSUME TransferInv, Road
  PROVE  TransferInv'
<1>1. /\ phase = "road" /\ phase' = "parse" /\ expected' \in {None, sent.archive}
      /\ UNCHANGED <<packages, shipped, stripped, sent, limits, scan, copied, verdict, results>>
  BY DEF Road, exportVars, importVars
<1>2. Written /\ Written'
  BY <1>1 DEF Written
<1>3. /\ TransferTypeInv /\ SelectionInv /\ ShippedInv /\ SentInv /\ RoadInv /\ PhaseInv
  BY DEF TransferInv
<1>4. /\ archive \in Archives /\ man \in ManifestFiles
      /\ archive = sent.archive /\ man = sent.man /\ key = "key"
      /\ sent.man.archive = sent.archive
  BY <1>1, <1>2, <1>3 DEF TransferTypeInv, RoadInv, SentInv
<1>5. /\ scan = NothingScanned /\ copied = <<>> /\ verdict = "none" /\ results = <<>>
  BY <1>1, <1>3 DEF PhaseInv
<1>6. /\ archive' \in Archives /\ man' \in ManifestFiles /\ key' \in {"key", "another"}
      /\ man'.archive \in {sent.archive, archive'}
  <2>1. ASSUME NEW a \in Altered(archive), archive' = a, key' = key,
               man' \in {man, [man EXCEPT !.archive = a], Relisted(man, a)}
        PROVE  /\ archive' \in Archives /\ man' \in ManifestFiles /\ key' \in {"key", "another"}
               /\ man'.archive \in {sent.archive, archive'}
    <3>1. a \in Archives
      BY <1>4, AlteredFact
    <3>2. /\ [man EXCEPT !.archive = a] \in ManifestFiles
          /\ [man EXCEPT !.archive = a].archive = a
      BY <1>4, <3>1 DEF ManifestFiles
    <3>3. Relisted(man, a) \in ManifestFiles /\ Relisted(man, a).archive = a
      BY <1>4, <3>1, RelistedFact
    <3> QED
      BY <1>4, <2>1, <3>1, <3>2, <3>3
  <2>2. ASSUME man' \in AlteredManifest(man), UNCHANGED <<archive, key>>
        PROVE  /\ archive' \in Archives /\ man' \in ManifestFiles /\ key' \in {"key", "another"}
               /\ man'.archive \in {sent.archive, archive'}
    BY <1>4, <2>2, AlteredManifestFact
  <2>3. ASSUME key' \in {key, "another"}, UNCHANGED <<archive, man>>
        PROVE  /\ archive' \in Archives /\ man' \in ManifestFiles /\ key' \in {"key", "another"}
               /\ man'.archive \in {sent.archive, archive'}
    BY <1>4, <2>3
  <2> QED
    BY <2>1, <2>2, <2>3 DEF Road
<1>7. TransferTypeInv'
  BY <1>1, <1>2, <1>3, <1>6 DEF TransferTypeInv
<1>8. SelectionInv' /\ ShippedInv' /\ SentInv'
  BY <1>1, <1>2, <1>3 DEF SelectionInv, ShippedInv, SentInv
<1>9. RoadInv' /\ PhaseInv'
  BY <1>1, <1>5, <1>6 DEF RoadInv, PhaseInv
<1>10. ScanInv' /\ VerdictInv' /\ ResultsInv' /\ OwnInv'
  BY <1>1, <1>5 DEF ScanInv, VerdictInv, ResultsInv, OwnInv
<1> QED
  BY <1>7, <1>8, <1>9, <1>10 DEF TransferInv

-----------------------------------------------------------------------------
(* The steps of the import *)

\* A step of the import leaves alone what the export wrote and the road changed.
LEMMA ImportSide ==
  ASSUME TransferInv, Written, phase' \notin {"strip", "road"},
         UNCHANGED <<exportVars, roadVars>>
  PROVE  SelectionInv' /\ ShippedInv' /\ SentInv' /\ RoadInv'
<1>1. UNCHANGED <<packages, shipped, stripped, archive, man, sent, key, expected, limits>>
  BY DEF exportVars, roadVars
<1>2. SelectionInv /\ ShippedInv /\ SentInv /\ RoadInv
  BY DEF TransferInv
<1>3. SelectionInv' /\ ShippedInv'
  BY <1>1, <1>2 DEF SelectionInv, ShippedInv
<1>4. SentInv'
  BY <1>1, <1>2 DEF SentInv
<1>5. RoadInv'
  BY <1>1, <1>2 DEF RoadInv
<1> QED
  BY <1>3, <1>4, <1>5

\* So do they keep whatever is true of these variables alone.
LEMMA OwnStays ==
  ASSUME UNCHANGED <<exportVars, roadVars>>
  PROVE  Own' = Own
BY DEF exportVars, roadVars, Own

\* The limits are numbers, and what they bound is counted.
LEMMA LimitsFact ==
  ASSUME TransferInv, Written
  PROVE  /\ limits.entries \in Nat /\ limits.unpacked \in Nat /\ MaxInt \in Nat \ {0}
         /\ archive.entries \in Seq(ArchiveEntries) /\ Len(archive.entries) \in Nat
         /\ DOMAIN archive.entries = 1..Len(archive.entries)
         /\ man.packages \in Seq(Listings) /\ Len(man.packages) \in Nat
         /\ DOMAIN man.packages = 1..Len(man.packages)
         /\ scan \in Scans /\ StreamBound(limits) \in Int
<1>1. limits \in [entries : Nat, unpacked : Nat] /\ MaxInt \in Nat \ {0}
  BY TransferAssumption DEF TransferInv, TransferTypeInv
<1>2. archive \in Archives /\ man \in ManifestFiles /\ scan \in Scans
  BY DEF TransferInv, TransferTypeInv
<1>3. limits.entries \in Nat /\ limits.unpacked \in Nat
  BY <1>1
<1>4. StreamBound(limits) \in Int
  BY <1>1, <1>3 DEF StreamBound, PerEntry, TarEnd
<1>5. archive.entries \in Seq(ArchiveEntries) /\ man.packages \in Seq(Listings)
  BY <1>2 DEF Archives, ManifestFiles
<1> QED
  BY <1>1, <1>2, <1>3, <1>4, <1>5

\* What the import finds of an export that arrived as it was written.
LEMMA OwnFact ==
  ASSUME TransferInv, Written, Own
  PROVE  LET n == Len(packages)
             es == archive.entries
         IN /\ n \in Nat \ {0} /\ Len(es) = n + 2 /\ Len(man.packages) = n
            /\ es[1] = RootEntry /\ es[n + 2] = Entry(KeyFile, [text |-> key])
            /\ \A i \in 1..n :
                 /\ es[i + 1] = Entry(FileAt(i), man.packages[i].shipped)
                 /\ FileAt(i) \in Files /\ man.packages[i].shipped \in Stuff
                 /\ \/ man.packages[i].stripped
                    \/ man.packages[i].shipped = ParseIntegrity(man.packages[i].integrity).of
            /\ \A i, j \in 2..n + 2 : es[i].name = es[j].name => i = j
            /\ archive.whole /\ archive.after = "zeros" /\ man.archive = archive
            /\ ManifestPasses(man)
<1> DEFINE n == Len(packages)
           es == archive.entries
           l(i) == man.packages[i]
<1>1. /\ packages \in Seq(Downloadeds) /\ shipped \in Seq(Shipments)
      /\ n \in Nat \ {0} /\ DOMAIN packages = 1..n
  BY DEF TransferInv, TransferTypeInv, Own
<1>2. /\ \A i, j \in DOMAIN packages : packages[i].pkg = packages[j].pkg => i = j
      /\ \A i \in DOMAIN packages :
           /\ packages[i].tarball # Malformed
           /\ \E a \in {"sha512", "sha1"} :
                packages[i].integrity = <<[algo |-> a, of |-> packages[i].tarball]>>
  BY DEF TransferInv, SelectionInv
<1>3. /\ Len(shipped) = n /\ archive.whole /\ archive.after = "zeros" /\ Len(es) = n + 2
      /\ es[1] = RootEntry /\ es[n + 2] = Entry(KeyFile, [text |-> key])
      /\ \A i \in 1..n : es[i + 1] = Entry(shipped[i].file, shipped[i].tarball)
      /\ \A i, j \in 2..n + 2 : es[i].name = es[j].name => i = j
      /\ man.fields = "good" /\ man.archive = archive
      /\ Len(man.packages) = n /\ \A i \in 1..n : l(i) = Listing(shipped[i])
  BY DEF TransferInv, SentInv, Own
<1>4. \A i \in 1..n : /\ Inspects(packages[i].tarball)
                      /\ shipped[i] = Shipment(packages[i], HasPublishConfig(packages[i].tarball))
  <2>1. DOMAIN shipped = 1..n
    BY <1>1, <1>3
  <2>2. ShippedInv
    BY DEF TransferInv
  <2> QED
    BY ONLY <2>1, <2>2 DEF ShippedInv
<1>5. man.packages \in Seq(Listings) /\ DOMAIN man.packages = 1..n
  BY <1>1, <1>3, LimitsFact
<1>6. ASSUME NEW i \in 1..n
      PROVE  /\ FileAt(i) = shipped[i].file /\ FileAt(i) \in Files /\ l(i).shipped \in Stuff
             /\ l(i).shipped = shipped[i].tarball /\ l(i).pkg = packages[i].pkg
             /\ l(i).stripped \/ l(i).shipped = ParseIntegrity(l(i).integrity).of
             /\ Acceptable(l(i))
  <2> DEFINE d == packages[i]
             s == Shipment(d, HasPublishConfig(d.tarball))
  <2>1. d \in Downloadeds /\ Inspects(d.tarball) /\ shipped[i] = s
    BY <1>1, <1>4
  <2>2. /\ s \in Shipments /\ s.pkg = d.pkg /\ s.file = FileOf[d.pkg]
        /\ s.integrity = d.integrity
        /\ s.tarball = IF s.stripped THEN StripPublishConfig(d.tarball) ELSE d.tarball
    BY <2>1, ShipmentFact
  <2>3. l(i) = Listing(s) /\ l(i) \in Listings
    BY <1>3, <1>5, <2>1
  <2> HIDE DEF s
  <2>4. /\ l(i).pkg = s.pkg /\ l(i).file = s.file /\ l(i).integrity = s.integrity
        /\ l(i).shipped = s.tarball /\ l(i).stripped = s.stripped
    BY <2>2, <2>3, ListingFact
  <2>5. PICK a \in {"sha512", "sha1"} : d.integrity = <<[algo |-> a, of |-> d.tarball]>>
    BY <1>1, <1>2
  <2>6. /\ ParseIntegrity(d.integrity) = [algo |-> a, of |-> d.tarball]
        /\ ParseIntegrity(d.integrity) # Unusable
    BY <1>1, <1>2, <2>5, OwnIntegrity
  <2>7. l(i).file.plain
    BY <1>1, <2>2, <2>4 DEF Own
  <2>8. Acceptable(l(i))
    BY <2>2, <2>4, <2>6, <2>7 DEF Acceptable
  <2>9. l(i).file \in Files /\ l(i).shipped \in Stuff
    BY <2>3 DEF Listings
  <2>10. l(i).stripped \/ l(i).shipped = ParseIntegrity(l(i).integrity).of
    BY <2>2, <2>4, <2>6
  <2> QED
    BY <2>1, <2>2, <2>4, <2>8, <2>9, <2>10 DEF FileAt
<1>7. ASSUME NEW i \in 1..n, NEW j \in 1..n, l(i).file = l(j).file
      PROVE  i = j
  <2>1. i + 1 \in 2..n + 2 /\ j + 1 \in 2..n + 2
    BY <1>1
  <2>2. es[i + 1] = es[j + 1] \/ es[i + 1].name = es[j + 1].name
    <3>1. shipped[i].file = shipped[j].file
      BY <1>6, <1>7 DEF FileAt
    <3>2. ASSUME NEW k \in 1..n PROVE es[k + 1].name = Below(shipped[k].file)
      <4>1. shipped[k].file \in Files /\ shipped[k].tarball \in Stuff
        BY <1>6
      <4>2. es[k + 1] = Entry(shipped[k].file, shipped[k].tarball)
        BY <1>3
      <4> QED
        BY <4>1, <4>2, EntryFact
    <3> QED
      BY <3>1, <3>2
  <2>3. i + 1 = j + 1
    BY <1>3, <2>1, <2>2
  <2> QED
    BY <2>3
<1>8. ASSUME NEW i \in 1..n, NEW j \in 1..n, l(i).pkg = l(j).pkg
      PROVE  i = j
  BY <1>1, <1>2, <1>6, <1>8
<1>9. man.packages # <<>>
  BY <1>1, <1>3
<1>10. ManifestPasses(man)
  BY <1>3, <1>5, <1>6, <1>7, <1>8, <1>9 DEF ManifestPasses
<1>11. \A i \in 1..n : es[i + 1] = Entry(FileAt(i), l(i).shipped)
  BY <1>3, <1>6
<1> QED
  BY <1>1, <1>3, <1>6, <1>10, <1>11

LEMMA ParseManifestStep ==
  ASSUME TransferInv, ParseManifest
  PROVE  TransferInv'
<1>1. /\ phase = "parse" /\ UNCHANGED <<exportVars, roadVars, copied, results>>
      /\ IF ManifestPasses(man)
         THEN phase' = "scan" /\ scan' = [scan EXCEPT !.left = StreamBound(limits)] /\ UNCHANGED verdict
         ELSE phase' = "end" /\ verdict' = "refused" /\ UNCHANGED scan
  BY DEF ParseManifest
<1>2. UNCHANGED <<packages, shipped, stripped, archive, man, sent, key, expected, limits>>
  BY <1>1 DEF exportVars, roadVars
<1>3. /\ Written /\ verdict = "none" /\ results = <<>> /\ scan = NothingScanned /\ copied = <<>>
      /\ TransferTypeInv
  BY <1>1 DEF Written, TransferInv, PhaseInv
<1>4. Written'
  BY <1>1 DEF Written
<1>5. SelectionInv' /\ ShippedInv' /\ SentInv' /\ RoadInv'
  BY <1>1, <1>3, ImportSide
<1>6. ManifestPasses(man)' = ManifestPasses(man)
  BY <1>2
<1>7. /\ StreamBound(limits) \in Int /\ StreamBound(limits)' = StreamBound(limits)
  BY <1>2, <1>3, LimitsFact
<1>8. CASE ManifestPasses(man)
  <2>1. /\ phase' = "scan" /\ verdict' = "none" /\ results' = <<>> /\ copied' = <<>>
        /\ scan' = [n |-> 0, seen |-> {}, unpacked |-> 0, left |-> StreamBound(limits),
                    keySeen |-> FALSE, done |-> {}, error |-> "nil"]
    BY <1>1, <1>3, <1>8 DEF NothingScanned
  <2>2. scan' \in Scans
    BY <1>7, <2>1 DEF Scans
  <2>3. TransferTypeInv'
    BY <1>2, <1>3, <1>4, <2>1, <2>2 DEF TransferTypeInv
  <2>4. Scanned'
    <3>1. /\ Len(archive.entries) \in Nat /\ limits.entries \in Nat /\ limits.unpacked \in Nat
      BY <1>3, LimitsFact
    <3>2. BytesBefore(archive, 0) = {}
      BY DEF BytesBefore
    <3>3. Cardinality(BytesBefore(archive, 0)) = 0
      BY <3>2, FS_EmptySet
    <3>4. {archive.entries[j].name : j \in 1..0} = {}
      OBVIOUS
    <3> QED
      BY <1>2, <2>1, <3>1, <3>3, <3>4 DEF Scanned
  <2>5. ScanInv'
    BY <1>6, <1>8, <2>1, <2>4 DEF ScanInv
  <2>6. OwnInv'
    <3>1. ASSUME Own PROVE Len(archive.entries) # 0
      <4>1. Len(archive.entries) = Len(packages) + 2 /\ Len(packages) \in Nat
        BY <1>3, <3>1, OwnFact
      <4> QED
        BY <4>1
    <3>2. \A i \in DOMAIN packages : ~(i + 1 <= 0)
      BY <1>3 DEF TransferTypeInv
    <3>3. Own' = Own
      BY <1>1, OwnStays
    <3>4. /\ scan'.n = 0 /\ scan'.unpacked = 0
          /\ scan'.left = StreamBound(limits)' - scan'.n * PerEntry - scan'.unpacked
      BY <1>7, <2>1 DEF PerEntry
    <3> QED
      BY <1>2, <2>1, <3>1, <3>2, <3>3, <3>4 DEF OwnInv
  <2>7. PhaseInv' /\ VerdictInv' /\ ResultsInv'
    BY <2>1 DEF PhaseInv, VerdictInv, ResultsInv
  <2> QED
    BY <1>5, <2>3, <2>5, <2>6, <2>7 DEF TransferInv
<1>9. CASE ~ManifestPasses(man)
  <2>1. phase' = "end" /\ verdict' = "refused" /\ scan' = scan /\ results' = <<>> /\ copied' = <<>>
    BY <1>1, <1>3, <1>9
  <2>2. TransferTypeInv'
    BY <1>2, <1>3, <1>4, <2>1 DEF TransferTypeInv
  <2>3. ~Own'
    BY <1>1, <1>3, <1>9, OwnFact, OwnStays
  <2>4. PhaseInv' /\ ScanInv' /\ ResultsInv' /\ OwnInv'
    BY <2>1, <2>3 DEF PhaseInv, ScanInv, ResultsInv, OwnInv
  <2>5. VerdictInv'
    BY <1>6, <1>9, <2>1 DEF VerdictInv
  <2> QED
    BY <1>5, <2>2, <2>4, <2>5 DEF TransferInv
<1> QED
  BY <1>8, <1>9

-----------------------------------------------------------------------------
(* Content counted *)

LEMMA ContentFact ==
  ASSUME NEW e \in ArchiveEntries
  PROVE  /\ Content(e) \in Nat
         /\ e.type = "dir" => Content(e) = 0
         /\ e.type # "dir" => Content(e) = e.size
BY DEF Content, ArchiveEntries

LEMMA OneEntrysBytes ==
  ASSUME NEW i, NEW c \in Nat
  PROVE  IsFiniteSet({i} \X (1..c)) /\ Cardinality({i} \X (1..c)) = c
<1>1. IsFiniteSet({i}) /\ Cardinality({i}) = 1
  BY FS_Singleton
<1>2. IsFiniteSet(1..c) /\ Cardinality(1..c) = c
  <2>1. IsFiniteSet(1..c) /\ Cardinality(1..c) = IF 1 > c THEN 0 ELSE c - 1 + 1
    BY FS_Interval
  <2>2. (1 > c => c = 0) /\ c - 1 + 1 = c
    OBVIOUS
  <2> QED
    BY <2>1, <2>2
<1>3. /\ IsFiniteSet({i} \X (1..c))
      /\ Cardinality({i} \X (1..c)) = Cardinality({i}) * Cardinality(1..c)
  BY <1>1, <1>2, FS_Product
<1>4. 1 * c = c
  OBVIOUS
<1> QED
  BY <1>1, <1>2, <1>3, <1>4

LEMMA BytesFinite ==
  ASSUME NEW a, a.entries \in Seq(ArchiveEntries), NEW n \in Nat, n <= Len(a.entries)
  PROVE  IsFiniteSet(BytesBefore(a, n))
<1> DEFINE B(i) == {i} \X (1 .. Content(a.entries[i]))
           f == [i \in 1..n |-> B(i)]
           T == {B(i) : i \in 1..n}
<1>1. IsFiniteSet(1..n)
  BY FS_Interval
<1>2. f \in Surjection(1..n, T)
  BY DEF Surjection
<1>3. IsFiniteSet(T)
  BY <1>1, <1>2, FS_Surjection
<1>4. ASSUME NEW i \in 1..n PROVE IsFiniteSet(B(i))
  <2>1. a.entries[i] \in ArchiveEntries
    OBVIOUS
  <2> QED
    BY <2>1, ContentFact, OneEntrysBytes
<1>5. \A S \in T : IsFiniteSet(S)
  BY <1>4
<1>6. IsFiniteSet(UNION T)
  BY <1>3, <1>5, FS_UNION
<1> QED
  BY <1>6 DEF BytesBefore

\* One entry more adds its content.
LEMMA BytesStep ==
  ASSUME NEW a, a.entries \in Seq(ArchiveEntries), NEW n \in Nat, n < Len(a.entries)
  PROVE  Cardinality(BytesBefore(a, n + 1)) =
           Cardinality(BytesBefore(a, n)) + Content(a.entries[n + 1])
<1> DEFINE S == BytesBefore(a, n)
           T == {n + 1} \X (1 .. Content(a.entries[n + 1]))
<1>1. BytesBefore(a, n + 1) = S \cup T
  <2>1. 1..n + 1 = 1..n \cup {n + 1}
    OBVIOUS
  <2> QED
    BY <2>1, Zenon DEF BytesBefore
<1>2. S \cap T = {}
  BY DEF BytesBefore
<1>3. IsFiniteSet(S)
  BY BytesFinite
<1>4. a.entries[n + 1] \in ArchiveEntries
  OBVIOUS
<1>5. /\ Content(a.entries[n + 1]) \in Nat
      /\ IsFiniteSet(T) /\ Cardinality(T) = Content(a.entries[n + 1])
  BY <1>4, ContentFact, OneEntrysBytes
<1> HIDE DEF S, T
<1>6. Cardinality(S \cup T) = Cardinality(S) + Cardinality(T) - Cardinality(S \cap T)
  BY <1>3, <1>5, FS_Union
<1>7. Cardinality(S \cap T) = 0 /\ Cardinality(S) \in Nat
  BY <1>2, <1>3, FS_EmptySet, FS_CardinalityType
<1>8. \A x, y \in Nat : x + y - 0 = x + y
  OBVIOUS
<1>9. Cardinality(BytesBefore(a, n + 1)) = Cardinality(S) + Content(a.entries[n + 1])
  BY <1>1, <1>5, <1>6, <1>7, <1>8
<1> QED
  BY <1>9 DEF S

LEMMA BytesTotal ==
  ASSUME NEW a, a.entries \in Seq(ArchiveEntries), NEW n \in Nat, n <= Len(a.entries)
  PROVE  /\ BytesBefore(a, Len(a.entries)) = BytesOf(a) /\ Total(a) \in Nat
         /\ Cardinality(BytesBefore(a, n)) \in Nat
         /\ Cardinality(BytesBefore(a, n)) <= Total(a)
<1>1. DOMAIN a.entries = 1..Len(a.entries) /\ Len(a.entries) \in Nat
  OBVIOUS
<1>2. BytesBefore(a, Len(a.entries)) = BytesOf(a)
  BY <1>1, Zenon DEF BytesBefore, BytesOf
<1>3. IsFiniteSet(BytesOf(a)) /\ IsFiniteSet(BytesBefore(a, n))
  BY <1>1, <1>2, BytesFinite
<1>4. BytesBefore(a, n) \subseteq BytesOf(a)
  BY <1>1 DEF BytesBefore, BytesOf
<1> QED
  BY <1>2, <1>3, <1>4, FS_Subset, FS_CardinalityType DEF Total

-----------------------------------------------------------------------------
(* The scan *)

\* The stream's bound leaves room for the export's own archive.
LEMMA OwnBound ==
  ASSUME TransferInv, Written, Own
  PROVE  StreamBound(limits) >= Len(archive.entries) + Total(archive) + 1
<1>1. /\ limits.entries \in Nat /\ limits.unpacked \in Nat /\ MaxInt \in Nat
      /\ archive.entries \in Seq(ArchiveEntries) /\ Len(archive.entries) \in Nat
  BY LimitsFact
<1>2. Total(archive) \in Nat
  BY <1>1, BytesTotal
<1>3. /\ Len(archive.entries) <= limits.entries /\ Total(archive) <= limits.unpacked
      /\ Len(archive.entries) * 1 + Total(archive) + 1 <= MaxInt
  BY DEF Own, PerEntry, TarEnd
<1>4. \/ StreamBound(limits) = MaxInt
      \/ StreamBound(limits) = limits.unpacked + (limits.entries * 1 + 1)
  BY DEF StreamBound, PerEntry, TarEnd
<1> QED
  BY <1>1, <1>2, <1>3, <1>4

\* What a turn of the scan starts from.
LEMMA ScanStart ==
  ASSUME TransferInv, phase = "scan"
  PROVE  /\ Written /\ verdict = "none" /\ results = <<>> /\ scan.error = "nil"
         /\ ManifestPasses(man) /\ Scanned /\ scan \in Scans
         /\ scan.n \in Nat /\ scan.unpacked \in Nat /\ scan.left \in Int
         /\ scan.keySeen \in BOOLEAN /\ scan.done \in SUBSET Nat /\ scan.seen \in SUBSET EntryNames
         /\ scan.unpacked = Cardinality(BytesBefore(archive, scan.n))
         /\ copied \in [DOMAIN copied -> Stuff]
<1>1. PhaseInv /\ ScanInv /\ TransferTypeInv
  BY DEF TransferInv
<1>2. Written /\ verdict = "none" /\ results = <<>>
  BY <1>1 DEF PhaseInv, Written
<1>3. scan.error = "nil" /\ ManifestPasses(man) /\ Scanned
  BY <1>1 DEF ScanInv
<1>4. scan \in Scans /\ copied \in [DOMAIN copied -> Stuff]
  BY <1>1 DEF TransferTypeInv
<1>5. /\ scan.n \in Nat /\ scan.unpacked \in Nat /\ scan.left \in Int
      /\ scan.keySeen \in BOOLEAN /\ scan.done \in SUBSET Nat /\ scan.seen \in SUBSET EntryNames
  BY <1>4 DEF Scans
<1>6. scan.unpacked = Cardinality(BytesBefore(archive, scan.n))
  BY <1>3 DEF Scanned
<1> QED
  BY <1>2, <1>3, <1>4, <1>5, <1>6

\* A scan that ends with an error, not one the export's own archive meets.
LEMMA ScanFails ==
  ASSUME TransferInv, phase = "scan", UNCHANGED <<exportVars, roadVars, verdict, results>>,
         NEW er \in {"refused", "local"}, Fails(er), Own => er = "local",
         copied' \in [DOMAIN copied' -> Stuff]
  PROVE  TransferInv'
<1>1. /\ phase' = "verdict" /\ scan' = [scan EXCEPT !.error = er]
      /\ UNCHANGED <<packages, shipped, stripped, archive, man, sent, key, expected, limits,
                     verdict, results>>
  BY DEF Fails, exportVars, roadVars
<1>2. /\ Written /\ verdict = "none" /\ results = <<>> /\ ManifestPasses(man) /\ scan \in Scans
      /\ TransferTypeInv
  BY ScanStart DEF TransferInv
<1>3. scan' \in Scans /\ scan'.error = er
  BY <1>1, <1>2 DEF Scans
<1>4. Written' /\ ManifestPasses(man)'
  BY <1>1, <1>2 DEF Written
<1>5. SelectionInv' /\ ShippedInv' /\ SentInv' /\ RoadInv'
  BY <1>1, <1>2, ImportSide
<1>6. TransferTypeInv'
  BY <1>1, <1>2, <1>3, <1>4 DEF TransferTypeInv
<1>7. PhaseInv' /\ VerdictInv' /\ ResultsInv'
  BY <1>1, <1>2 DEF PhaseInv, VerdictInv, ResultsInv
<1>8. ScanInv'
  BY <1>1, <1>3, <1>4 DEF ScanInv
<1>9. OwnInv'
  <2>1. Own' => Own
    BY OwnStays
  <2> QED
    BY <1>1, <1>2, <1>3, <2>1 DEF OwnInv
<1> QED
  BY <1>5, <1>6, <1>7, <1>8, <1>9 DEF TransferInv

\* An entry the scan goes on after: a directory, the key, or a listed package.
GoodEntry(e, I) ==
  \/ e.type = "dir" /\ I = {} /\ copied' = copied
  \/ /\ e.type # "dir" /\ e.name = Below(KeyFile) /\ e.body = [text |-> key]
     /\ I = {} /\ copied' = copied
  \/ /\ e.type # "dir" /\ e.name # Below(KeyFile) /\ e.name.file \notin DOMAIN copied
     /\ copied' = With(copied, e.name.file, e.body)
     /\ \E i \in ListedAs(e) : I = {i} /\ Matches(e, man.packages[i])

\* What one such entry more adds to what was scanned.
LEMMA ScanPasses ==
  ASSUME TransferInv, phase = "scan", scan.n < Len(archive.entries),
         UNCHANGED <<exportVars, roadVars, verdict, results>>,
         NEW I \in SUBSET DOMAIN man.packages, NEW e, e = archive.entries[scan.n + 1],
         Admitted(e), Passes(e, I),
         GoodEntry(e, I)
  PROVE  Scanned'
<1> DEFINE n == scan.n
           es == archive.entries
           N1 == n + 1
<1>0. \/ e.type = "dir" /\ I = {} /\ copied' = copied
      \/ /\ e.type # "dir" /\ e.name = Below(KeyFile) /\ e.body = [text |-> key]
         /\ I = {} /\ copied' = copied
      \/ /\ e.type # "dir" /\ e.name # Below(KeyFile) /\ e.name.file \notin DOMAIN copied
         /\ copied' = With(copied, e.name.file, e.body)
         /\ \E i \in ListedAs(e) : I = {i} /\ Matches(e, man.packages[i])
  BY DEF GoodEntry
<1>1. /\ phase' = phase
      /\ scan' = [scan EXCEPT !.n = @ + 1, !.seen = @ \cup {e.name}, !.left = @ - Inflated(e),
                              !.unpacked = @ + Content(e), !.done = @ \cup I,
                              !.keySeen = @ \/ e.name = Below(KeyFile)]
      /\ UNCHANGED <<packages, shipped, stripped, archive, man, sent, key, expected, limits,
                     verdict, results>>
  BY DEF Passes, exportVars, roadVars
<1>2. /\ Written /\ Scanned /\ scan \in Scans
      /\ n \in Nat /\ scan.unpacked \in Nat /\ scan.left \in Int
      /\ scan.keySeen \in BOOLEAN /\ scan.done \in SUBSET Nat
      /\ copied \in [DOMAIN copied -> Stuff]
      /\ scan.unpacked = Cardinality(BytesBefore(archive, n))
  BY ScanStart
<1>3. /\ scan'.n = N1 /\ scan'.seen = scan.seen \cup {e.name}
      /\ scan'.unpacked = scan.unpacked + Content(e)
      /\ scan'.done = scan.done \cup I
      /\ scan'.keySeen = (scan.keySeen \/ e.name = Below(KeyFile))
  BY <1>1, <1>2 DEF Scans
<1>4. /\ limits.entries \in Nat /\ limits.unpacked \in Nat
      /\ es \in Seq(ArchiveEntries) /\ Len(es) \in Nat
      /\ DOMAIN man.packages = 1..Len(man.packages)
  BY <1>2, LimitsFact
<1>5. e \in ArchiveEntries /\ es[N1] = e
  BY <1>2, <1>4
<1>6. /\ Content(e) \in Nat /\ (e.type = "dir" => Content(e) = 0)
      /\ (e.type # "dir" => Content(e) = e.size)
  BY <1>5, ContentFact
<1>7. /\ n < limits.entries /\ e.name \notin scan.seen
      /\ (IF e.name = Root THEN e.type = "dir" ELSE e.type \in {"reg", "sparse"})
      /\ (e.type # "dir" => e.size <= limits.unpacked - scan.unpacked)
  BY DEF Admitted, NameAccepted
<1>8. KeyFile \in Files /\ Below(KeyFile) # Root
  BY BelowFact DEF Files
<1>9. /\ n <= Len(es) /\ scan.seen = {es[j].name : j \in 1..n}
      /\ \A j, k \in 1..n : es[j].name = es[k].name => j = k
      /\ scan.unpacked <= limits.unpacked
      /\ \A j \in 1..n :
           /\ es[j].name = Root <=> es[j].type = "dir"
           /\ es[j].name = Below(KeyFile) => es[j].body = [text |-> key]
           /\ IsFileEntry(j) /\ es[j].name # Below(KeyFile) =>
                \E i \in scan.done : es[j].name = Below(FileAt(i))
      /\ scan.done \subseteq DOMAIN man.packages
      /\ \A i \in scan.done :
           LET l == man.packages[i]
           IN /\ \E j \in 1..n : es[j].name = Below(l.file) /\ IsFileEntry(j)
              /\ l.file \in DOMAIN copied /\ copied[l.file] = l.shipped
              /\ l.stripped \/ l.shipped = ParseIntegrity(l.integrity).of
      /\ DOMAIN copied = {FileAt(i) : i \in scan.done}
      /\ scan.keySeen => \E j \in 1..n : es[j].name = Below(KeyFile)
  BY <1>2 DEF Scanned
<1>10. /\ N1 \in Nat /\ N1 <= Len(es) /\ N1 <= limits.entries
       /\ 1..N1 = 1..n \cup {N1}
  BY <1>2, <1>4, <1>7
<1>11. scan'.seen = {es[j].name : j \in 1..N1}
  BY <1>3, <1>5, <1>9, <1>10
<1>12. \A j, k \in 1..N1 : es[j].name = es[k].name => j = k
  BY <1>5, <1>7, <1>9, <1>10
<1>13. scan'.unpacked = Cardinality(BytesBefore(archive, N1)) /\ scan'.unpacked <= limits.unpacked
  <2>1. Cardinality(BytesBefore(archive, N1)) = Cardinality(BytesBefore(archive, n)) + Content(e)
    BY <1>2, <1>4, <1>5, BytesStep
  <2>2. scan.unpacked + Content(e) <= limits.unpacked
    BY <1>2, <1>4, <1>6, <1>7, <1>9
  <2> QED
    BY <1>2, <1>3, <2>1, <2>2
<1>14. \A j \in 1..N1 :
         /\ es[j].name = Root <=> es[j].type = "dir"
         /\ es[j].name = Below(KeyFile) => es[j].body = [text |-> key]
  <2>1. e.name = Root <=> e.type = "dir"
    BY <1>7
  <2>2. e.name = Below(KeyFile) => e.body = [text |-> key]
    BY <1>0, <1>8, <2>1
  <2> QED
    BY <1>5, <1>9, <1>10, <2>1, <2>2
<1>15. \A i \in ListedAs(e) : e.name = Below(FileAt(i)) /\ e.name.file = FileAt(i)
  BY DEF ListedAs, FileAt, Below
<1>16. ASSUME NEW j \in 1..N1, IsFileEntry(j), es[j].name # Below(KeyFile)
       PROVE  \E i \in scan'.done : es[j].name = Below(FileAt(i))
  <2>1. CASE j \in 1..n
    BY <1>3, <1>9, <1>16, <2>1
  <2>2. CASE j = N1
    BY <1>0, <1>3, <1>5, <1>15, <1>16, <2>2 DEF IsFileEntry
  <2> QED
    BY <1>10, <2>1, <2>2
<1>17. scan'.done \subseteq DOMAIN man.packages
  BY <1>0, <1>3, <1>9
<1>18. ASSUME NEW i \in scan'.done
       PROVE  LET l == man.packages[i]
              IN /\ \E j \in 1..N1 : es[j].name = Below(l.file) /\ IsFileEntry(j)
                 /\ l.file \in DOMAIN copied' /\ copied'[l.file] = l.shipped
                 /\ l.stripped \/ l.shipped = ParseIntegrity(l.integrity).of
  <2> DEFINE l == man.packages[i]
  <2>1. CASE i \in scan.done
    <3>1. /\ \E j \in 1..n : es[j].name = Below(l.file) /\ IsFileEntry(j)
          /\ l.file \in DOMAIN copied /\ copied[l.file] = l.shipped
          /\ l.stripped \/ l.shipped = ParseIntegrity(l.integrity).of
      BY <1>9, <2>1
    <3>2. \E j \in 1..N1 : es[j].name = Below(l.file) /\ IsFileEntry(j)
      BY <1>10, <3>1
    <3>3. l.file \in DOMAIN copied' /\ copied'[l.file] = copied[l.file]
      BY <1>0, <3>1 DEF With
    <3> QED
      BY <3>1, <3>2, <3>3
  <2>2. CASE i \notin scan.done
    <3>1. /\ i \in ListedAs(e) /\ Matches(e, l) /\ e.type # "dir"
          /\ copied' = With(copied, e.name.file, e.body)
      BY <1>0, <1>3, <2>2
    <3>2. e.name = Below(l.file) /\ e.name.file = l.file
      BY <1>15, <3>1 DEF FileAt
    <3>3. e.body = l.shipped /\ (l.stripped \/ l.shipped = ParseIntegrity(l.integrity).of)
      BY <3>1 DEF Matches
    <3>4. es[N1].name = Below(l.file) /\ IsFileEntry(N1)
      BY <1>5, <3>1, <3>2 DEF IsFileEntry
    <3>5. \E j \in 1..N1 : es[j].name = Below(l.file) /\ IsFileEntry(j)
      BY <1>10, <3>4
    <3>6. l.file \in DOMAIN copied' /\ copied'[l.file] = l.shipped
      BY <3>1, <3>2, <3>3 DEF With
    <3> QED
      BY <3>3, <3>5, <3>6
  <2> QED
    BY <2>1, <2>2
<1>19. DOMAIN copied' = {FileAt(i) : i \in scan'.done}
  <2>1. CASE I = {} /\ copied' = copied
    BY <1>3, <1>9, <2>1
  <2>2. CASE \E i \in ListedAs(e) : I = {i} /\ copied' = With(copied, e.name.file, e.body)
    <3>1. PICK i \in ListedAs(e) : I = {i} /\ copied' = With(copied, e.name.file, e.body)
      BY <2>2
    <3>2. e.name.file = FileAt(i)
      BY <1>15
    <3>3. DOMAIN copied' = DOMAIN copied \cup {FileAt(i)}
      BY <3>1, <3>2 DEF With
    <3>4. DOMAIN copied = {FileAt(j) : j \in scan.done}
      BY <1>9
    <3>5. scan'.done = scan.done \cup {i}
      BY <1>3, <3>1
    <3> QED
      BY ONLY <3>3, <3>4, <3>5
  <2> QED
    BY <1>0, <2>1, <2>2
<1>20. scan'.keySeen => \E j \in 1..N1 : es[j].name = Below(KeyFile)
  <2>1. CASE scan.keySeen
    BY <1>9, <1>10, <2>1
  <2>2. CASE e.name = Below(KeyFile)
    BY <1>5, <1>10, <2>2
  <2> QED
    BY <1>3, <2>1, <2>2
<1>21. scan'.n = N1 /\ archive' = archive /\ man' = man /\ limits' = limits /\ key' = key
  BY <1>1, <1>3
<1> HIDE DEF N1
<1>22. /\ scan'.n <= Len(archive'.entries) /\ scan'.n <= limits'.entries
       /\ scan'.seen = {archive'.entries[j].name : j \in 1..scan'.n}
       /\ \A j, k \in 1..scan'.n : archive'.entries[j].name = archive'.entries[k].name => j = k
       /\ scan'.unpacked = Cardinality(BytesBefore(archive', scan'.n))
       /\ scan'.unpacked <= limits'.unpacked
  BY <1>10, <1>11, <1>12, <1>13, <1>21
<1>23. \A j \in 1..scan'.n :
         /\ archive'.entries[j].name = Root <=> archive'.entries[j].type = "dir"
         /\ archive'.entries[j].name = Below(KeyFile) => archive'.entries[j].body = [text |-> key']
         /\ IsFileEntry(j)' /\ archive'.entries[j].name # Below(KeyFile) =>
              \E i \in scan'.done : archive'.entries[j].name = Below(man'.packages[i].file)
  BY <1>14, <1>16, <1>21 DEF IsFileEntry, FileAt
<1>24. /\ scan'.done \subseteq DOMAIN man'.packages
       /\ DOMAIN copied' = {man'.packages[i].file : i \in scan'.done}
       /\ scan'.keySeen => \E j \in 1..scan'.n : archive'.entries[j].name = Below(KeyFile)
  BY <1>17, <1>19, <1>20, <1>21 DEF FileAt
<1>25. \A i \in scan'.done :
         LET l == man'.packages[i]
         IN /\ \E j \in 1..scan'.n : archive'.entries[j].name = Below(l.file) /\ IsFileEntry(j)'
            /\ l.file \in DOMAIN copied' /\ copied'[l.file] = l.shipped
            /\ l.stripped \/ l.shipped = ParseIntegrity(l.integrity).of
  BY <1>18, <1>21 DEF IsFileEntry
<1> QED
  BY <1>22, <1>23, <1>24, <1>25 DEF Scanned, FileAt

LEMMA ScanGoesOn ==
  ASSUME TransferInv, phase = "scan", scan.n < Len(archive.entries),
         UNCHANGED <<exportVars, roadVars, verdict, results>>,
         NEW I \in SUBSET DOMAIN man.packages, NEW e, e = archive.entries[scan.n + 1],
         Admitted(e), Passes(e, I), GoodEntry(e, I),
         Own => /\ e.headers = 0
                /\ \A i \in DOMAIN packages : i + 1 = scan.n + 1 => i \in I
                /\ scan.n + 1 = Len(archive.entries) => e.name = Below(KeyFile)
  PROVE  TransferInv'
<1>1. /\ phase' = phase
      /\ scan' = [scan EXCEPT !.n = @ + 1, !.seen = @ \cup {e.name}, !.left = @ - Inflated(e),
                              !.unpacked = @ + Content(e), !.done = @ \cup I,
                              !.keySeen = @ \/ e.name = Below(KeyFile)]
      /\ UNCHANGED <<packages, shipped, stripped, archive, man, sent, key, expected, limits,
                     verdict, results>>
  BY DEF Passes, exportVars, roadVars
<1>2. /\ Written /\ verdict = "none" /\ results = <<>> /\ ManifestPasses(man) /\ scan \in Scans
      /\ scan.error = "nil" /\ TransferTypeInv
      /\ scan.n \in Nat /\ scan.unpacked \in Nat /\ scan.left \in Int
      /\ scan.keySeen \in BOOLEAN /\ scan.done \in SUBSET Nat /\ scan.seen \in SUBSET EntryNames
  BY ScanStart DEF TransferInv
<1>3. Written'
  BY <1>1, <1>2 DEF Written
<1>4. /\ archive.entries \in Seq(ArchiveEntries) /\ DOMAIN man.packages \subseteq Nat
      /\ StreamBound(limits) \in Int /\ e \in ArchiveEntries
  BY <1>2, LimitsFact
<1>5. /\ Content(e) \in Nat /\ e.name \in EntryNames /\ e.headers \in Nat /\ e.body \in Stuff
  BY <1>4, ContentFact DEF ArchiveEntries
<1>6. Inflated(e) = e.headers + 1 + Content(e) /\ Inflated(e) \in Int
  BY <1>5 DEF Inflated, PerEntry
<1>7. /\ scan'.n = scan.n + 1 /\ scan'.unpacked = scan.unpacked + Content(e)
      /\ scan'.left = scan.left - Inflated(e) /\ scan'.done = scan.done \cup I
      /\ scan'.keySeen = (scan.keySeen \/ e.name = Below(KeyFile))
      /\ scan'.error = "nil"
  BY <1>1, <1>2 DEF Scans
<1>8. scan' \in Scans
  <2>1. scan.n + 1 \in Nat /\ scan.unpacked + Content(e) \in Nat
    BY <1>2, <1>5
  <2>2. scan.left - Inflated(e) \in Int
    BY <1>2, <1>6
  <2>3. scan.seen \cup {e.name} \in SUBSET EntryNames
    BY <1>2, <1>5
  <2>4. (scan.keySeen \/ e.name = Below(KeyFile)) \in BOOLEAN
    BY <1>2
  <2>5. scan.done \cup I \in SUBSET Nat
    BY <1>2, <1>4
  <2> QED
    BY <1>1, <1>2, <2>1, <2>2, <2>3, <2>4, <2>5 DEF Scans
<1>9. copied' \in [DOMAIN copied' -> Stuff]
  <2>1. copied \in [DOMAIN copied -> Stuff]
    BY <1>2 DEF TransferTypeInv
  <2>2. copied' = copied \/ copied' = With(copied, e.name.file, e.body)
    BY DEF GoodEntry
  <2>3. With(copied, e.name.file, e.body)
          \in [DOMAIN With(copied, e.name.file, e.body) -> Stuff]
    BY <1>5, <2>1 DEF With
  <2> QED
    BY <2>1, <2>2, <2>3
<1>10. TransferTypeInv'
  BY <1>1, <1>2, <1>3, <1>8, <1>9 DEF TransferTypeInv
<1>11. SelectionInv' /\ ShippedInv' /\ SentInv' /\ RoadInv'
  BY <1>1, <1>2, ImportSide
<1>12. PhaseInv' /\ VerdictInv' /\ ResultsInv'
  BY <1>1, <1>2 DEF PhaseInv, VerdictInv, ResultsInv
<1>13. ScanInv'
  <2>1. Scanned'
    BY ScanPasses
  <2>2. ManifestPasses(man)'
    BY <1>1, <1>2
  <2> QED
    BY <1>1, <1>7, <2>1, <2>2 DEF ScanInv
<1>14. OwnInv'
  <2> SUFFICES ASSUME Own'
               PROVE  /\ scan'.left = StreamBound(limits)' - scan'.n * PerEntry - scan'.unpacked
                      /\ \A i \in DOMAIN packages' : i + 1 <= scan'.n => i \in scan'.done
                      /\ scan'.n = Len(archive.entries)' => scan'.keySeen
    BY <1>1, <1>2 DEF OwnInv
  <2>1. Own
    BY OwnStays
  <2>2. /\ scan.left = StreamBound(limits) - scan.n * PerEntry - scan.unpacked
        /\ \A i \in DOMAIN packages : i + 1 <= scan.n => i \in scan.done
    BY <1>2, <2>1 DEF TransferInv, OwnInv
  <2>3. /\ e.headers = 0
        /\ \A i \in DOMAIN packages : i + 1 = scan.n + 1 => i \in I
        /\ scan.n + 1 = Len(archive.entries) => e.name = Below(KeyFile)
    BY <2>1
  <2>4. scan'.left = StreamBound(limits) - scan'.n * 1 - scan'.unpacked
    <3>1. \A b, n, u, c \in Int : (b - n * 1 - u) - (0 + 1 + c) = b - (n + 1) * 1 - (u + c)
      OBVIOUS
    <3>2. scan.left = StreamBound(limits) - scan.n * 1 - scan.unpacked
      BY <2>2 DEF PerEntry
    <3>3. scan'.left = scan.left - (0 + 1 + Content(e))
      BY <1>6, <1>7, <2>3
    <3>4. /\ StreamBound(limits) \in Int /\ scan.n \in Int /\ scan.unpacked \in Int
          /\ Content(e) \in Int
      BY <1>2, <1>4, <1>5
    <3> QED
      BY ONLY <1>7, <3>1, <3>2, <3>3, <3>4
  <2>5. \A i \in DOMAIN packages : i \in Nat
    BY <1>2 DEF TransferTypeInv
  <2>6. \A i \in DOMAIN packages : i + 1 <= scan.n + 1 => i \in scan.done \cup I
    BY <1>2, <2>2, <2>3, <2>5
  <2>7. StreamBound(limits)' = StreamBound(limits)
    BY <1>1
  <2> QED
    BY <1>1, <1>7, <2>3, <2>4, <2>6, <2>7 DEF PerEntry
<1> QED
  BY <1>10, <1>11, <1>12, <1>13, <1>14 DEF TransferInv

\* The export's own archive: each entry is admitted, found and right.
LEMMA OwnEntry ==
  ASSUME TransferInv, phase = "scan", scan.n < Len(archive.entries), Own,
         NEW e, e = archive.entries[scan.n + 1]
  PROVE  /\ Admitted(e) /\ e.headers = 0
         /\ \/ scan.n = 0 /\ e.type = "dir"
            \/ /\ scan.n + 1 = Len(packages) + 2 /\ e.type = "reg" /\ Readable(e)
               /\ e.name = Below(KeyFile) /\ e.body = [text |-> key]
            \/ /\ e.type = "reg" /\ Readable(e) /\ e.name # Below(KeyFile)
               /\ scan.n \in 1..Len(packages)
               /\ ListedAs(e) = {scan.n} /\ Matches(e, man.packages[scan.n])
<1> DEFINE n == Len(packages)
           es == archive.entries
           j == scan.n + 1
<1>1. /\ Written /\ Scanned /\ ManifestPasses(man)
      /\ scan.n \in Nat /\ scan.unpacked \in Nat /\ scan.left \in Int
      /\ scan.unpacked = Cardinality(BytesBefore(archive, scan.n))
      /\ scan.seen = {es[k].name : k \in 1..scan.n}
  BY ScanStart DEF Scanned
<1>2. /\ limits.entries \in Nat /\ limits.unpacked \in Nat /\ Len(es) \in Nat
      /\ es \in Seq(ArchiveEntries) /\ StreamBound(limits) \in Int
      /\ DOMAIN man.packages = 1..Len(man.packages)
  BY <1>1, LimitsFact
<1>3. /\ n \in Nat \ {0} /\ Len(es) = n + 2 /\ Len(man.packages) = n
      /\ es[1] = RootEntry /\ es[n + 2] = Entry(KeyFile, [text |-> key])
      /\ \A i \in 1..n :
           /\ es[i + 1] = Entry(FileAt(i), man.packages[i].shipped)
           /\ FileAt(i) \in Files /\ man.packages[i].shipped \in Stuff
           /\ \/ man.packages[i].stripped
              \/ man.packages[i].shipped = ParseIntegrity(man.packages[i].integrity).of
      /\ \A i, k \in 2..n + 2 : es[i].name = es[k].name => i = k
  BY <1>1, OwnFact
<1>4. j \in 1..n + 2 /\ es[j] = e /\ e \in ArchiveEntries
  BY <1>1, <1>2, <1>3
<1>5. [text |-> key] \in Stuff /\ KeyFile \in Files
  BY WeightFact DEF TransferInv, TransferTypeInv, Files
<1>6. \A k \in 2..n + 2 : \E f \in Files : es[k].name = Below(f)
  <2> SUFFICES ASSUME NEW k \in 2..n + 2 PROVE \E f \in Files : es[k].name = Below(f)
    OBVIOUS
  <2>1. CASE k = n + 2
    BY <1>3, <1>5, <2>1, EntryFact
  <2>2. CASE k # n + 2
    <3>1. k - 1 \in 1..n /\ (k - 1) + 1 = k
      BY <1>3, <2>2
    <3>2. es[k] = Entry(FileAt(k - 1), man.packages[k - 1].shipped)
      BY <1>3, <3>1
    <3>3. FileAt(k - 1) \in Files /\ man.packages[k - 1].shipped \in Stuff
      BY <1>3, <3>1
    <3>4. es[k].name = Below(FileAt(k - 1))
      BY <3>2, <3>3, EntryFact
    <3> QED
      BY <3>3, <3>4
  <2> QED
    BY <2>1, <2>2
<1>7. e.name \notin scan.seen
  <2> SUFFICES ASSUME NEW k \in 1..scan.n, es[k].name = es[j].name PROVE FALSE
    BY <1>1, <1>4
  <2>1. j \in 2..n + 2 /\ k \in 1..n + 2 /\ k # j
    BY <1>1, <1>3, <1>4
  <2>2. CASE k = 1
    <3>1. es[k].name = Root
      <4>1. RootEntry.name = Root
        BY DEF RootEntry
      <4> QED
        BY <1>3, <2>2, <4>1
    <3>2. PICK f \in Files : es[j].name = Below(f)
      BY <1>6, <2>1
    <3> QED
      BY <3>1, <3>2, BelowFact
  <2>3. CASE k # 1
    BY <1>3, <2>1, <2>3
  <2> QED
    BY <2>2, <2>3
<1>8. /\ scan.unpacked + Content(e) <= Total(archive) /\ Total(archive) \in Nat
      /\ Content(e) \in Nat
  <2>1. Cardinality(BytesBefore(archive, j)) = scan.unpacked + Content(e)
    BY <1>1, <1>2, <1>4, BytesStep
  <2>2. Cardinality(BytesBefore(archive, j)) <= Total(archive) /\ Total(archive) \in Nat
    BY <1>2, <1>3, <1>4, BytesTotal
  <2> QED
    BY <1>4, <2>1, <2>2, ContentFact
<1>9. /\ Len(es) <= limits.entries /\ Total(archive) <= limits.unpacked
  BY DEF Own
<1>10. scan.left >= 1 + Content(e)
  <2>1. scan.left = StreamBound(limits) - scan.n * PerEntry - scan.unpacked
    BY <1>1 DEF TransferInv, OwnInv
  <2>2. StreamBound(limits) >= Len(es) + Total(archive) + 1
    BY <1>1, OwnBound
  <2> QED
    <3>1. scan.n + 1 <= Len(es) /\ scan.n * PerEntry = scan.n
      BY <1>1, <1>3, <1>4 DEF PerEntry
    <3>2. StreamBound(limits) \in Int /\ scan.unpacked \in Nat /\ scan.n \in Nat /\ Len(es) \in Nat
      BY <1>1, <1>2
    <3> HIDE DEF n, es, j
    <3> QED
      BY <1>8, <2>1, <2>2, <3>1, <3>2
<1>11. CASE scan.n = 0
  <2>1. e = RootEntry
    BY <1>3, <1>4, <1>11
  <2>2. e.type = "dir" /\ e.name = Root /\ e.headers = 0 /\ e.name.at = "out"
    <3>1. RootEntry.type = "dir" /\ RootEntry.name = Root /\ RootEntry.headers = 0
      BY DEF RootEntry
    <3>2. Root.at = "out"
      BY DEF Root
    <3> QED
      BY <2>1, <3>1, <3>2
  <2>3. Admitted(e)
    <3>1. NameAccepted(e)
      BY <1>7, <2>2 DEF NameAccepted
    <3>2. e.headers + PerEntry <= scan.left
      BY <1>1, <1>8, <1>10, <2>2 DEF PerEntry
    <3>3. scan.n < limits.entries
      BY <1>2, <1>3, <1>9, <1>11
    <3> QED
      BY <2>2, <3>1, <3>2, <3>3 DEF Admitted
  <2> QED
    BY <1>11, <2>2, <2>3
<1>12. ASSUME NEW f \in Files, NEW b \in Stuff, e = Entry(f, b)
       PROVE  /\ Admitted(e) /\ Readable(e) /\ e.headers = 0 /\ e.type = "reg"
              /\ e.name = Below(f) /\ e.body = b
  <2>1. /\ e.name = Below(f) /\ e.body = b /\ e.type = "reg" /\ e.headers = 0
        /\ e.size = Weight(b)
    BY <1>12, EntryFact
  <2>2. e.name.at = "out" /\ e.name # Root /\ Content(e) = e.size
    BY <2>1, BelowFact DEF Below, Content
  <2>3. Inflated(e) = 0 + 1 + Content(e)
    BY <2>1 DEF Inflated, PerEntry
  <2>4. Readable(e)
    BY <1>1, <1>8, <1>10, <2>1, <2>3 DEF Readable
  <2>5. e.size <= limits.unpacked - scan.unpacked
    BY <1>1, <1>2, <1>8, <1>9, <2>2
  <2>6. scan.n < limits.entries /\ 0 + 1 <= scan.left
    BY <1>1, <1>2, <1>8, <1>9, <1>10
  <2>7. Admitted(e)
    BY <1>7, <2>1, <2>2, <2>5, <2>6 DEF Admitted, NameAccepted, PerEntry
  <2> QED
    BY <2>1, <2>4, <2>7
<1>13. CASE scan.n = n + 1
  <2>1. e = Entry(KeyFile, [text |-> key]) /\ scan.n + 1 = n + 2
    BY <1>3, <1>4, <1>13
  <2> QED
    BY <1>5, <1>12, <2>1
<1>14. CASE scan.n \in 1..n
  <2> DEFINE i == scan.n
             l == man.packages[i]
  <2>1. e = Entry(FileAt(i), l.shipped) /\ FileAt(i) \in Files /\ l.shipped \in Stuff
    BY <1>3, <1>4, <1>14
  <2>2. /\ Admitted(e) /\ Readable(e) /\ e.headers = 0 /\ e.type = "reg"
        /\ e.name = Below(FileAt(i)) /\ e.body = l.shipped
    BY <1>12, <2>1
  <2>3. e.name # Below(KeyFile)
    <3>1. es[n + 2].name = Below(KeyFile)
      BY <1>3, <1>5, EntryFact
    <3>2. i + 1 \in 2..n + 2 /\ n + 2 \in 2..n + 2 /\ i + 1 # n + 2
      BY <1>3, <1>14
    <3> QED
      BY <1>3, <1>4, <3>1, <3>2
  <2>4. ListedAs(e) = {i}
    <3>1. i \in ListedAs(e)
      BY <1>2, <1>3, <1>14, <2>2 DEF ListedAs, FileAt
    <3>2. \A k \in ListedAs(e) : k = i
      <4> SUFFICES ASSUME NEW k \in ListedAs(e) PROVE k = i
        OBVIOUS
      <4>1. man.packages[k].file = man.packages[i].file /\ k \in DOMAIN man.packages
        BY <2>2, BelowFact DEF ListedAs, FileAt
      <4>2. i \in DOMAIN man.packages
        BY <1>2, <1>3, <1>14
      <4> QED
        BY <1>1, <4>1, <4>2 DEF ManifestPasses
    <3> QED
      BY <3>1, <3>2
  <2>5. Matches(e, l)
    BY <1>3, <1>14, <2>2 DEF Matches
  <2> QED
    BY <1>14, <2>2, <2>3, <2>4, <2>5
<1> QED
  BY <1>1, <1>3, <1>4, <1>11, <1>13, <1>14

LEMMA ScanEntryStep ==
  ASSUME TransferInv, ScanEntry
  PROVE  TransferInv'
<1> DEFINE e == archive.entries[scan.n + 1]
<1>1. /\ phase = "scan" /\ scan.n < Len(archive.entries)
      /\ UNCHANGED <<exportVars, roadVars, verdict, results>>
  BY DEF ScanEntry
<1>2. /\ Written /\ copied \in [DOMAIN copied -> Stuff] /\ scan.n \in Nat /\ ManifestPasses(man)
  BY <1>1, ScanStart
<1>3. /\ archive.entries \in Seq(ArchiveEntries) /\ DOMAIN man.packages = 1..Len(man.packages)
  BY <1>2, LimitsFact
<1>4. e \in ArchiveEntries
  BY <1>1, <1>2, <1>3
<1>5. e.body \in Stuff
  BY <1>4 DEF ArchiveEntries
<1> DEFINE OwnE ==
             /\ Admitted(e) /\ e.headers = 0
             /\ \/ scan.n = 0 /\ e.type = "dir"
                \/ /\ scan.n + 1 = Len(packages) + 2 /\ e.type = "reg" /\ Readable(e)
                   /\ e.name = Below(KeyFile) /\ e.body = [text |-> key]
                \/ /\ e.type = "reg" /\ Readable(e) /\ e.name # Below(KeyFile)
                   /\ scan.n \in 1..Len(packages)
                   /\ ListedAs(e) = {scan.n} /\ Matches(e, man.packages[scan.n])
<1>6. Own => OwnE
  BY <1>1, OwnEntry
<1>7. /\ packages \in Seq(Downloadeds) /\ DOMAIN packages = 1..Len(packages)
      /\ Len(packages) \in Nat
  BY DEF TransferInv, TransferTypeInv
<1>8. Own => Len(archive.entries) = Len(packages) + 2
  BY <1>2, OwnFact
<1> HIDE DEF e
<1>9. copied' = copied => copied' \in [DOMAIN copied' -> Stuff]
  BY <1>2
<1>10. CASE ~Admitted(e)
  <2>1. Fails("refused") /\ copied' = copied
    BY <1>10 DEF ScanEntry, e
  <2>2. ~Own
    BY <1>6, <1>10
  <2> QED
    BY <1>1, <1>9, <2>1, <2>2, ScanFails
<1>11. CASE Admitted(e) /\ e.type = "dir"
  <2>1. Passes(e, {}) /\ copied' = copied
    BY <1>11 DEF ScanEntry, e
  <2>2. GoodEntry(e, {})
    BY <1>11, <2>1 DEF GoodEntry
  <2>3. ASSUME Own
        PROVE  /\ e.headers = 0
               /\ \A i \in DOMAIN packages : ~(i + 1 = scan.n + 1)
               /\ ~(scan.n + 1 = Len(archive.entries))
    BY <1>2, <1>6, <1>7, <1>8, <1>11, <2>3
  <2>4. {} \in SUBSET DOMAIN man.packages
    OBVIOUS
  <2> QED
    BY <1>1, <1>11, <2>1, <2>2, <2>3, <2>4, ScanGoesOn DEF e
<1>12. CASE Admitted(e) /\ e.type # "dir" /\ e.name = Below(KeyFile)
  <2>1. copied' = copied
    BY <1>12 DEF ScanEntry, e
  <2>2. CASE Readable(e) /\ e.body = [text |-> key]
    <3>1. Passes(e, {})
      BY <1>12, <2>2 DEF ScanEntry, e
    <3>2. GoodEntry(e, {})
      BY <1>12, <2>1, <2>2 DEF GoodEntry
    <3>3. ASSUME Own
          PROVE  /\ e.headers = 0
                 /\ \A i \in DOMAIN packages : ~(i + 1 = scan.n + 1)
                 /\ e.name = Below(KeyFile)
      BY <1>2, <1>6, <1>7, <1>12, <3>3
    <3>4. {} \in SUBSET DOMAIN man.packages
      OBVIOUS
    <3> QED
      BY <1>1, <1>12, <3>1, <3>2, <3>3, <3>4, ScanGoesOn DEF e
  <2>3. CASE ~(Readable(e) /\ e.body = [text |-> key])
    <3>1. Fails("refused")
      BY <1>12, <2>3 DEF ScanEntry, e
    <3>2. ~Own
      BY <1>6, <1>12, <2>3
    <3> QED
      BY <1>1, <1>9, <2>1, <3>1, <3>2, ScanFails
  <2> QED
    BY <2>2, <2>3
<1>13. CASE /\ Admitted(e) /\ e.type # "dir" /\ e.name # Below(KeyFile)
            /\ ListedAs(e) = {}
  <2>1. Fails("refused") /\ copied' = copied
    BY <1>13 DEF ScanEntry, e
  <2>2. ~Own
    BY <1>6, <1>13
  <2> QED
    BY <1>1, <1>9, <2>1, <2>2, ScanFails
<1>14. CASE /\ Admitted(e) /\ e.type # "dir" /\ e.name # Below(KeyFile)
            /\ ListedAs(e) # {}
  <2>1. PICK i \in ListedAs(e) :
          \/ /\ e.name.file \notin DOMAIN copied
             /\ copied' = With(copied, e.name.file, e.body)
             /\ IF Readable(e) /\ Matches(e, man.packages[i]) THEN Passes(e, {i}) ELSE Fails("refused")
          \/ Fails("local") /\ UNCHANGED copied
    BY <1>14 DEF ScanEntry, e
  <2>2. i \in DOMAIN man.packages
    BY DEF ListedAs
  <2>3. CASE Fails("local") /\ UNCHANGED copied
    BY <1>1, <1>9, <2>3, ScanFails
  <2>4. CASE /\ e.name.file \notin DOMAIN copied
             /\ copied' = With(copied, e.name.file, e.body)
             /\ Readable(e) /\ Matches(e, man.packages[i]) /\ Passes(e, {i})
    <3>1. GoodEntry(e, {i})
      BY <1>14, <2>4 DEF GoodEntry
    <3>2. ASSUME Own
          PROVE  /\ e.headers = 0 /\ i = scan.n
                 /\ \A k \in DOMAIN packages : k + 1 = scan.n + 1 => k = i
                 /\ ~(scan.n + 1 = Len(archive.entries))
      BY <1>2, <1>6, <1>7, <1>8, <1>14, <2>1, <3>2
    <3>3. {i} \in SUBSET DOMAIN man.packages
      BY <2>2
    <3>4. Own => /\ e.headers = 0
                 /\ \A k \in DOMAIN packages : k + 1 = scan.n + 1 => k \in {i}
                 /\ scan.n + 1 = Len(archive.entries) => e.name = Below(KeyFile)
      BY <3>2
    <3> QED
      BY <1>1, <1>14, <2>4, <3>1, <3>3, <3>4, ScanGoesOn DEF e
  <2>5. CASE /\ copied' = With(copied, e.name.file, e.body)
             /\ ~(Readable(e) /\ Matches(e, man.packages[i])) /\ Fails("refused")
    <3>1. ~Own
      BY <1>6, <1>14, <2>1, <2>5
    <3>2. copied' \in [DOMAIN copied' -> Stuff]
      BY <1>2, <1>5, <2>5 DEF With
    <3> QED
      BY <1>1, <2>5, <3>1, <3>2, ScanFails
  <2> QED
    BY <2>1, <2>3, <2>4, <2>5
<1> QED
  BY <1>10, <1>11, <1>12, <1>13, <1>14

LEMMA EndScanStep ==
  ASSUME TransferInv, EndScan
  PROVE  TransferInv'
<1>1. /\ phase = "scan" /\ scan.n = Len(archive.entries) /\ phase' = "verdict"
      /\ scan' = [scan EXCEPT !.error =
           IF archive.whole /\ TarEnd <= scan.left /\ archive.after = "zeros" /\ AllPresent
           THEN "nil" ELSE "refused"]
      /\ UNCHANGED <<exportVars, roadVars, copied, verdict, results>>
  BY DEF EndScan
<1>2. UNCHANGED <<packages, shipped, stripped, archive, man, sent, key, expected, limits>>
  BY <1>1 DEF exportVars, roadVars
<1>3. /\ Written /\ verdict = "none" /\ results = <<>> /\ ManifestPasses(man) /\ Scanned
      /\ scan \in Scans /\ TransferTypeInv
      /\ scan.n \in Nat /\ scan.unpacked \in Nat /\ scan.left \in Int
      /\ scan.unpacked = Cardinality(BytesBefore(archive, scan.n))
  BY <1>1, ScanStart DEF TransferInv
<1>4. Written' /\ ManifestPasses(man)'
  BY <1>1, <1>2, <1>3 DEF Written
<1>5. SelectionInv' /\ ShippedInv' /\ SentInv' /\ RoadInv'
  BY <1>1, <1>3, ImportSide
<1>6. /\ scan' \in Scans /\ scan'.error \in {"nil", "refused"}
      /\ scan'.error = "nil" <=>
           archive.whole /\ TarEnd <= scan.left /\ archive.after = "zeros" /\ AllPresent
      /\ scan'.n = scan.n /\ scan'.seen = scan.seen /\ scan'.unpacked = scan.unpacked
      /\ scan'.done = scan.done /\ scan'.keySeen = scan.keySeen
  BY <1>1, <1>3 DEF Scans
<1>7. TransferTypeInv'
  BY <1>1, <1>2, <1>3, <1>4, <1>6 DEF TransferTypeInv
<1>8. PhaseInv' /\ VerdictInv' /\ ResultsInv'
  BY <1>1, <1>3 DEF PhaseInv, VerdictInv, ResultsInv
<1>9. Scanned'
  <2>1. /\ scan'.n = scan.n /\ scan'.seen = scan.seen /\ scan'.unpacked = scan.unpacked
        /\ scan'.done = scan.done /\ scan'.keySeen = scan.keySeen
        /\ UNCHANGED <<archive, man, limits, key, copied>>
    BY <1>1, <1>2, <1>6
  <2> QED
    BY ONLY <1>3, <2>1 DEF Scanned, IsFileEntry, FileAt
<1>10. ScanInv'
  BY <1>1, <1>2, <1>4, <1>6, <1>9 DEF ScanInv, AllPresent
<1>11. OwnInv'
  <2> SUFFICES ASSUME Own' PROVE scan'.error \in {"nil", "local"}
    BY <1>1, <1>3 DEF OwnInv
  <2>1. Own
    BY <1>1, OwnStays
  <2>2. /\ scan.left = StreamBound(limits) - scan.n * PerEntry - scan.unpacked
        /\ \A i \in DOMAIN packages : i + 1 <= scan.n => i \in scan.done
        /\ scan.keySeen
    BY <1>1, <1>3, <2>1 DEF TransferInv, OwnInv
  <2>3. /\ Len(packages) \in Nat \ {0} /\ Len(archive.entries) = Len(packages) + 2
        /\ Len(man.packages) = Len(packages) /\ archive.whole /\ archive.after = "zeros"
    BY <1>3, <2>1, OwnFact
  <2>4. /\ archive.entries \in Seq(ArchiveEntries) /\ Len(archive.entries) \in Nat
        /\ DOMAIN man.packages = 1..Len(man.packages) /\ StreamBound(limits) \in Int
    BY <1>3, LimitsFact
  <2>5. TarEnd <= scan.left
    <3>1. scan.unpacked <= Total(archive) /\ Total(archive) \in Nat
      BY <1>1, <1>3, <2>4, BytesTotal
    <3>2. StreamBound(limits) >= Len(archive.entries) + Total(archive) + 1
      BY <1>3, <2>1, OwnBound
    <3> QED
      BY <1>1, <1>3, <2>2, <2>4, <3>1, <3>2 DEF PerEntry, TarEnd
  <2>6. DOMAIN packages = 1..Len(packages)
    BY <1>3 DEF TransferTypeInv
  <2>7. scan.done = DOMAIN man.packages
    <3>1. scan.done \subseteq DOMAIN man.packages
      BY <1>3 DEF Scanned
    <3>2. \A i \in 1..Len(packages) : i + 1 <= scan.n
      BY <1>1, <2>3
    <3> QED
      BY <2>2, <2>3, <2>4, <2>6, <3>1, <3>2
  <2> QED
    BY <1>6, <2>2, <2>3, <2>5, <2>7 DEF AllPresent
<1> QED
  BY <1>5, <1>7, <1>8, <1>10, <1>11 DEF TransferInv

LEMMA VerifyStep ==
  ASSUME TransferInv, Verify
  PROVE  TransferInv'
<1>1. /\ phase = "verdict" /\ verdict' \in {Judge, "local"}
      /\ phase' = IF verdict' = "accepted" THEN "publish" ELSE "end"
      /\ UNCHANGED <<exportVars, roadVars, scan, copied, results>>
  BY DEF Verify
<1>2. UNCHANGED <<packages, shipped, stripped, archive, man, sent, key, expected, limits>>
  BY <1>1 DEF exportVars, roadVars
<1>3. /\ Written /\ verdict = "none" /\ results = <<>> /\ ManifestPasses(man) /\ scan \in Scans
      /\ TransferTypeInv
      /\ scan.error = "nil" => Scanned /\ scan.n = Len(archive.entries) /\ AllPresent
  BY <1>1 DEF TransferInv, PhaseInv, ScanInv, Written, TransferTypeInv
<1>4. scan.error \in {"nil", "refused", "local"}
  BY <1>3 DEF Scans
<1>5. /\ verdict' \in {"refused", "local", "damaged", "accepted"}
      /\ verdict' = "accepted" => /\ scan.error = "nil" /\ archive = man.archive
                                  /\ expected \in {None, archive}
      /\ verdict' # "local" =>
           (verdict' = "damaged" <=> archive # man.archive \/ expected \notin {None, archive})
  BY <1>1, <1>4 DEF Judge
<1>6. Written' /\ phase' \in {"publish", "end"} /\ (phase' = "publish" => verdict' = "accepted")
  BY <1>1, <1>5 DEF Written
<1>7. SelectionInv' /\ ShippedInv' /\ SentInv' /\ RoadInv'
  BY <1>1, <1>3, <1>6, ImportSide
<1>8. TransferTypeInv'
  BY <1>1, <1>2, <1>3, <1>5, <1>6 DEF TransferTypeInv
<1>9. PhaseInv' /\ ScanInv' /\ ResultsInv'
  BY <1>1, <1>3, <1>6 DEF PhaseInv, ScanInv, ResultsInv
<1>10. VerdictInv'
  <2>1. ASSUME verdict' = "accepted"
        PROVE  /\ ManifestPasses(man)' /\ Scanned' /\ scan'.n = Len(archive'.entries) /\ AllPresent'
               /\ archive' = man'.archive /\ expected' \in {None, archive'}
    <3>1. Scanned /\ scan.n = Len(archive.entries) /\ AllPresent
      BY <1>3, <1>5, <2>1
    <3>2. Scanned'
      BY <1>1, <1>2, <3>1 DEF Scanned, IsFileEntry, FileAt
    <3>3. AllPresent'
      BY <1>1, <1>2, <3>1 DEF AllPresent
    <3> QED
      BY <1>1, <1>2, <1>3, <1>5, <2>1, <3>1, <3>2, <3>3
  <2>2. verdict' \notin {"none", "local"} =>
          (verdict' = "damaged" <=> archive' # man'.archive \/ expected' \notin {None, archive'})
    BY <1>2, <1>5
  <2> QED
    BY <2>1, <2>2 DEF VerdictInv
<1>11. OwnInv'
  <2> SUFFICES ASSUME Own', verdict' # "local" PROVE verdict' = "accepted"
    BY <1>6 DEF OwnInv
  <2>1. Own
    BY <1>1, OwnStays
  <2>2. scan.error \in {"nil", "local"}
    BY <1>1, <1>3, <2>1 DEF TransferInv, OwnInv
  <2>3. man.archive = archive
    BY <1>3, <2>1, OwnFact
  <2>4. expected \in {None, archive}
    BY <1>3, <2>1 DEF TransferInv, RoadInv, Own
  <2> QED
    BY <1>1, <2>2, <2>3, <2>4 DEF Judge
<1> QED
  BY <1>7, <1>8, <1>9, <1>10, <1>11 DEF TransferInv

\* A step that only adds to the results leaves the verdict's grounds alone.
LEMMA VerdictStays ==
  ASSUME VerdictInv, UNCHANGED <<archive, man, key, expected, limits, scan, copied, verdict>>
  PROVE  VerdictInv'
<1>1. Scanned => Scanned'
  BY DEF Scanned, IsFileEntry, FileAt
<1>2. AllPresent => AllPresent'
  BY DEF AllPresent
<1>3. ManifestPasses(man)' = ManifestPasses(man)
  OBVIOUS
<1> QED
  BY <1>1, <1>2, <1>3 DEF VerdictInv

LEMMA PublishOneStep ==
  ASSUME TransferInv, PublishOne
  PROVE  TransferInv'
<1> DEFINE n == Len(results) + 1
           l == man.packages[n]
<1>1. PICK copy \in Copies[l.pkg] \cup {None} :
        results' = Append(results, [copy |-> copy, state |-> Decision(copied[l.file], l, copy)])
  BY DEF PublishOne
<1> DEFINE r == [copy |-> copy, state |-> Decision(copied[l.file], l, copy)]
<1>2. /\ phase = "publish" /\ Len(results) < Len(man.packages) /\ phase' \in {"end", "publish"}
      /\ UNCHANGED <<exportVars, roadVars, importVars>>
  BY DEF PublishOne
<1>3. UNCHANGED <<packages, shipped, stripped, archive, man, sent, key, expected, limits,
                  scan, copied, verdict>>
  BY <1>2 DEF exportVars, roadVars, importVars
<1>4. /\ Written /\ verdict = "accepted" /\ TransferTypeInv /\ ResultsInv /\ VerdictInv /\ OwnInv
      /\ results \in Seq(Outcomes)
  BY <1>2 DEF TransferInv, PhaseInv, Written, TransferTypeInv
<1>5. /\ man.packages \in Seq(Listings) /\ DOMAIN man.packages = 1..Len(man.packages)
      /\ Len(man.packages) \in Nat /\ Len(results) \in Nat
  BY <1>4, LimitsFact
<1>6. n \in DOMAIN man.packages /\ l \in Listings
  BY <1>2, <1>5
<1>7. r \in Outcomes /\ r.copy = copy /\ r.state = Decision(copied[l.file], l, copy)
  <2>1. l.pkg \in DOMAIN FileOf
    BY <1>6 DEF Listings
  <2>2. copy \in Tarballs \cup {None}
    BY <2>1, TransferAssumption
  <2>3. Decision(copied[l.file], l, copy)
          \in {"mismatch", "absent", "present", "failed", "conflict"}
    BY DEF Decision
  <2> HIDE DEF l
  <2> QED
    BY <2>2, <2>3 DEF Outcomes
<1> HIDE DEF r
<1>8. /\ results' \in Seq(Outcomes) /\ DOMAIN results' = 1..n /\ results'[n] = r
      /\ \A i \in 1..Len(results) : results'[i] = results[i]
      /\ DOMAIN results = 1..Len(results) /\ 1..n = 1..Len(results) \cup {n}
  BY <1>1, <1>4, <1>5, <1>7 DEF r
<1>9. Written'
  BY <1>3, <1>4 DEF Written
<1>10. TransferTypeInv'
  BY <1>2, <1>3, <1>4, <1>8, <1>9 DEF TransferTypeInv
<1>11. SelectionInv' /\ ShippedInv' /\ SentInv' /\ RoadInv'
  BY <1>2, <1>4, ImportSide
<1>12. PhaseInv' /\ ScanInv'
  BY <1>2, <1>3, <1>4 DEF PhaseInv, ScanInv
<1>13. VerdictInv'
  BY <1>3, <1>4, VerdictStays
<1>14. ResultsInv'
  <2> SUFFICES ASSUME NEW i \in DOMAIN results'
               PROVE  /\ i \in DOMAIN man.packages
                      /\ results'[i].copy \in Copies[man.packages[i].pkg] \cup {None}
                      /\ results'[i].state =
                           Decision(copied[FileAt(i)], man.packages[i], results'[i].copy)
    BY <1>3, <1>4 DEF ResultsInv, FileAt
  <2>1. CASE i = n
    BY <1>1, <1>6, <1>7, <1>8, <2>1 DEF FileAt
  <2>2. CASE i \in DOMAIN results
    BY <1>4, <1>8, <2>2 DEF ResultsInv
  <2> QED
    BY <1>8, <2>1, <2>2
<1>15. OwnInv'
  BY <1>2, <1>3, <1>4 DEF OwnInv
<1> QED
  BY <1>10, <1>11, <1>12, <1>13, <1>14, <1>15 DEF TransferInv

LEMMA TransferStutter ==
  ASSUME TransferInv, UNCHANGED transferVars
  PROVE  TransferInv'
<1>1. UNCHANGED <<phase, packages, shipped, stripped, archive, man, sent, key, expected, limits,
                  scan, copied, verdict, results>>
  BY DEF transferVars, exportVars, roadVars, importVars
<1>2. Written' = Written /\ Own' = Own
  BY <1>1 DEF Written, Own
<1>3. TransferTypeInv'
  BY <1>1, <1>2 DEF TransferInv, TransferTypeInv
<1>4. SelectionInv' /\ ShippedInv' /\ SentInv' /\ RoadInv' /\ PhaseInv'
  BY <1>1, <1>2 DEF TransferInv, SelectionInv, ShippedInv, SentInv, RoadInv, PhaseInv
<1>5. (Scanned => Scanned') /\ (AllPresent => AllPresent')
  BY <1>1 DEF Scanned, IsFileEntry, FileAt, AllPresent
<1>6. ScanInv'
  BY <1>1, <1>5 DEF TransferInv, ScanInv
<1>7. VerdictInv'
  BY <1>1, VerdictStays DEF TransferInv
<1>8. ResultsInv'
  BY <1>1 DEF TransferInv, ResultsInv, FileAt
<1>9. OwnInv'
  BY <1>1, <1>2 DEF TransferInv, OwnInv
<1> QED
  BY <1>3, <1>4, <1>6, <1>7, <1>8, <1>9 DEF TransferInv

LEMMA TransferStep == TransferInv /\ [Next]_transferVars => TransferInv'
<1> SUFFICES ASSUME TransferInv, [Next]_transferVars PROVE TransferInv'
  OBVIOUS
<1>1. CASE StripOne
  BY <1>1, StripOneStep
<1>2. CASE WriteListed
  BY <1>2, WriteListedStep
<1>3. CASE Road
  BY <1>3, RoadStep
<1>4. CASE ParseManifest
  BY <1>4, ParseManifestStep
<1>5. CASE ScanEntry
  BY <1>5, ScanEntryStep
<1>6. CASE EndScan
  BY <1>6, EndScanStep
<1>7. CASE Verify
  BY <1>7, VerifyStep
<1>8. CASE PublishOne
  BY <1>8, PublishOneStep
<1>9. CASE UNCHANGED transferVars
  BY <1>9, TransferStutter
<1> QED
  BY <1>1, <1>2, <1>3, <1>4, <1>5, <1>6, <1>7, <1>8, <1>9 DEF Next

LEMMA TransferAlways == Spec => []TransferInv
<1> QED
  BY TransferInitInv, TransferStep, PTL DEF Spec

-----------------------------------------------------------------------------
(* What follows *)

\* An archive's entry of one name, where names are distinct.
LEMMA OneNamed ==
  ASSUME NEW a, NEW file, NEW j \in DOMAIN a.entries, a.entries[j].name = Below(file),
         \A k \in DOMAIN a.entries : a.entries[k].name = Below(file) => k = j
  PROVE  EntriesNamed(a, file) = {j} /\ Cardinality(EntriesNamed(a, file)) = 1
<1>1. EntriesNamed(a, file) = {j}
  BY DEF EntriesNamed
<1> QED
  BY <1>1, FS_Singleton

LEMMA ShipsFact == TransferInv => ShipsWhatItLists
<1> SUFFICES ASSUME TransferInv, sent # None, NEW i \in DOMAIN packages
             PROVE  LET l == sent.man.packages[i]
                    IN /\ Cardinality(EntriesNamed(sent.archive, l.file)) = 1
                       /\ \A j \in EntriesNamed(sent.archive, l.file) :
                            sent.archive.entries[j].body = l.shipped
                       /\ IF HasPublishConfig(packages[i].tarball)
                          THEN /\ ~HasPublishConfig(l.shipped)
                               /\ Alike(l.shipped, packages[i].tarball)
                          ELSE l.shipped = packages[i].tarball
  BY DEF ShipsWhatItLists
<1> DEFINE n == Len(packages)
           es == sent.archive.entries
           l == sent.man.packages[i]
           d == packages[i]
           s == Shipment(d, HasPublishConfig(d.tarball))
<1>1. /\ packages \in Seq(Downloadeds) /\ n \in Nat /\ DOMAIN packages = 1..n
      /\ shipped \in Seq(Shipments) /\ i \in 1..n
  BY DEF TransferInv, TransferTypeInv
<1>2. /\ Len(shipped) = n /\ es \in Seq(ArchiveEntries) /\ Len(es) = n + 2
      /\ es[1] = RootEntry
      /\ \A k \in 1..n : es[k + 1] = Entry(shipped[k].file, shipped[k].tarball)
      /\ \A k, j \in 2..n + 2 : es[k].name = es[j].name => k = j
      /\ \A k \in 1..n : sent.man.packages[k] = Listing(shipped[k])
  BY DEF TransferInv, SentInv
<1>3. Inspects(d.tarball) /\ shipped[i] = s /\ d \in Downloadeds
  BY <1>1, <1>2 DEF TransferInv, ShippedInv
<1>4. /\ s \in Shipments
      /\ s.stripped = HasPublishConfig(d.tarball)
      /\ s.tarball = IF s.stripped THEN StripPublishConfig(d.tarball) ELSE d.tarball
  BY <1>3, ShipmentFact
<1>5. l = Listing(s)
  BY <1>1, <1>2, <1>3
<1> HIDE DEF s
<1>6. l.file = s.file /\ l.shipped = s.tarball /\ s.file \in Files /\ s.tarball \in Stuff
  <2>1. l.file = s.file /\ l.shipped = s.tarball
    BY <1>4, <1>5, ListingFact
  <2>2. s.file \in Files /\ s.tarball \in Tarballs
    BY <1>4 DEF Shipments
  <2> QED
    BY <2>1, <2>2 DEF Stuff
<1>7. es[i + 1].name = Below(l.file) /\ es[i + 1].body = l.shipped
  BY <1>1, <1>2, <1>3, <1>6, EntryFact
<1>8. i + 1 \in DOMAIN es /\ i + 1 \in 2..n + 2 /\ DOMAIN es = 1..n + 2
  BY <1>1, <1>2
<1>9. \A k \in DOMAIN es : es[k].name = Below(l.file) => k = i + 1
  <2> SUFFICES ASSUME NEW k \in DOMAIN es, es[k].name = Below(l.file) PROVE k = i + 1
    OBVIOUS
  <2>1. CASE k = 1
    <3>1. RootEntry.name = Root
      BY DEF RootEntry
    <3> QED
      BY <1>2, <1>6, <2>1, <3>1, BelowFact
  <2>2. CASE k \in 2..n + 2
    BY <1>2, <1>7, <1>8, <2>2
  <2> QED
    BY <1>1, <1>8, <2>1, <2>2
<1>10. /\ EntriesNamed(sent.archive, l.file) = {i + 1}
       /\ Cardinality(EntriesNamed(sent.archive, l.file)) = 1
  BY <1>7, <1>8, <1>9, OneNamed
<1>11. d.tarball \in Tarballs
  BY <1>3 DEF Downloadeds
<1>12. IF HasPublishConfig(d.tarball)
       THEN ~HasPublishConfig(l.shipped) /\ Alike(l.shipped, d.tarball)
       ELSE l.shipped = d.tarball
  BY <1>3, <1>4, <1>6, <1>11, StripFact
<1> QED
  BY <1>7, <1>10, <1>12

LEMMA VerdictFact == TransferInv => VerdictIsTrue
<1> SUFFICES ASSUME TransferInv PROVE VerdictIsTrue
  OBVIOUS
<1>1. VerdictInv /\ RoadInv /\ TransferTypeInv
  BY DEF TransferInv
<1>2. ASSUME verdict \notin {"none", "local"}, ManifestPasses(man)
      PROVE  verdict = "damaged" <=>
               archive # sent.archive /\ (man.archive = sent.archive \/ expected # None)
  <2>1. verdict = "damaged" <=> archive # man.archive \/ expected \notin {None, archive}
    BY <1>1, <1>2 DEF VerdictInv
  <2>2. man.archive \in {sent.archive, archive} /\ expected \in {None, sent.archive}
    BY <1>1, <1>2 DEF RoadInv, Written
  <2> QED
    BY ONLY <2>1, <2>2
<1>3. ASSUME verdict = "accepted"
      PROVE  LET listed == {man.packages[i].file : i \in DOMAIN man.packages}
             IN /\ archive = man.archive
                /\ expected # None => archive = sent.archive
                /\ DOMAIN copied = listed
                /\ \A i \in DOMAIN archive.entries :
                     archive.entries[i].type # "dir"
                       => \E f \in listed \cup {KeyFile} : i \in EntriesNamed(archive, f)
                /\ \A f \in listed \cup {KeyFile} : Cardinality(EntriesNamed(archive, f)) = 1
                /\ \A i \in EntriesNamed(archive, KeyFile) :
                     archive.entries[i].body = [text |-> key]
                /\ \A i \in DOMAIN man.packages :
                     LET l == man.packages[i]
                     IN /\ copied[l.file] = l.shipped
                        /\ ~l.stripped => \E f \in Range(l.integrity) : f.of = l.shipped
                /\ Len(archive.entries) <= limits.entries /\ Total(archive) <= limits.unpacked
  <2> DEFINE listed == {man.packages[i].file : i \in DOMAIN man.packages}
             es == archive.entries
             n == Len(es)
  <2>1. /\ ManifestPasses(man) /\ Scanned /\ scan.n = n /\ AllPresent
        /\ archive = man.archive /\ expected \in {None, archive}
    BY <1>1, <1>3 DEF VerdictInv
  <2>2. Written /\ expected \in {None, sent.archive}
    BY <1>1, <1>3 DEF RoadInv, Written
  <2>3. /\ es \in Seq(ArchiveEntries) /\ n \in Nat /\ DOMAIN es = 1..n
        /\ man.packages \in Seq(Listings)
    BY <2>2, LimitsFact
  <2>4. scan.done = DOMAIN man.packages /\ scan.keySeen
    BY <2>1 DEF AllPresent
  <2>5. /\ n <= limits.entries
        /\ \A j, k \in 1..n : es[j].name = es[k].name => j = k
        /\ scan.unpacked = Cardinality(BytesBefore(archive, n)) /\ scan.unpacked <= limits.unpacked
        /\ \A j \in 1..n :
             /\ es[j].name = Below(KeyFile) => es[j].body = [text |-> key]
             /\ IsFileEntry(j) /\ es[j].name # Below(KeyFile) =>
                  \E i \in scan.done : es[j].name = Below(FileAt(i))
        /\ \A i \in scan.done :
             LET l == man.packages[i]
             IN /\ \E j \in 1..n : es[j].name = Below(l.file) /\ IsFileEntry(j)
                /\ l.file \in DOMAIN copied /\ copied[l.file] = l.shipped
                /\ l.stripped \/ l.shipped = ParseIntegrity(l.integrity).of
        /\ DOMAIN copied = {FileAt(i) : i \in scan.done}
        /\ \E j \in 1..n : es[j].name = Below(KeyFile)
    BY <2>1, <2>4 DEF Scanned
  <2>6. expected # None => archive = sent.archive
    BY <2>1, <2>2
  <2>7. DOMAIN copied = listed
    BY <2>4, <2>5 DEF FileAt
  <2>8. ASSUME NEW j \in DOMAIN es, es[j].type # "dir"
        PROVE  \E f \in listed \cup {KeyFile} : j \in EntriesNamed(archive, f)
    <3>1. CASE es[j].name = Below(KeyFile)
      BY <3>1 DEF EntriesNamed
    <3>2. CASE es[j].name # Below(KeyFile)
      <4>1. PICK i \in scan.done : es[j].name = Below(FileAt(i))
        BY <2>3, <2>5, <2>8, <3>2 DEF IsFileEntry
      <4>2. FileAt(i) \in listed /\ j \in EntriesNamed(archive, FileAt(i))
        BY <2>4, <2>8, <4>1 DEF EntriesNamed, FileAt
      <4> QED
        BY <4>2
    <3> QED
      BY <3>1, <3>2
  <2>9. ASSUME NEW f \in listed \cup {KeyFile}
        PROVE  Cardinality(EntriesNamed(archive, f)) = 1
    <3>1. \E j \in 1..n : es[j].name = Below(f)
      BY <2>4, <2>5, <2>9
    <3>2. PICK j \in 1..n : es[j].name = Below(f)
      BY <3>1
    <3>3. \A k \in DOMAIN es : es[k].name = Below(f) => k = j
      BY <2>3, <2>5, <3>2
    <3> QED
      BY <2>3, <3>2, <3>3, OneNamed
  <2>10. \A i \in EntriesNamed(archive, KeyFile) : es[i].body = [text |-> key]
    BY <2>3, <2>5 DEF EntriesNamed
  <2>11. ASSUME NEW i \in DOMAIN man.packages
         PROVE  LET l == man.packages[i]
                IN /\ copied[l.file] = l.shipped
                   /\ ~l.stripped => \E f \in Range(l.integrity) : f.of = l.shipped
    <3> DEFINE l == man.packages[i]
    <3>1. /\ copied[l.file] = l.shipped
          /\ l.stripped \/ l.shipped = ParseIntegrity(l.integrity).of
      BY <2>4, <2>5
    <3>2. l.integrity \in Seq(Fields)
      <4>1. l \in Listings
        BY <2>3
      <4> QED
        BY <4>1 DEF Listings
    <3>3. ParseIntegrity(l.integrity) # Unusable
      BY <2>1 DEF ManifestPasses, Acceptable
    <3>4. ParseIntegrity(l.integrity) \in Range(l.integrity)
      BY <3>2, <3>3, IntegrityFact
    <3> QED
      BY <3>1, <3>4
  <2>12. n <= limits.entries /\ Total(archive) <= limits.unpacked
    BY <2>3, <2>5, BytesTotal DEF Total
  <2> QED
    BY <2>1, <2>6, <2>7, <2>8, <2>9, <2>10, <2>11, <2>12
<1> QED
  BY <1>2, <1>3 DEF VerdictIsTrue

LEMMA OwnExportsFact == TransferInv => OwnExportsPass
<1> SUFFICES ASSUME TransferInv, ArrivedWell, \A i \in DOMAIN packages : FileOf[packages[i].pkg].plain
             PROVE  verdict = "accepted"
  BY DEF OwnExportsPass
<1>1. Own /\ Written
  BY DEF ArrivedWell, Own, Written
<1> QED
  BY <1>1 DEF TransferInv, OwnInv, ArrivedWell

LEMMA CopyFact == TransferInv => CopyIsJudged
<1> SUFFICES ASSUME TransferInv, NEW i \in DOMAIN results
             PROVE  LET l == man.packages[i]
                        t == copied[l.file]
                        r == results[i]
                    IN /\ r.state = "present" => Alike(t, r.copy)
                       /\ r.state = "conflict" /\ l.stripped =>
                            ~Alike(t, r.copy) \/ HoldsNameTwice(t) \/ HoldsNameTwice(r.copy)
  BY DEF CopyIsJudged
<1> DEFINE l == man.packages[i]
           t == copied[l.file]
           c == results[i].copy
<1>1. /\ ResultsInv /\ TransferTypeInv /\ VerdictInv
  BY DEF TransferInv
<1>2. /\ verdict = "accepted" /\ i \in DOMAIN man.packages
      /\ c \in Copies[l.pkg] \cup {None} /\ results[i].state = Decision(t, l, c)
  <2>1. results # <<>>
    BY <1>1 DEF TransferTypeInv
  <2> QED
    BY <1>1, <2>1 DEF ResultsInv, FileAt
<1>3. Scanned /\ AllPresent /\ Written
  BY <1>1, <1>2 DEF VerdictInv, Written
<1>4. t \in Stuff
  <2>1. l.file \in DOMAIN copied
    BY <1>2, <1>3 DEF Scanned, AllPresent
  <2> QED
    BY <1>1, <2>1 DEF TransferTypeInv
<1>5. c \in Tarballs \cup {None}
  <2>1. l \in Listings
    BY <1>2, <1>3, LimitsFact
  <2>2. l.pkg \in DOMAIN FileOf
    BY <2>1 DEF Listings
  <2> QED
    BY <1>2, <2>2, TransferAssumption
<1> HIDE DEF c, t
<1>6. Inspects(t) => t \in Tarballs /\ EndsInZeros(t)
  <2> SUFFICES ASSUME Inspects(t) PROVE t \in Tarballs /\ EndsInZeros(t)
    OBVIOUS
  <2>1. "entries" \in DOMAIN t /\ EndsInZeros(t)
    BY DEF Inspects, Walks
  <2>2. \A b \in [text : {"key", "another", ""}] : "entries" \notin DOMAIN b
    OBVIOUS
  <2> QED
    BY <1>4, <2>1, <2>2 DEF Stuff
<1>7. ASSUME results[i].state = "present" PROVE Alike(t, c)
  <2>1. Decision(t, l, c) = "present"
    BY <1>2, <1>7
  <2>2. ~Mismatch(t, l) /\ c # None /\ (c = t \/ SameContent(t, c))
    BY <2>1 DEF Decision
  <2>3. t \in Tarballs /\ EndsInZeros(t) /\ c \in Tarballs
    BY <1>5, <1>6, <2>2 DEF Mismatch
  <2>4. CASE c = t
    BY <2>3, <2>4 DEF Alike, EndsInZeros
  <2>5. CASE SameContent(t, c)
    BY <2>3, <2>5, SameAlike DEF SameContent
  <2> QED
    BY <2>2, <2>4, <2>5
<1>8. ASSUME results[i].state = "conflict", l.stripped
      PROVE  ~Alike(t, c) \/ HoldsNameTwice(t) \/ HoldsNameTwice(c)
  <2>1. Decision(t, l, c) = "conflict"
    BY <1>2, <1>8
  <2>2. ~Mismatch(t, l) /\ c # None /\ ~SameContent(t, c)
    BY <1>8, <2>1 DEF Decision
  <2>3. t \in Tarballs /\ c \in Tarballs
    BY <1>5, <1>6, <2>2 DEF Mismatch
  <2> SUFFICES ASSUME Alike(t, c), ~HoldsNameTwice(t), ~HoldsNameTwice(c) PROVE FALSE
    OBVIOUS
  <2>4. EndsInZeros(t) /\ EndsInZeros(c)
    BY DEF Alike, EndsInZeros
  <2>5. LastDigests(t) = LastDigests(c)
    BY <2>3, <2>4, SameAlike
  <2> QED
    BY <2>2, <2>4, <2>5 DEF SameContent
<1> QED
  BY <1>7, <1>8 DEF c, t

\* What an export writes is what its manifest lists, for any packages, whatever
\* tarballs the registry serves: no rewritten file stands for another's.
THEOREM ShipsAsListed == Spec => []ShipsWhatItLists
<1> QED
  BY TransferAlways, ShipsFact, PTL

\* Whatever of these changes the road makes, the import's verdict tells the
\* exporter's archive from another, and an accepted one is what it says.
THEOREM VerdictTells == Spec => []VerdictIsTrue
<1> QED
  BY TransferAlways, VerdictFact, PTL

\* The import accepts every archive of some package that an export wrote, within
\* the limits: whatever the tarballs, their order and their integrities.
THEOREM OwnExportsAreAccepted == Spec => []OwnExportsPass
<1> QED
  BY TransferAlways, OwnExportsFact, PTL

\* A copy in Nexus passes for the shipped package only if it is read alike, by
\* the first or by the last entry of a name.
THEOREM CopiesAreReadAlike == Spec => []CopyIsJudged
<1> QED
  BY TransferAlways, CopyFact, PTL

=============================================================================
