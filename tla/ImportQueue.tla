----------------------------- MODULE ImportQueue -----------------------------
(***************************************************************************)
(* The import queue and its store (internal/store/imports): one record per *)
(* import on disk, one worker that runs the queued attempts one at a time, *)
(* the handlers that start and retry imports, and the sweep at start.      *)
(*                                                                         *)
(* A store operation holds the store's mutex, so each is one step; any     *)
(* write of a record may fail and then changes nothing.  What an attempt's *)
(* run does is open here: it reports packages as it likes and returns any  *)
(* report.  ImportRun says what it does.                                   *)
(***************************************************************************)
EXTENDS Naturals, SequencesExt

CONSTANTS
  Imports,       \* the imports that may be started, each once
  NoImport,
  PackageCount,  \* how many packages an archive has
  MaxAttempts,   \* bound: attempts of all imports together
  MaxFaults,     \* bound: store operations that fail
  MaxCrashes     \* bound: stops of the service

ASSUME ImportAssumption == NoImport \notin Imports /\ PackageCount \in Nat /\ MaxFaults \in Nat

VARIABLES
  record,      \* record[i]: the attempts in i's import.json; <<>>: no such import
  work,        \* work[i]: the attempts n with a directory work-<n>
  items,       \* q.items
  wake,        \* q.wake holds a token
  ctxDone,     \* q.ctx is cancelled
  worker,      \* where the worker is in loop, next and process
  it, n,       \* process' it and n
  rep,         \* process' rep: the outcome, the packages, archiveChecked
  remover,     \* process' remove is not nil
  removal,     \* what the remover returned
  handler,     \* the handler that holds startMu, and the import it is about
  boot,        \* "up", or how far the start of the service got
  faults, crashes,
  unswept      \* imports the last sweep could not end

storeVars == <<record, work>>
queueVars == <<items, wake, ctxDone>>
localVars == <<it, n, rep, remover, removal>>
processVars == <<worker, localVars>>
worldVars == <<boot, faults, crashes, unswept>>
importVars == <<storeVars, queueVars, processVars, handler, worldVars>>

Packages == 1..PackageCount
Outcomes == {"complete", "incomplete", "refused", "interrupted"}
PackageStates == {"unlisted", "pending", "published", "present", "failed"}
Removals == {"none", "kept", "removed"}

Every(s) == [p \in Packages |-> s]
NewAttempt ==
  [status |-> "queued", outcome |-> "none", packages |-> Every("unlisted"),
   checked |-> FALSE, removal |-> "none"]
NoHandler == [at |-> "idle", about |-> NoImport]
NoReport == [outcome |-> "none", packages |-> Every("unlisted"), checked |-> FALSE]

MayTry == MapThenSumSet(LAMBDA i : Len(record[i]), Imports) < MaxAttempts

Latest(i) == Last(record[i])
Unended(i) == record[i] # <<>> /\ Latest(i).status # "ended"

ImportInit ==
  /\ record = [i \in Imports |-> <<>>] /\ work = [i \in Imports |-> {}]
  /\ items = <<>> /\ wake = FALSE /\ ctxDone = FALSE
  /\ worker = "checking" /\ it = NoImport /\ n = 0
  /\ rep = NoReport /\ remover = FALSE /\ removal = "none"
  /\ handler = NoHandler
  /\ boot = "up" /\ faults = 0 /\ crashes = 0 /\ unswept = {}

-----------------------------------------------------------------------------
(* The store *)

\* update: the record is read, changed and written back, ...
Update(i, m, a) == record' = [record EXCEPT ![i][m] = a] /\ UNCHANGED faults

\* ... or nothing is, and the caller gets an error.
Fault == faults < MaxFaults /\ faults' = faults + 1 /\ UNCHANGED record

Refused == UNCHANGED <<record, faults>>

\* endUnfinished and sweepOne: an attempt that has not ended does, and its
\* pending packages fail.
Failing(pkgs) == [p \in Packages |-> IF pkgs[p] = "pending" THEN "failed" ELSE pkgs[p]]
CutShort(a, outcome) ==
  [a EXCEPT !.status = "ended", !.outcome = outcome, !.removal = "none",
            !.packages = Failing(a.packages)]

\* Abandon and Break: the latest attempt ends, unless it has, and its directory
\* goes; the write or the removal may fail.
EndUnfinished(i, outcome) ==
  IF Unended(i)
    THEN /\ Update(i, Len(record[i]), CutShort(Latest(i), outcome))
         /\ work' = [work EXCEPT ![i] = @ \ {Len(record[i])}]
    ELSE Refused /\ UNCHANGED work

EndUnfinishedFails(i, outcome) ==
  /\ UNCHANGED work
  /\ \/ Fault
     \/ /\ Unended(i) /\ faults < MaxFaults /\ faults' = faults + 1
        /\ record' = [record EXCEPT ![i][Len(record[i])] = CutShort(@, outcome)]

-----------------------------------------------------------------------------
(* Handlers: StartImport and RetryImport, one at a time under startMu *)

\* Create: the first attempt is queued on disk.
Create(i) ==
  /\ boot = "up" /\ handler.at = "idle" /\ record[i] = <<>> /\ MayTry
  /\ record' = [record EXCEPT ![i] = <<NewAttempt>>]
  /\ handler' = [at |-> "submit", about |-> i]
  /\ UNCHANGED <<work, queueVars, processVars, worldVars>>

\* Retry: one more attempt, once the latest has ended.
Retry(i) ==
  /\ boot = "up" /\ handler.at = "idle" /\ record[i] # <<>> /\ ~Unended(i)
  /\ MayTry
  /\ record' = [record EXCEPT ![i] = Append(@, NewAttempt)]
  /\ handler' = [at |-> "submit", about |-> i]
  /\ UNCHANGED <<work, queueVars, processVars, worldVars>>

\* Submit: refused once the queue is closed; the worker is woken either way.
Submit ==
  /\ boot = "up" /\ handler.at = "submit"
  /\ items' = IF ctxDone THEN items ELSE Append(items, handler.about)
  /\ wake' = TRUE
  /\ handler' = IF ctxDone THEN [handler EXCEPT !.at = "abandon"] ELSE NoHandler
  /\ UNCHANGED <<storeVars, ctxDone, processVars, worldVars>>

\* stopping: the attempt the closed queue refused is ended.
Stopping ==
  /\ boot = "up" /\ handler.at = "abandon"
  /\ \/ EndUnfinished(handler.about, "interrupted")
     \/ EndUnfinishedFails(handler.about, "interrupted")
  /\ handler' = NoHandler
  /\ UNCHANGED <<queueVars, processVars, boot, crashes, unswept>>

-----------------------------------------------------------------------------
(* The worker: loop and next *)

GoTo(w) == worker' = w /\ UNCHANGED localVars

\* process returns, and what it held is gone.
ProcessReturns ==
  /\ worker' = "checking" /\ it' = NoImport /\ n' = 0
  /\ rep' = NoReport /\ remover' = FALSE /\ removal' = "none"

\* A closed queue starts nothing it holds.
NextStops ==
  /\ boot = "up" /\ worker = "checking" /\ ctxDone
  /\ GoTo("stopped")
  /\ UNCHANGED <<storeVars, queueVars, handler, worldVars>>

NextTakes ==
  /\ boot = "up" /\ worker = "checking" /\ ~ctxDone /\ items # <<>>
  /\ it' = Head(items) /\ items' = Tail(items)
  /\ worker' = "took"
  /\ UNCHANGED <<storeVars, wake, ctxDone, n, rep, remover, removal, handler, worldVars>>

NextWaits ==
  /\ boot = "up" /\ worker = "checking" /\ ~ctxDone /\ items = <<>>
  /\ GoTo("waiting")
  /\ UNCHANGED <<storeVars, queueVars, handler, worldVars>>

\* Seeded fault: the context is not selected on.
NextWakesByToken ==
  /\ boot = "up" /\ worker = "waiting"
  /\ wake /\ wake' = FALSE
  /\ GoTo("checking")
  /\ UNCHANGED <<storeVars, items, ctxDone, handler, worldVars>>

\* The select: by a token, which is taken, or by the context.
NextWakes ==
  /\ boot = "up" /\ worker = "waiting"
  /\ (wake /\ wake' = FALSE) \/ (ctxDone /\ UNCHANGED wake)
  /\ GoTo("checking")
  /\ UNCHANGED <<storeVars, items, ctxDone, handler, worldVars>>

-----------------------------------------------------------------------------
(* The worker: process *)

\* Begin: the latest attempt runs, in a directory of its own. The directory
\* may be there though the record could not be written.
Begin ==
  /\ boot = "up" /\ worker = "took"
  /\ n' = Len(record[it])
  /\ \/ /\ Latest(it).status = "queued"
        /\ Update(it, n', [Latest(it) EXCEPT !.status = "running"])
        /\ work' = [work EXCEPT ![it] = @ \cup {n'}]
        /\ worker' = "began"
     \/ /\ Fault \/ (Latest(it).status # "queued" /\ Refused)
        /\ work' \in {work, [work EXCEPT ![it] = @ \cup {n'}]}
        /\ worker' = "abandoning"
  /\ UNCHANGED <<queueVars, it, rep, remover, removal, handler, boot, crashes, unswept>>

\* Get: the import is read back to be run.
Get ==
  /\ boot = "up" /\ worker = "began"
  /\ (Refused /\ GoTo("running")) \/ (Fault /\ GoTo("abandoning"))
  /\ UNCHANGED <<work, queueVars, handler, boot, crashes, unswept>>

\* Listed, Checked and Ended store what the run says of attempt n, which must
\* be the latest and running. The run goes on when it cannot be stored.
Tell(a) ==
  \/ IF Len(record[it]) = n /\ Latest(it).status = "running" THEN Update(it, n, a) ELSE Refused
  \/ Fault

Listed ==
  /\ boot = "up" /\ worker = "running" /\ rep.packages = Every("unlisted")
  /\ Tell([Latest(it) EXCEPT !.packages = Every("pending")])
  /\ rep' = [rep EXCEPT !.packages = Every("pending")]
  /\ UNCHANGED <<work, queueVars, worker, it, n, remover, removal, handler, boot, crashes, unswept>>

Checked ==
  /\ boot = "up" /\ worker = "running" /\ rep.packages = Every("pending") /\ ~rep.checked
  /\ Tell([Latest(it) EXCEPT !.checked = TRUE])
  /\ rep' = [rep EXCEPT !.checked = TRUE]
  /\ UNCHANGED <<work, queueVars, worker, it, n, remover, removal, handler, boot, crashes, unswept>>

\* A package the record does not list is refused.
Ended(p, s) ==
  /\ boot = "up" /\ worker = "running" /\ rep.packages[p] = "pending"
  /\ Tell([Latest(it) EXCEPT !.packages[p] = IF @ = "unlisted" THEN @ ELSE s])
  /\ rep' = [rep EXCEPT !.packages[p] = s]
  /\ UNCHANGED <<work, queueVars, worker, it, n, remover, removal, handler, boot, crashes, unswept>>

\* The run returns its report, and a remover or nil. A refusal names no package.
RunReturns(outcome, rm) ==
  /\ boot = "up" /\ worker = "running"
  /\ worker' = "returned"
  /\ rep' = [rep EXCEPT !.outcome = outcome,
                        !.packages = IF outcome = "refused" THEN Every("unlisted") ELSE @]
  /\ remover' = rm
  /\ UNCHANGED <<storeVars, queueVars, it, n, removal, handler, worldVars>>

\* guarded recovers a panic of the run, and Break ends the attempt.
RunPanics ==
  /\ boot = "up" /\ worker = "running"
  /\ \/ EndUnfinished(it, "incomplete") /\ ProcessReturns
     \/ EndUnfinishedFails(it, "incomplete") /\ GoTo("abandoning")
  /\ UNCHANGED <<queueVars, handler, boot, crashes, unswept>>

\* Abandon: nothing more is done about a fault here.
Abandon ==
  /\ boot = "up" /\ worker = "abandoning"
  /\ EndUnfinished(it, "interrupted") \/ EndUnfinishedFails(it, "interrupted")
  /\ ProcessReturns
  /\ UNCHANGED <<queueVars, handler, boot, crashes, unswept>>

\* An incomplete report of a run that Close cut short is an interruption.
Judge ==
  /\ boot = "up" /\ worker = "returned"
  /\ IF ctxDone /\ rep.outcome = "incomplete"
       THEN rep' = [rep EXCEPT !.outcome = "interrupted"] /\ remover' = FALSE
       ELSE UNCHANGED <<rep, remover>>
  /\ worker' = "finishing"
  /\ UNCHANGED <<storeVars, queueVars, it, n, removal, handler, worldVars>>

\* Finish, its record: attempt n, the latest, ends with the report.
Finish ==
  /\ boot = "up" /\ worker = "finishing"
  /\ \/ /\ Len(record[it]) = n /\ Unended(it)
        /\ Update(it, n, [Latest(it) EXCEPT
             !.status = "ended", !.outcome = rep.outcome, !.packages = rep.packages,
             !.checked = rep.checked, !.removal = "none"])
        /\ GoTo("cleaning")
     \/ /\ Fault \/ (~(Len(record[it]) = n /\ Unended(it)) /\ Refused)
        /\ GoTo("abandoning")
  /\ UNCHANGED <<work, queueVars, handler, boot, crashes, unswept>>

\* Finish, its files: only then may the archive go.
Clean ==
  /\ boot = "up" /\ worker = "cleaning"
  /\ \/ /\ work' = [work EXCEPT ![it] = @ \ {n}]
        /\ IF remover THEN GoTo("removing") ELSE ProcessReturns
        /\ Refused
     \/ Fault /\ UNCHANGED work /\ GoTo("abandoning")
  /\ UNCHANGED <<queueVars, handler, boot, crashes, unswept>>

RemoverReturns(rm) ==
  /\ boot = "up" /\ worker = "removing"
  /\ removal' = rm /\ worker' = "removed"
  /\ UNCHANGED <<storeVars, queueVars, it, n, rep, remover, handler, worldVars>>

\* Seeded fault: the removal goes to the latest attempt.
RemovedLatest ==
  /\ boot = "up" /\ worker = "removed"
  /\ Update(it, Len(record[it]), [Latest(it) EXCEPT !.removal = removal]) \/ Fault
  /\ ProcessReturns
  /\ UNCHANGED <<work, queueVars, handler, boot, crashes, unswept>>

\* Removed: to attempt n, once, though a retry may have queued a later one.
Removed ==
  /\ boot = "up" /\ worker = "removed"
  /\ LET a == record[it][n]
     IN \/ IF a.status = "ended" /\ a.outcome = "complete" /\ a.removal = "none"
             THEN Update(it, n, [a EXCEPT !.removal = removal]) ELSE Refused
        \/ Fault
  /\ ProcessReturns
  /\ UNCHANGED <<work, queueVars, handler, boot, crashes, unswept>>

-----------------------------------------------------------------------------
(* Close, a stop of the process, and the start *)

Close ==
  /\ boot = "up" /\ ~ctxDone
  /\ ctxDone' = TRUE
  /\ UNCHANGED <<storeVars, items, wake, processVars, handler, worldVars>>

\* The process ends, by a crash or after Close: only the files are left.
Stop ==
  /\ boot # "down" /\ crashes < MaxCrashes
  /\ boot' = "down" /\ crashes' = crashes + 1
  /\ items' = <<>> /\ wake' = FALSE /\ ctxDone' = FALSE
  /\ ProcessReturns
  /\ handler' = NoHandler
  /\ UNCHANGED <<storeVars, faults, unswept>>

\* Seeded fault: only the attempts that ran are ended.
SweepRunning ==
  /\ boot = "down" /\ boot' = "swept" /\ unswept' = {}
  /\ record' = [i \in Imports |-> [m \in DOMAIN record[i] |->
       IF record[i][m].status = "running" THEN CutShort(record[i][m], "interrupted")
       ELSE record[i][m]]]
  /\ UNCHANGED <<work, queueVars, processVars, handler, faults, crashes>>

\* Sweep, the records: every attempt is ended and no package stays pending. The
\* imports it cannot read or write are skipped, as many as there are.
Sweep ==
  /\ boot = "down" /\ boot' = "swept"
  /\ \/ unswept' = {} /\ UNCHANGED faults
     \/ /\ faults < MaxFaults /\ faults' = faults + 1
        /\ unswept' \in SUBSET {i \in Imports : record[i] # <<>>} \ {{}}
  /\ record' = [i \in Imports |-> [m \in DOMAIN record[i] |->
       IF i \in unswept' THEN record[i][m]
       ELSE IF record[i][m].status # "ended" THEN CutShort(record[i][m], "interrupted")
       ELSE [record[i][m] EXCEPT !.packages = Failing(@)]]]
  /\ UNCHANGED <<work, queueVars, processVars, handler, crashes>>

\* Sweep, the files; then the service listens.
SweepWork ==
  /\ boot = "swept" /\ boot' = "up"
  /\ work' = [i \in Imports |-> IF i \in unswept THEN work[i] ELSE {}]
  /\ UNCHANGED <<record, queueVars, processVars, handler, faults, crashes, unswept>>

-----------------------------------------------------------------------------

\* The steps of the queue in which the run and the handlers' checks have no part.
QueueStep ==
  \/ Submit \/ Stopping \/ NextStops \/ NextTakes \/ NextWaits \/ NextWakes
  \/ Begin \/ Get \/ Abandon \/ Judge \/ Finish \/ Clean \/ Removed
  \/ Close \/ Stop \/ Sweep \/ SweepWork

\* What the queue may rely on: a run returns once no package is pending, it is
\* complete when none failed, and only then it may have a remover.
RunStep ==
  \/ Listed \/ Checked \/ RunPanics
  \/ \E p \in Packages, s \in {"published", "present", "failed"} : Ended(p, s)
  \/ ~rep.checked /\ RunReturns("refused", FALSE)
  \/ /\ \A p \in Packages : rep.packages[p] # "pending"
     /\ \/ RunReturns("incomplete", FALSE)
        \/ /\ rep.checked /\ \A p \in Packages : rep.packages[p] # "failed"
           /\ \E rm \in BOOLEAN : RunReturns("complete", rm)
  \/ \E rm \in {"kept", "removed"} : RemoverReturns(rm)

ImportNext ==
  QueueStep \/ RunStep \/ \E i \in Imports : Create(i) \/ Retry(i)

ImportSpec == ImportInit /\ [][ImportNext]_importVars

\* The worker, a handler past its checks and a run (its calls time out) go on;
\* nobody has to start, retry, stop or start the service again.
ImportFairness ==
  /\ WF_importVars(Submit \/ Stopping)
  /\ WF_importVars(NextStops \/ NextTakes \/ NextWaits \/ NextWakes \/ Begin \/ Get
                    \/ Abandon \/ Judge \/ Finish \/ Clean \/ Removed)
  /\ WF_importVars(RunStep)

ImportFairSpec == ImportSpec /\ ImportFairness

-----------------------------------------------------------------------------
(* Properties *)

\* process: "so no record stays queued or running with nothing behind it",
\* whichever one store operation fails: an attempt that has not ended waits in
\* the queue, is the worker's, or is a handler's; only a queue that is closed,
\* or a sweep that skipped the import, leaves one to the next start.
NothingForgotten ==
  boot = "up" /\ ~ctxDone /\ faults <= 1 =>
    \A i \in Imports \ unswept :
      Unended(i) => \/ i \in Range(items) \/ i = it
                    \/ handler.at = "submit" /\ handler.about = i

\* Finish, Removed, Abandon, sweepOne: whatever comes late, an attempt that has
\* ended keeps its report; a complete one may still get its removal, once.
EndedStays ==
  [][\A i \in Imports : \A m \in DOMAIN record[i] :
       record[i][m].status = "ended" =>
         /\ m \in DOMAIN record'[i]
         /\ record'[i][m] # record[i][m] =>
              /\ record[i][m].outcome = "complete" /\ record[i][m].removal = "none"
              /\ record'[i][m] = [record[i][m] EXCEPT !.removal = record'[i][m].removal]
    ]_importVars

\* An attempt as its import's page shows it: while it runs, nothing it says is
\* final.
Shown(a) ==
  IF a.status = "ended"
  THEN [state |-> a.outcome, packages |-> a.packages, checked |-> a.checked, removal |-> a.removal]
  ELSE [state |-> a.status, packages |-> Every("unlisted"), checked |-> FALSE, removal |-> a.removal]

Lifecycle == INSTANCE ImportLifecycle
  WITH attempts <- [i \in Imports |-> [m \in DOMAIN record[i] |-> Shown(record[i][m])]],
       trouble <- faults > 0

\* The store and the queue keep what ImportLifecycle promises, whatever fails,
\* stops or overtakes what: no attempt runs twice, none beside another, none is
\* complete that did not publish everything, none is rewritten.
ImplementsImportLifecycle == Lifecycle!Spec

\* Submit and Close: a queued attempt ends, however the worker's sleep and the
\* submits interleave, unless the service stops first; and a service that stops
\* gets the worker to stop too.
EachIsServedOrStopped ==
  /\ \A i \in Imports :
       (i \in Range(items)) ~> (boot # "up" \/ ctxDone \/ ~Unended(i) \/ faults > 1)
  /\ ctxDone ~> (worker = "stopped" \/ boot # "up")
=============================================================================
