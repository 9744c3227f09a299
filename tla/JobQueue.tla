------------------------------ MODULE JobQueue ------------------------------
(***************************************************************************)
(* jobs.Queue (internal/jobs/queue.go): one worker goroutine runs the      *)
(* submitted jobs one at a time, in submission order, while any number of  *)
(* HTTP handlers submit and cancel and the main goroutine closes.          *)
(*                                                                         *)
(* An action is one critical section of q.mu, or one call made outside it. *)
(* The finalize hook and the "end" event are what the queue promises its   *)
(* callers, so both are counted per job in history variables.              *)
(***************************************************************************)
EXTENDS Naturals, SequencesExt

CONSTANTS Jobs,   \* the Job values callers may submit, each at most once
          NoJob   \* q.current == nil

ASSUME NoJobAssumption == NoJob \notin Jobs

VARIABLES
  pending,          \* q.pending
  current,          \* q.current, which is nil exactly when q.cancelCurrent is
  closed,           \* q.closed
  cancelRequested,  \* q.cancelRequested
  nextID,           \* q.nextID
  id,               \* id[j]: the number in j's queue id, 0 before Submit
  worker,           \* where the worker goroutine is in run()
  err,              \* run()'s local err, what job.Run returned
  state,            \* run()'s local state, the verdict on the current job
  ctxDone,          \* the jobs whose context is cancelled
  firing,           \* jobs whose cancel() a caller read under q.mu and has yet to call
  dropping,         \* dropping[j]: where the Cancel that took j off the queue is
  asked,            \* history: jobs a Cancel call found
  runs,             \* history: runs[j] counts calls of j.Run
  hooks, verdict,   \* history: calls of the finalize hook for j, and the state they gave
  ends, endState    \* history: "end" events of j, and the state they carry

callVars == <<firing, dropping, asked>>
workVars == <<worker, err, state, ctxDone, runs>>
toldVars == <<hooks, verdict, ends, endState>>
lockVars == <<pending, current, closed, cancelRequested, nextID, id>>
queueVars == <<lockVars, workVars, callVars, toldVars>>

Terminal == {"done", "failed", "cancelled"}
NoState == "none"

\* What Run can return: nil, an error that wraps context.Canceled, or any
\* other error. A panic is recovered into one of the last kind.
Errors == {"nil", "canceled", "error"}

QueueInit ==
  /\ pending = <<>> /\ current = NoJob /\ closed = FALSE
  /\ cancelRequested = FALSE /\ nextID = 0 /\ id = [j \in Jobs |-> 0]
  /\ worker = "waiting" /\ err = "nil" /\ state = NoState
  /\ ctxDone = {} /\ firing = {} /\ dropping = [j \in Jobs |-> "no"]
  /\ asked = {} /\ runs = [j \in Jobs |-> 0]
  /\ hooks = [j \in Jobs |-> 0] /\ verdict = [j \in Jobs |-> NoState]
  /\ ends = [j \in Jobs |-> 0] /\ endState = [j \in Jobs |-> NoState]

-----------------------------------------------------------------------------
(* What a caller sees happen: the hook is called, the "end" event goes out *)

CallHook(j, s) ==
  /\ hooks' = [hooks EXCEPT ![j] = @ + 1]
  /\ verdict' = [verdict EXCEPT ![j] = s]
  /\ UNCHANGED <<ends, endState>>

EmitEnd(j, s) ==
  /\ ends' = [ends EXCEPT ![j] = @ + 1]
  /\ endState' = [endState EXCEPT ![j] = s]
  /\ UNCHANGED <<hooks, verdict>>

-----------------------------------------------------------------------------
(* Callers *)

\* SubmitWith: refused once closed, otherwise numbered and appended.
Submit(j) ==
  /\ ~closed /\ id[j] = 0
  /\ nextID' = nextID + 1
  /\ id' = [id EXCEPT ![j] = nextID + 1]
  /\ pending' = Append(pending, j)
  /\ UNCHANGED <<current, closed, cancelRequested, workVars, callVars, toldVars>>

\* Seeded fault: the context is never cancelled.
CancelRunningUnfired(j) ==
  /\ current = j /\ cancelRequested' = TRUE /\ asked' = asked \cup {j}
  /\ UNCHANGED <<pending, current, closed, nextID, id, workVars, firing, dropping, toldVars>>

\* Cancel of the running job: the flag is set under the lock, cancel() is
\* called after the unlock.
CancelRunning(j) ==
  /\ current = j
  /\ cancelRequested' = TRUE
  /\ firing' = firing \cup {j}
  /\ asked' = asked \cup {j}
  /\ UNCHANGED <<pending, current, closed, nextID, id, workVars, dropping, toldVars>>

FireCancel(j) ==
  /\ j \in firing
  /\ firing' = firing \ {j}
  /\ ctxDone' = ctxDone \cup {j}
  /\ UNCHANGED <<lockVars, worker, err, state, runs, dropping, asked, toldVars>>

\* Cancel of a queued job: it leaves the queue under the lock; the caller's
\* own goroutine then runs publishCancelled.
CancelQueued(j) ==
  /\ current # j
  /\ \E i \in DOMAIN pending :
       pending[i] = j /\ pending' = RemoveAt(pending, i)
  /\ dropping' = [dropping EXCEPT ![j] = "hook"]
  /\ asked' = asked \cup {j}
  /\ UNCHANGED <<current, closed, cancelRequested, nextID, id, workVars, firing, toldVars>>

DropHook(j) ==
  /\ dropping[j] = "hook"
  /\ dropping' = [dropping EXCEPT ![j] = "ending"]
  /\ CallHook(j, "cancelled")
  /\ UNCHANGED <<lockVars, workVars, firing, asked>>

DropEnd(j) ==
  /\ dropping[j] = "ending"
  /\ dropping' = [dropping EXCEPT ![j] = "gone"]
  /\ EmitEnd(j, "cancelled")
  /\ UNCHANGED <<lockVars, workVars, firing, asked>>

\* Seeded fault: the running job is left alone.
CloseUnfired ==
  /\ ~closed /\ closed' = TRUE /\ pending' = <<>>
  /\ UNCHANGED <<current, cancelRequested, nextID, id, workVars, callVars, toldVars>>

\* Close empties the queue and, past the unlock, cancels the running job. It
\* does not set cancelRequested.
Close ==
  /\ ~closed
  /\ closed' = TRUE
  /\ pending' = <<>>
  /\ firing' = IF current = NoJob THEN firing ELSE firing \cup {current}
  /\ UNCHANGED <<current, cancelRequested, nextID, id, workVars, dropping, asked, toldVars>>

-----------------------------------------------------------------------------
(* The worker goroutine *)

Pick ==
  /\ worker = "waiting" /\ pending # <<>>
  /\ current' = Head(pending)
  /\ pending' = Tail(pending)
  /\ cancelRequested' = FALSE
  /\ worker' = "running"
  /\ runs' = [runs EXCEPT ![Head(pending)] = @ + 1]
  /\ UNCHANGED <<closed, nextID, id, err, state, ctxDone, callVars, toldVars>>

\* Seeded fault: an empty queue is enough to stop.
StopWhenIdle ==
  /\ worker = "waiting" /\ pending = <<>>
  /\ worker' = "stopped"
  /\ UNCHANGED <<lockVars, err, state, ctxDone, runs, callVars, toldVars>>

Stop ==
  /\ worker = "waiting" /\ pending = <<>> /\ closed
  /\ worker' = "stopped"
  /\ UNCHANGED <<lockVars, err, state, ctxDone, runs, callVars, toldVars>>

\* runJob returns e; the worker then releases the job's context.
RunReturns(e) ==
  /\ worker = "running"
  /\ err' = e
  /\ ctxDone' = ctxDone \cup {current}
  /\ worker' = "returned"
  /\ UNCHANGED <<lockVars, state, runs, callVars, toldVars>>

\* Seeded fault: any cancelled context makes the job cancelled.
VerdictOfRun(e) ==
  IF e = "canceled" THEN "cancelled" ELSE IF e # "nil" THEN "failed" ELSE "done"

\* The job ends cancelled only when somebody asked and Run says so.
Verdict(e) ==
  IF cancelRequested /\ e = "canceled" THEN "cancelled"
  ELSE IF e # "nil" THEN "failed" ELSE "done"

Judge ==
  /\ worker = "returned"
  /\ state' = Verdict(err)
  /\ worker' = "hook"
  /\ UNCHANGED <<lockVars, err, ctxDone, runs, callVars, toldVars>>

RunFinalizer ==
  /\ worker = "hook"
  /\ CallHook(current, state)
  /\ worker' = "ending"
  /\ UNCHANGED <<lockVars, err, state, ctxDone, runs, callVars>>

\* Seeded fault: the queue keeps the job it is done with.
PublishEndStillCurrent ==
  /\ worker = "ending"
  /\ EmitEnd(current, state) /\ worker' = "waiting"
  /\ UNCHANGED <<lockVars, err, state, ctxDone, runs, callVars>>

PublishEnd ==
  /\ worker = "ending"
  /\ EmitEnd(current, state)
  /\ current' = NoJob
  /\ worker' = "waiting"
  /\ UNCHANGED <<pending, closed, cancelRequested, nextID, id, err, state, ctxDone, runs, callVars>>

-----------------------------------------------------------------------------

Worker ==
  Pick \/ Stop \/ (\E e \in Errors : RunReturns(e)) \/ Judge \/ RunFinalizer \/ PublishEnd

Callers ==
  \/ Close
  \/ \E j \in Jobs : \/ Submit(j) \/ CancelRunning(j) \/ FireCancel(j)
                     \/ CancelQueued(j) \/ DropHook(j) \/ DropEnd(j)

QueueNext == Worker \/ Callers

QueueSpec == QueueInit /\ [][QueueNext]_queueVars

\* "Run must return once ctx is done". A job whose context lives may run for
\* ever.
RunObeysContext == current \in ctxDone /\ \E e \in Errors : RunReturns(e)

-----------------------------------------------------------------------------
(* Properties *)

\* Every variable keeps to its type, and the worker holds a job exactly while
\* it is between Pick and PublishEnd.
TypeOK ==
  /\ pending \in Seq(Jobs) /\ current \in Jobs \cup {NoJob}
  /\ closed \in BOOLEAN /\ cancelRequested \in BOOLEAN
  /\ nextID \in Nat /\ id \in [Jobs -> Nat]
  /\ worker \in {"waiting", "running", "returned", "hook", "ending", "stopped"}
  /\ (current = NoJob) <=> (worker \in {"waiting", "stopped"})
  /\ err \in Errors /\ state \in Terminal \cup {NoState}
  /\ ctxDone \subseteq Jobs /\ firing \subseteq Jobs /\ asked \subseteq Jobs
  /\ dropping \in [Jobs -> {"no", "hook", "ending", "gone"}]
  /\ runs \in [Jobs -> Nat] /\ hooks \in [Jobs -> Nat] /\ ends \in [Jobs -> Nat]
  /\ verdict \in [Jobs -> Terminal \cup {NoState}]
  /\ endState \in [Jobs -> Terminal \cup {NoState}]

\* "Runs Job values one at a time, in submission order" (Queue): a job that
\* has started was submitted before every job still waiting, whatever was
\* cancelled out of the middle of the queue, and no job starts twice.
InSubmissionOrder ==
  /\ \A j \in Jobs, k \in Range(pending) : runs[j] > 0 => id[j] < id[k]
  /\ \A j \in Jobs : runs[j] <= 1

\* Cancel "drops a queued one before it starts": a job taken off the queue
\* never runs, though the worker may pick at any moment around the Cancel.
DroppedNeverRuns == \A j \in Jobs : dropping[j] # "no" => runs[j] = 0

\* SetFinalizer, publishCancelled: at most one verdict and one "end" event per
\* job, never an end before the hook, and the end carries the state the hook
\* was given, whichever goroutine, the worker's or a caller's, delivers them.
OneVerdict ==
  \A j \in Jobs : /\ hooks[j] <= 1 /\ ends[j] <= hooks[j]
                  /\ ends[j] = 1 => endState[j] = verdict[j]

\* "Tying the state to what Run actually did": a job ends cancelled only when
\* somebody cancelled that very job, not the one before it, and not Close.
CancelledOnlyWhenAsked ==
  \A j \in Jobs : verdict[j] = "cancelled" => j \in asked

\* Cancel: "nothing else ever tells a caller that job is done", so every
\* cancelled job, queued or running, gets its "end" event.
CancelTakesEffect == \A j \in Jobs : (j \in asked) ~> (ends[j] > 0)

\* Close: "drains every queued job, cancels the running one, and waits for the
\* worker to stop", which it therefore must.
CloseStops == closed ~> (worker = "stopped")

\* Submit: j runs "once every earlier job has finished". Unless the queue is
\* closed first or a job that started never returns, a submitted job ends.
EveryJobIsServed ==
  \A j \in Jobs :
    (id[j] > 0) ~> (ends[j] > 0 \/ closed \/ [](worker = "running"))

\* The queue implements the life cycle the rest of the server relies on.
Phase(j) ==
  IF hooks[j] > 0 THEN verdict[j]
  ELSE IF id[j] = 0 THEN "new"
  ELSE IF j = current THEN "running"
  ELSE IF dropping[j] # "no" THEN "withdrawn"
  ELSE IF j \in Range(pending) THEN "queued"
  ELSE "abandoned"

Lifecycle == INSTANCE JobLifecycle
               WITH line <- pending, phase <- [j \in Jobs |-> Phase(j)], shut <- closed

ImplementsLifecycle == Lifecycle!Spec
=============================================================================
