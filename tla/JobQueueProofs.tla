--------------------------- MODULE JobQueueProofs ---------------------------
(***************************************************************************)
(* Proofs about JobQueue, and about EventStream over it, for any set of    *)
(* jobs and clients.  The inductive invariant IInv says where a job can    *)
(* be: waiting in id order and untouched, with the worker, with the caller *)
(* that took it off the queue, or over.  StreamInv adds where an event can *)
(* be: in the history, in a client's channel, or seen.                     *)
(***************************************************************************)
EXTENDS EventStream, FiniteSetTheorems, TLAPS

\* The queue holds ids in increasing order, hence no job twice.
SortedInv ==
  \A a, b \in DOMAIN pending : a < b => id[pending[a]] < id[pending[b]]

\* Nothing has happened yet to a job that waits, ...
WaitingInv ==
  \A a \in DOMAIN pending :
    LET k == pending[a]
    IN /\ id[k] > 0 /\ k # current /\ dropping[k] = "no"
       /\ runs[k] = 0 /\ hooks[k] = 0 /\ ends[k] = 0

\* ... nor to one that was never submitted.
FreshInv ==
  \A j \in Jobs :
    /\ id[j] <= nextID
    /\ id[j] = 0 => /\ j # current /\ dropping[j] = "no"
                    /\ runs[j] = 0 /\ hooks[j] = 0 /\ ends[j] = 0

\* A job that started is ahead of those that wait, and starts once.
StartedInv ==
  \A j \in Jobs :
    /\ runs[j] <= 1
    /\ runs[j] > 0 => \A a \in DOMAIN pending : id[j] < id[pending[a]]

\* The worker's local state against what the outside has been told.
WorkerInv ==
  current # NoJob =>
    /\ runs[current] = 1 /\ dropping[current] = "no" /\ ends[current] = 0
    /\ hooks[current] = IF worker = "ending" THEN 1 ELSE 0
    /\ worker = "ending" => verdict[current] = state
    /\ worker \in {"hook", "ending"} => state \in Terminal

\* What the outside has been told of a job the worker does not hold.
ToldInv ==
  \A j \in Jobs :
    /\ hooks[j] > 0 => verdict[j] \in Terminal
    /\ dropping[j] # "no" => runs[j] = 0 /\ id[j] > 0
    /\ dropping[j] = "hook" => hooks[j] = 0 /\ ends[j] = 0
    /\ dropping[j] = "ending" => /\ hooks[j] = 1 /\ ends[j] = 0
                                 /\ verdict[j] = "cancelled"
    /\ dropping[j] = "gone" => hooks[j] = 1 /\ ends[j] = 1
    /\ dropping[j] = "no" /\ j # current => hooks[j] = ends[j] /\ hooks[j] <= 1
    /\ ends[j] > 0 => endState[j] = verdict[j]

\* Every path to the verdict "cancelled" starts with a Cancel of that job.
AskedInv ==
  /\ \A j \in Jobs : dropping[j] # "no" \/ verdict[j] = "cancelled" => j \in asked
  /\ current # NoJob /\ cancelRequested => current \in asked
  /\ worker \in {"hook", "ending"} /\ state = "cancelled" => current \in asked

IInv == /\ TypeOK /\ SortedInv /\ WaitingInv /\ FreshInv /\ StartedInv
        /\ WorkerInv /\ ToldInv /\ AskedInv

-----------------------------------------------------------------------------
(* Sequences: what the three ways of changing the queue do to its elements *)

LEMMA AppendFact ==
  ASSUME NEW S, NEW s \in Seq(S), NEW e \in S
  PROVE  /\ Append(s, e) \in Seq(S)
         /\ DOMAIN Append(s, e) = DOMAIN s \cup {Len(s) + 1}
         /\ \A a \in DOMAIN s : Append(s, e)[a] = s[a]
         /\ Append(s, e)[Len(s) + 1] = e
         /\ DOMAIN s = 1..Len(s) /\ Len(s) \in Nat
  OBVIOUS

LEMMA TailFact ==
  ASSUME NEW S, NEW s \in Seq(S), s # <<>>
  PROVE  /\ Head(s) \in S /\ Head(s) = s[1] /\ 1 \in DOMAIN s
         /\ Tail(s) \in Seq(S)
         /\ \A a \in DOMAIN Tail(s) :
              /\ a \in Nat /\ a + 1 \in DOMAIN s /\ a + 1 > 1
              /\ Tail(s)[a] = s[a + 1]
         /\ \A a \in DOMAIN s : a # 1 => a - 1 \in DOMAIN Tail(s)
  OBVIOUS

LEMMA RemoveAtFact ==
  ASSUME NEW S, NEW s \in Seq(S), NEW i \in DOMAIN s
  PROVE  /\ RemoveAt(s, i) \in Seq(S)
         /\ DOMAIN RemoveAt(s, i) = 1..(Len(s) - 1)
         /\ \A a \in 1..(Len(s) - 1) :
              RemoveAt(s, i)[a] = IF a < i THEN s[a] ELSE s[a + 1]
         /\ DOMAIN s = 1..Len(s) /\ Len(s) \in Nat /\ i \in Nat
  <1>1. i \in 1..Len(s) /\ Len(s) \in Nat
    OBVIOUS
  <1> DEFINE p == SubSeq(s, 1, i - 1)
             q == SubSeq(s, i + 1, Len(s))
  <1>2. p \in Seq(S) /\ Len(p) = i - 1 /\ \A a \in 1..(i - 1) : p[a] = s[a]
    BY <1>1
  <1>3. /\ q \in Seq(S) /\ Len(q) = Len(s) - i
        /\ \A a \in 1..(Len(s) - i) : q[a] = s[i + a]
    BY <1>1
  <1>4. /\ p \o q \in Seq(S) /\ Len(p \o q) = Len(s) - 1
        /\ \A a \in 1..(Len(s) - 1) :
             (p \o q)[a] = IF a <= i - 1 THEN p[a] ELSE q[a - (i - 1)]
    <2> HIDE DEF p, q
    <2> QED  BY SMTT(20), <1>1, <1>2, <1>3
  <1>5. RemoveAt(s, i) = p \o q
    BY DEF RemoveAt
  <1>6. ASSUME NEW a \in 1..(Len(s) - 1)
        PROVE  (p \o q)[a] = IF a < i THEN s[a] ELSE s[a + 1]
    <2> HIDE DEF p, q
    <2>1. CASE a < i
      BY <2>1, <1>1, <1>2, <1>4
    <2>2. CASE ~(a < i)
      <3>1. a - (i - 1) \in 1..(Len(s) - i) /\ i + (a - (i - 1)) = a + 1
        BY <2>2, <1>1
      <3> QED  BY SMTT(20), <2>2, <3>1, <1>1, <1>3, <1>4
    <2> QED  BY <2>1, <2>2
  <1> HIDE DEF p, q
  <1> QED  BY <1>1, <1>4, <1>5, <1>6

-----------------------------------------------------------------------------
(* The inductive invariant *)

LEMMA InitInv == QueueInit => IInv
  <1> SUFFICES ASSUME QueueInit PROVE IInv
    OBVIOUS
  <1> USE DEF QueueInit, NoState, Terminal
  <1>1. TypeOK
    <2>1. pending \in Seq(Jobs) /\ (current = NoJob <=> worker \in {"waiting", "stopped"})
      OBVIOUS
    <2> QED  BY <2>1 DEF TypeOK, Errors
  <1>2. SortedInv /\ WaitingInv /\ FreshInv /\ StartedInv
    BY NoJobAssumption DEF SortedInv, WaitingInv, FreshInv, StartedInv
  <1>3. WorkerInv /\ ToldInv /\ AskedInv
    BY DEF WorkerInv, ToldInv, AskedInv
  <1> QED  BY <1>1, <1>2, <1>3 DEF IInv

LEMMA StepInv == IInv /\ [QueueNext]_queueVars => IInv'
  <1> SUFFICES ASSUME IInv, [QueueNext]_queueVars PROVE IInv'
    OBVIOUS
  <1> USE NoJobAssumption DEF IInv, lockVars, callVars, workVars, toldVars
  <1>0. pending \in Seq(Jobs)
    BY DEF TypeOK
  <1>1. ASSUME NEW j \in Jobs, Submit(j) PROVE IInv'
    <2> USE <1>1 DEF Submit
    <2>1. TypeOK'
      <3>1. pending' \in Seq(Jobs)
        BY <1>0, AppendFact
      <3> QED  BY <3>1 DEF TypeOK
    <2>2. \A a \in DOMAIN pending : pending[a] # j /\ pending[a] \in Jobs /\ a <= Len(pending)
      BY <1>0 DEF WaitingInv
    <2> DEFINE n == Len(pending) + 1
    <2>3. /\ DOMAIN pending' = DOMAIN pending \cup {n} /\ pending'[n] = j
          /\ \A a \in DOMAIN pending : pending'[a] = pending[a] /\ a \in Nat /\ a < n
          /\ n \in Nat
      BY <1>0, AppendFact
    <2> HIDE DEF n
    <2>4. /\ id'[j] = nextID + 1 /\ nextID' = nextID + 1 /\ nextID \in Nat
          /\ \A k \in Jobs : k # j => id'[k] = id[k]
          /\ \A k \in Jobs : id[k] \in Nat /\ id[k] <= nextID
          /\ j # current /\ dropping[j] = "no" /\ runs[j] = 0 /\ hooks[j] = 0 /\ ends[j] = 0
      BY DEF TypeOK, FreshInv
    <2>5. SortedInv'
      BY <2>2, <2>3, <2>4 DEF SortedInv
    <2>6. WaitingInv'
      BY <2>2, <2>3, <2>4 DEF WaitingInv
    <2>7. FreshInv' /\ StartedInv'
      <3>1. FreshInv'
        BY <2>4 DEF FreshInv
      <3>2. ASSUME NEW k \in Jobs
            PROVE  /\ runs'[k] <= 1
                   /\ runs'[k] > 0 => \A a \in DOMAIN pending' : id'[k] < id'[pending'[a]]
        BY <2>2, <2>3, <2>4 DEF StartedInv
      <3>3. StartedInv'
        BY <3>2 DEF StartedInv
      <3> QED  BY <3>1, <3>3
    <2>8. WorkerInv' /\ AskedInv'
      BY DEF WorkerInv, AskedInv
    <2>9. ToldInv'
      BY <2>4 DEF ToldInv
    <2> QED  BY <2>1, <2>5, <2>6, <2>7, <2>8, <2>9
  <1>2. ASSUME NEW j \in Jobs, CancelQueued(j) PROVE IInv'
    <2> USE <1>2 DEF CancelQueued
    <2>1. PICK i \in DOMAIN pending : pending[i] = j /\ pending' = RemoveAt(pending, i)
      OBVIOUS
    <2>2. pending' \in Seq(Jobs)
      BY <1>0, <2>1, RemoveAtFact
    <2> DEFINE from(a) == IF a < i THEN a ELSE a + 1
    <2>3. /\ i \in Nat
          /\ \A a \in DOMAIN pending' :
               /\ a \in Nat /\ from(a) \in DOMAIN pending /\ from(a) # i
               /\ from(a) \in Nat /\ pending'[a] = pending[from(a)]
          /\ \A a, b \in DOMAIN pending' : a < b => from(a) < from(b)
      <3>1. /\ DOMAIN pending = 1..Len(pending) /\ Len(pending) \in Nat /\ i \in Nat
            /\ DOMAIN pending' = 1..(Len(pending) - 1)
            /\ \A a \in 1..(Len(pending) - 1) : pending'[a] = pending[from(a)]
        <4>1. \A a \in 1..(Len(pending) - 1) :
                pending'[a] = IF a < i THEN pending[a] ELSE pending[a + 1]
          BY <1>0, <2>1, RemoveAtFact
        <4> QED  BY <1>0, <2>1, <4>1, RemoveAtFact
      <3> QED  BY <3>1
    <2>4. \A a \in DOMAIN pending : pending[a] \in Jobs /\ a \in Nat
      BY <1>0
    <2>5. \A a \in DOMAIN pending' : pending'[a] # j
      <3> SUFFICES ASSUME NEW a \in DOMAIN pending', pending'[a] = j PROVE FALSE
        OBVIOUS
      <3>1. from(a) < i \/ i < from(a)
        BY <2>3
      <3>2. from(a) \in DOMAIN pending /\ pending[from(a)] = j
        BY <2>3
      <3>3. id[j] < id[j]
        BY <3>1, <3>2, <2>1 DEF SortedInv
      <3> QED  BY <3>3 DEF TypeOK
    <2>6. TypeOK'
      BY <2>2 DEF TypeOK
    <2>7. SortedInv'
      BY <2>3 DEF SortedInv
    <2>8. WaitingInv'
      <3> SUFFICES ASSUME NEW a \in DOMAIN pending'
                   PROVE  LET k == pending'[a]
                          IN /\ id[k] > 0 /\ k # current /\ dropping'[k] = "no"
                             /\ runs[k] = 0 /\ hooks[k] = 0 /\ ends[k] = 0
        BY DEF WaitingInv
      <3>1. from(a) \in DOMAIN pending /\ pending'[a] = pending[from(a)] /\ pending'[a] # j
        BY <2>3, <2>5
      <3> QED  BY <3>1, <2>4 DEF WaitingInv, TypeOK
    <2>9. FreshInv' /\ StartedInv'
      <3>1. FreshInv'
        BY <2>1 DEF FreshInv, WaitingInv, TypeOK
      <3>2. StartedInv'
        BY <2>3 DEF StartedInv
      <3> QED  BY <3>1, <3>2
    <2>10. WorkerInv' /\ ToldInv' /\ AskedInv'
      <3>1. WorkerInv'
        BY <2>1 DEF WorkerInv, WaitingInv, TypeOK
      <3>2. ToldInv'
        <4>1. dropping'[j] = "hook" /\ \A k \in Jobs : k # j => dropping'[k] = dropping[k]
          BY DEF TypeOK
        <4>2. runs[j] = 0 /\ id[j] > 0 /\ hooks[j] = 0 /\ ends[j] = 0
          BY <2>1 DEF WaitingInv
        <4> QED  BY <4>1, <4>2 DEF ToldInv
      <3>3. AskedInv'
        BY <2>1 DEF AskedInv, TypeOK
      <3> QED  BY <3>1, <3>2, <3>3
    <2> QED  BY <2>6, <2>7, <2>8, <2>9, <2>10
  <1>3. CASE Pick
    <2>1. PICK h \in Jobs : h = Head(pending) /\ h = pending[1] /\ 1 \in DOMAIN pending
      BY <1>0, <1>3, TailFact DEF Pick
    <2>2. /\ pending' \in Seq(Jobs)
          /\ \A a \in DOMAIN pending' :
               /\ a \in Nat /\ a + 1 \in DOMAIN pending /\ a + 1 > 1
               /\ pending'[a] = pending[a + 1] /\ pending[a + 1] \in Jobs
      BY <1>0, <1>3, TailFact DEF Pick
    <2>3. /\ worker = "waiting" /\ worker' = "running"
          /\ current' = h /\ h # NoJob /\ cancelRequested' = FALSE
          /\ runs' = [runs EXCEPT ![h] = @ + 1]
          /\ UNCHANGED <<closed, nextID, id, err, state, ctxDone, callVars, toldVars>>
      BY <1>3, <2>1 DEF Pick
    <2>4. /\ id[h] > 0 /\ dropping[h] = "no" /\ current = NoJob
          /\ runs[h] = 0 /\ hooks[h] = 0 /\ ends[h] = 0
      BY <2>1, <2>3 DEF WaitingInv, TypeOK
    <2>5. TypeOK'
      <3>1. current' \in Jobs \cup {NoJob} /\ cancelRequested' \in BOOLEAN
        BY <2>3
      <3>2. current' = NoJob <=> worker' \in {"waiting", "stopped"}
        BY <2>3
      <3>3. runs' \in [Jobs -> Nat]
        BY <2>3 DEF TypeOK
      <3> QED  BY <2>2, <2>3, <3>1, <3>2, <3>3 DEF TypeOK
    <2>6. \A a \in DOMAIN pending' : id[h] < id[pending'[a]]
      BY <2>1, <2>2 DEF SortedInv
    <2>7. SortedInv'
      BY <2>2, <2>3 DEF SortedInv
    <2>8. WaitingInv'
      BY <2>2, <2>3, <2>6 DEF WaitingInv, TypeOK
    <2>9. FreshInv' /\ StartedInv'
      BY <2>2, <2>3, <2>4, <2>6 DEF FreshInv, StartedInv, TypeOK
    <2>10. WorkerInv' /\ ToldInv' /\ AskedInv'
      BY <2>3, <2>4 DEF WorkerInv, ToldInv, AskedInv, TypeOK
    <2> QED  BY <2>5, <2>7, <2>8, <2>9, <2>10
  <1>4. ASSUME NEW j \in Jobs, CancelRunning(j) PROVE IInv'
    <2> USE <1>4 DEF CancelRunning
    <2>1. TypeOK'
      BY DEF TypeOK
    <2>2. SortedInv' /\ WaitingInv' /\ FreshInv' /\ StartedInv'
      BY DEF SortedInv, WaitingInv, FreshInv, StartedInv, WorkerInv, ToldInv, TypeOK
    <2>3. WorkerInv' /\ ToldInv' /\ AskedInv'
      BY DEF WorkerInv, ToldInv, AskedInv, TypeOK
    <2> QED  BY <2>1, <2>2, <2>3
  <1>5. ASSUME NEW j \in Jobs, FireCancel(j) PROVE IInv'
    <2> USE <1>5 DEF FireCancel
    <2>1. TypeOK'
      BY DEF TypeOK
    <2>2. SortedInv' /\ WaitingInv' /\ FreshInv' /\ StartedInv'
      BY DEF SortedInv, WaitingInv, FreshInv, StartedInv, WorkerInv, ToldInv, TypeOK
    <2>3. WorkerInv' /\ ToldInv' /\ AskedInv'
      BY DEF WorkerInv, ToldInv, AskedInv, TypeOK
    <2> QED  BY <2>1, <2>2, <2>3
  <1>6. ASSUME NEW j \in Jobs, DropHook(j) PROVE IInv'
    <2> USE <1>6 DEF DropHook, CallHook
    <2>1. TypeOK'
      BY DEF TypeOK, Terminal
    <2>2. SortedInv' /\ WaitingInv' /\ FreshInv' /\ StartedInv'
      BY DEF SortedInv, WaitingInv, FreshInv, StartedInv, WorkerInv, ToldInv, TypeOK, Terminal
    <2>3. WorkerInv' /\ ToldInv' /\ AskedInv'
      BY DEF WorkerInv, ToldInv, AskedInv, TypeOK, Terminal
    <2> QED  BY <2>1, <2>2, <2>3
  <1>7. ASSUME NEW j \in Jobs, DropEnd(j) PROVE IInv'
    <2> USE <1>7 DEF DropEnd, EmitEnd
    <2>1. TypeOK'
      <3>1. /\ dropping' \in [Jobs -> {"no", "hook", "ending", "gone"}]
            /\ ends' \in [Jobs -> Nat] /\ endState' \in [Jobs -> Terminal \cup {NoState}]
        BY DEF TypeOK, Terminal
      <3> QED  BY <3>1 DEF TypeOK, lockVars, workVars
    <2>2. SortedInv' /\ StartedInv'
      BY DEF SortedInv, StartedInv, WorkerInv, ToldInv, TypeOK, Terminal
    <2>4. WaitingInv' /\ FreshInv'
      <3>1. \A a \in DOMAIN pending : pending[a] # j
        BY DEF WaitingInv
      <3>2. WaitingInv'
        BY <3>1 DEF WaitingInv, TypeOK
      <3>3. FreshInv'
        BY DEF FreshInv, TypeOK
      <3> QED  BY <3>2, <3>3
    <2>3. WorkerInv' /\ ToldInv' /\ AskedInv'
      BY DEF WorkerInv, ToldInv, AskedInv, TypeOK, Terminal
    <2> QED  BY <2>1, <2>2, <2>3, <2>4
  <1>8. CASE Close
    <2> USE <1>8 DEF Close
    <2>1. TypeOK'
      BY DEF TypeOK
    <2>2. SortedInv' /\ WaitingInv' /\ FreshInv' /\ StartedInv'
      BY DEF SortedInv, WaitingInv, FreshInv, StartedInv, WorkerInv, ToldInv, TypeOK
    <2>3. WorkerInv' /\ ToldInv' /\ AskedInv'
      BY DEF WorkerInv, ToldInv, AskedInv, TypeOK
    <2> QED  BY <2>1, <2>2, <2>3
  <1>9. CASE Stop
    <2> USE <1>9 DEF Stop
    <2>1. TypeOK'
      BY DEF TypeOK
    <2>2. SortedInv' /\ WaitingInv' /\ FreshInv' /\ StartedInv'
      BY DEF SortedInv, WaitingInv, FreshInv, StartedInv, WorkerInv, ToldInv, TypeOK
    <2>3. WorkerInv' /\ ToldInv' /\ AskedInv'
      BY DEF WorkerInv, ToldInv, AskedInv, TypeOK
    <2> QED  BY <2>1, <2>2, <2>3
  <1>10. ASSUME NEW e \in Errors, RunReturns(e) PROVE IInv'
    <2> USE <1>10 DEF RunReturns
    <2>1. TypeOK'
      BY DEF TypeOK
    <2>2. SortedInv' /\ WaitingInv' /\ FreshInv' /\ StartedInv'
      BY DEF SortedInv, WaitingInv, FreshInv, StartedInv, WorkerInv, ToldInv, TypeOK
    <2>3. WorkerInv' /\ ToldInv' /\ AskedInv'
      BY DEF WorkerInv, ToldInv, AskedInv, TypeOK
    <2> QED  BY <2>1, <2>2, <2>3
  <1>11. CASE Judge
    <2> USE <1>11 DEF Judge, Verdict
    <2>1. TypeOK'
      BY DEF TypeOK, Terminal
    <2>2. SortedInv' /\ WaitingInv' /\ FreshInv' /\ StartedInv'
      BY DEF SortedInv, WaitingInv, FreshInv, StartedInv, WorkerInv, ToldInv, TypeOK, Terminal
    <2>3. WorkerInv' /\ ToldInv' /\ AskedInv'
      BY DEF WorkerInv, ToldInv, AskedInv, TypeOK, Terminal
    <2> QED  BY <2>1, <2>2, <2>3
  <1>12. CASE RunFinalizer
    <2> USE <1>12 DEF RunFinalizer, CallHook
    <2>1. TypeOK'
      BY DEF TypeOK, Terminal
    <2>2. SortedInv' /\ WaitingInv' /\ FreshInv' /\ StartedInv'
      BY DEF SortedInv, WaitingInv, FreshInv, StartedInv, WorkerInv, ToldInv, TypeOK, Terminal
    <2>3. WorkerInv' /\ ToldInv' /\ AskedInv'
      BY DEF WorkerInv, ToldInv, AskedInv, TypeOK, Terminal
    <2> QED  BY <2>1, <2>2, <2>3
  <1>13. CASE PublishEnd
    <2> USE <1>13 DEF PublishEnd, EmitEnd
    <2>1. TypeOK'
      BY DEF TypeOK, Terminal
    <2>2. SortedInv' /\ WaitingInv' /\ FreshInv' /\ StartedInv'
      BY DEF SortedInv, WaitingInv, FreshInv, StartedInv, WorkerInv, ToldInv, TypeOK, Terminal
    <2>3. WorkerInv' /\ ToldInv' /\ AskedInv'
      BY DEF WorkerInv, ToldInv, AskedInv, TypeOK, Terminal
    <2> QED  BY <2>1, <2>2, <2>3
  <1>14. CASE UNCHANGED queueVars
    BY <1>14 DEF queueVars, TypeOK, SortedInv, WaitingInv, FreshInv, StartedInv,
                 WorkerInv, ToldInv, AskedInv
  <1> QED  BY <1>1, <1>2, <1>3, <1>4, <1>5, <1>6, <1>7, <1>8, <1>9, <1>10,
              <1>11, <1>12, <1>13, <1>14 DEF QueueNext, Worker, Callers

LEMMA Invariance == QueueSpec => []IInv
  BY InitInv, StepInv, PTL DEF QueueSpec

-----------------------------------------------------------------------------
(* The theorems *)

\* queue.go: every variable keeps to its type and the worker holds a job
\* exactly between taking it and publishing its end.
THEOREM TypeCorrect == QueueSpec => []TypeOK
  BY Invariance, PTL DEF IInv

\* SubmitWith, Cancel, run: whatever is cancelled out of the middle of the
\* queue, jobs start in submission order and at most once.
THEOREM SubmissionOrder == QueueSpec => []InSubmissionOrder
  <1>1. IInv => InSubmissionOrder
    BY DEF IInv, TypeOK, StartedInv, InSubmissionOrder, Range
  <1> QED  BY <1>1, Invariance, PTL

\* Cancel: a job taken off the queue never runs.
THEOREM DroppedJobs == QueueSpec => []DroppedNeverRuns
  <1>1. IInv => DroppedNeverRuns
    BY DEF IInv, ToldInv, DroppedNeverRuns
  <1> QED  BY <1>1, Invariance, PTL

\* run, publishCancelled: one verdict and one end per job, in that order and
\* with the same state.
THEOREM VerdictOnce == QueueSpec => []OneVerdict
  <1>1. ASSUME IInv, NEW j \in Jobs
        PROVE  /\ hooks[j] <= 1 /\ ends[j] <= hooks[j]
               /\ ends[j] = 1 => endState[j] = verdict[j]
    <2> USE <1>1 DEF IInv, TypeOK, ToldInv, WorkerInv
    <2>1. CASE j = current
      BY <2>1, NoJobAssumption
    <2>2. CASE j # current
      BY <2>2
    <2> QED  BY <2>1, <2>2
  <1>2. IInv => OneVerdict
    BY <1>1 DEF OneVerdict
  <1> QED  BY <1>2, Invariance, PTL

\* run's switch: the verdict "cancelled" needs a Cancel of that very job.
THEOREM CancelledWhenAsked == QueueSpec => []CancelledOnlyWhenAsked
  <1>1. IInv => CancelledOnlyWhenAsked
    BY DEF IInv, AskedInv, CancelledOnlyWhenAsked
  <1> QED  BY <1>1, Invariance, PTL

-----------------------------------------------------------------------------
(* Refinement *)

LEMMA InitRefines == QueueInit => Lifecycle!Init
  <1> SUFFICES ASSUME QueueInit PROVE Lifecycle!Init
    OBVIOUS
  <1>1. \A j \in Jobs : Phase(j) = "new"
    BY DEF QueueInit, Phase
  <1> QED  BY <1>1 DEF QueueInit, Lifecycle!Init

\* Phase as a table, and how one entry of it changes.
PhaseMap == [j \in Jobs |-> Phase(j)]

LEMMA PhaseChange ==
  ASSUME NEW j \in Jobs, NEW p, Phase(j)' = p,
         \A k \in Jobs : k # j => Phase(k)' = Phase(k)
  PROVE  PhaseMap' = [PhaseMap EXCEPT ![j] = p]
  BY DEF PhaseMap

LEMMA StepRefines ==
  IInv /\ IInv' /\ [QueueNext]_queueVars => [Lifecycle!Next]_(Lifecycle!vars)
  <1> SUFFICES ASSUME IInv, IInv', [QueueNext]_queueVars
               PROVE  Lifecycle!Next \/ UNCHANGED <<pending, PhaseMap, asked, closed>>
    BY DEF Lifecycle!vars, PhaseMap
  <1> USE NoJobAssumption DEF IInv, lockVars, callVars, workVars, toldVars
  <1>0. pending \in Seq(Jobs)
    BY DEF TypeOK
  <1>1. ASSUME NEW j \in Jobs, Submit(j) PROVE Lifecycle!Enqueue(j)
    <2>1. Range(pending') = Range(pending) \cup {j}
      BY <1>0, <1>1, AppendFact DEF Submit, Range
    <2>2. Phase(j) = "new" /\ Phase(j)' = "queued"
      BY <1>1, <2>1 DEF Submit, FreshInv, TypeOK, Phase
    <2>3. \A k \in Jobs : k # j => Phase(k)' = Phase(k)
      BY <1>1, <2>1 DEF Submit, TypeOK, Phase
    <2>4. PhaseMap' = [PhaseMap EXCEPT ![j] = "queued"]
      BY <2>2, <2>3, PhaseChange
    <2> QED  BY <1>1, <2>2, <2>4 DEF Submit, Lifecycle!Enqueue, PhaseMap
  <1>2. ASSUME NEW j \in Jobs, CancelRunning(j) PROVE Lifecycle!Ask(j)
    <2>1. Phase(j) \in {"running"} \cup Lifecycle!Settled
      BY <1>2 DEF CancelRunning, Phase, FreshInv, ToldInv, TypeOK, Terminal, Lifecycle!Settled
    <2>2. PhaseMap' = PhaseMap
      BY <1>2 DEF CancelRunning, PhaseMap, Phase
    <2> QED  BY <1>2, <2>1, <2>2 DEF CancelRunning, Lifecycle!Ask, PhaseMap
  <1>3. ASSUME NEW j \in Jobs, CancelQueued(j) PROVE Lifecycle!Withdraw(j)
    <2>1. PICK i \in DOMAIN pending : pending[i] = j /\ pending' = RemoveAt(pending, i)
      BY <1>3 DEF CancelQueued
    <2>2. \A k \in Jobs : k # j => (k \in Range(pending') <=> k \in Range(pending))
      <3>1. /\ DOMAIN pending = 1..Len(pending) /\ Len(pending) \in Nat /\ i \in Nat
            /\ DOMAIN pending' = 1..(Len(pending) - 1)
            /\ \A a \in 1..(Len(pending) - 1) :
                 pending'[a] = IF a < i THEN pending[a] ELSE pending[a + 1]
        BY <1>0, <2>1, RemoveAtFact
      <3>2. ASSUME NEW k \in Jobs, k # j, k \in Range(pending) PROVE k \in Range(pending')
        <4>1. PICK a \in DOMAIN pending : pending[a] = k
          BY <3>2 DEF Range
        <4>2. CASE a < i
          BY <3>1, <4>1, <4>2 DEF Range
        <4>3. CASE a > i
          <5>1. a - 1 \in DOMAIN pending' /\ ~(a - 1 < i) /\ (a - 1) + 1 = a
            BY <3>1, <4>3
          <5> QED  BY <3>1, <4>1, <5>1 DEF Range
        <4> QED  BY <2>1, <3>1, <3>2, <4>1, <4>2, <4>3
      <3>3. ASSUME NEW k \in Jobs, k \in Range(pending') PROVE k \in Range(pending)
        BY <3>1, <3>3 DEF Range
      <3> QED  BY <3>2, <3>3
    <2>3. Phase(j)' = "withdrawn"
      <3>1. id[j] > 0 /\ hooks[j] = 0
        BY <2>1 DEF WaitingInv
      <3> QED  BY <1>3, <3>1 DEF CancelQueued, Phase, TypeOK
    <2>4. \A k \in Jobs : k # j => Phase(k)' = Phase(k)
      BY <1>3, <2>2 DEF CancelQueued, Phase, TypeOK
    <2>5. PhaseMap' = [PhaseMap EXCEPT ![j] = "withdrawn"]
      BY <2>3, <2>4, PhaseChange
    <2>6. pending' = Lifecycle!RemoveAt(pending, i)
      BY <2>1 DEF RemoveAt, Lifecycle!RemoveAt
    <2> QED  BY <1>3, <2>1, <2>5, <2>6 DEF CancelQueued, Lifecycle!Withdraw, PhaseMap
  <1>4. ASSUME NEW j \in Jobs, DropHook(j) PROVE Lifecycle!Settle(j)
    <2>1. Phase(j) = "withdrawn"
      BY <1>4 DEF DropHook, Phase, ToldInv, WorkerInv
    <2>2. Phase(j)' = "cancelled"
      BY <1>4 DEF DropHook, CallHook, Phase, TypeOK
    <2>3. \A k \in Jobs : k # j => Phase(k)' = Phase(k)
      BY <1>4 DEF DropHook, CallHook, Phase, TypeOK
    <2>4. PhaseMap' = [PhaseMap EXCEPT ![j] = "cancelled"]
      BY <2>2, <2>3, PhaseChange
    <2> QED  BY <1>4, <2>1, <2>4 DEF DropHook, Lifecycle!Settle, PhaseMap
  <1>5. CASE Close /\ UNCHANGED toldVars
    <2>1. Range(pending') = {}
      BY <1>5 DEF Close, Range
    <2>2. \A k \in Jobs : Phase(k)' = IF Phase(k) = "queued" THEN "abandoned" ELSE Phase(k)
      <3> TAKE k \in Jobs
      <3>1. hooks[k] > 0 => verdict[k] # "queued"
        BY DEF ToldInv, Terminal
      <3> QED  BY <1>5, <2>1, <3>1 DEF Close, Phase
    <2>3. PhaseMap' = [k \in Jobs |-> IF PhaseMap[k] = "queued" THEN "abandoned" ELSE PhaseMap[k]]
      BY <2>2 DEF PhaseMap
    <2>4. /\ ~closed /\ closed' = TRUE /\ pending' = <<>> /\ UNCHANGED asked
      BY <1>5 DEF Close
    <2>5. Lifecycle!Shutdown
      BY <2>3, <2>4 DEF Lifecycle!Shutdown, PhaseMap
    <2> QED  BY <2>5 DEF Lifecycle!Next
  <1>6. CASE Pick
    <2>1. PICK h \in Jobs : h = Head(pending) /\ h = pending[1] /\ 1 \in DOMAIN pending
      BY <1>0, <1>6, TailFact DEF Pick
    <2>2. /\ pending # <<>> /\ pending' = Tail(pending) /\ current' = h
          /\ UNCHANGED <<closed, id, dropping, asked, hooks, verdict>>
      BY <1>6, <2>1 DEF Pick
    <2>3. /\ id[h] > 0 /\ dropping[h] = "no" /\ hooks[h] = 0 /\ current = NoJob
      BY <1>6, <2>1 DEF WaitingInv, Pick, TypeOK
    <2>4. \A k \in Jobs : k # h => (k \in Range(pending') <=> k \in Range(pending))
      <3>1. ASSUME NEW k \in Jobs, k # h, k \in Range(pending) PROVE k \in Range(pending')
        <4>1. PICK a \in DOMAIN pending : pending[a] = k
          BY <3>1 DEF Range
        <4>2. a - 1 \in DOMAIN Tail(pending) /\ a - 1 + 1 = a
          BY <1>0, <2>1, <2>2, <3>1, <4>1
        <4>3. Tail(pending)[a - 1] = k
          BY <1>0, <2>2, <4>1, <4>2, TailFact
        <4> QED  BY <2>2, <4>2, <4>3 DEF Range
      <3>2. ASSUME NEW k \in Jobs, k \in Range(pending') PROVE k \in Range(pending)
        BY <1>0, <2>2, <3>2, TailFact DEF Range
      <3> QED  BY <3>1, <3>2
    <2>5. Phase(h)' = "running"
      BY <2>2, <2>3 DEF Phase
    <2>6. \A k \in Jobs : k # h => Phase(k)' = Phase(k)
      BY <2>2, <2>3, <2>4 DEF Phase
    <2>7. PhaseMap' = [PhaseMap EXCEPT ![h] = "running"]
      BY <2>5, <2>6, PhaseChange
    <2>8. \A k \in Jobs : Phase(k) # "running"
      <3> TAKE k \in Jobs
      <3>1. hooks[k] > 0 => verdict[k] # "running"
        BY DEF ToldInv, Terminal
      <3>2. k # current
        BY <2>3
      <3> QED  BY <3>1, <3>2 DEF Phase
    <2>9. \A k \in Jobs : PhaseMap[k] # "running"
      BY <2>8 DEF PhaseMap
    <2>10. Lifecycle!Start
      BY <2>1, <2>2, <2>7, <2>9 DEF Lifecycle!Start, PhaseMap
    <2> QED  BY <2>10 DEF Lifecycle!Next
  <1>7. CASE RunFinalizer
    <2>1. /\ current \in Jobs /\ state \in Terminal /\ hooks[current] = 0 /\ id[current] # 0
          /\ state = "cancelled" => current \in asked
      BY <1>7 DEF RunFinalizer, WorkerInv, FreshInv, AskedInv, TypeOK
    <2>2. Phase(current) = "running"
      BY <2>1 DEF Phase
    <2>3. /\ hooks'[current] > 0 /\ verdict'[current] = state
          /\ \A k \in Jobs : k # current => hooks'[k] = hooks[k] /\ verdict'[k] = verdict[k]
          /\ UNCHANGED <<pending, current, id, dropping, asked, closed>>
      BY <1>7, <2>1 DEF RunFinalizer, CallHook, TypeOK
    <2>4. \A k \in Jobs : Phase(k)' = IF k = current THEN state ELSE Phase(k)
      BY <2>3 DEF Phase
    <2>5. PhaseMap' = [PhaseMap EXCEPT ![current] = state]
      BY <2>1, <2>4 DEF PhaseMap
    <2>6. Lifecycle!Finish(current, state)
      BY <2>1, <2>2, <2>3, <2>5 DEF Lifecycle!Finish, PhaseMap
    <2> QED  BY <2>1, <2>6 DEF Lifecycle!Next, Lifecycle!Settled, Terminal
  <1>8. CASE PublishEnd
    <2>1. \A k \in Jobs : Phase(k)' = Phase(k)
      BY <1>8 DEF PublishEnd, EmitEnd, Phase, WorkerInv, TypeOK
    <2> QED  BY <1>8, <2>1 DEF PublishEnd, PhaseMap
  <1>9. CASE \/ Stop \/ Judge \/ UNCHANGED queueVars
             \/ \E e \in Errors : RunReturns(e)
             \/ \E j \in Jobs : FireCancel(j) \/ DropEnd(j)
    <2>1. UNCHANGED <<pending, current, closed, id, asked, hooks, verdict>>
      BY <1>9 DEF Stop, Judge, queueVars, RunReturns, FireCancel, DropEnd, EmitEnd
    <2>2. \A k \in Jobs : (dropping[k] = "no") <=> (dropping[k] = "no")'
      BY <1>9 DEF Stop, Judge, queueVars, RunReturns, FireCancel, DropEnd, TypeOK
    <2>3. \A k \in Jobs : Phase(k)' = Phase(k)
      BY <2>1, <2>2 DEF Phase
    <2> QED  BY <2>1, <2>3 DEF PhaseMap
  <1> QED  BY <1>1, <1>2, <1>3, <1>4, <1>5, <1>6, <1>7, <1>8, <1>9
           DEF QueueNext, Worker, Callers, Close, Lifecycle!Next

\* jobs.Queue implements the life cycle: lines up, starts, settles and drops
\* jobs exactly as JobLifecycle allows, for any number of jobs and callers.
THEOREM Refinement == QueueSpec => ImplementsLifecycle
  BY InitRefines, StepRefines, Invariance, PTL
  DEF QueueSpec, ImplementsLifecycle, Lifecycle!Spec


-----------------------------------------------------------------------------
(* EventStream is the queue with events *)

LEMMA StreamStepIsQueue == [StreamNext]_streamVars => [QueueNext]_queueVars
  BY DEF StreamNext, QuietWorker, QuietCallers, StreamPick, StreamPublishEnd, Emit, StreamDropEnd,
         Subscribe, Receive, Unsubscribe, QueueNext, Worker, Callers, streamVars

\* publish, Subscribe: the event stream never changes what the queue does, so
\* all of the above holds of the queue with its stream.
THEOREM StreamIsQueue == StreamSpec => QueueSpec
<1>1. StreamInit => QueueInit
  BY DEF StreamInit
<1> QED
  BY <1>1, StreamStepIsQueue, PTL DEF StreamSpec, QueueSpec

-----------------------------------------------------------------------------
(* The trimming of the history *)

\* The ranks of the members of a finite set of numbers: each from one to the
\* size of the set, once, in their order.
LEMMA RankFact ==
  ASSUME NEW I \in SUBSET Nat, IsFiniteSet(I)
  PROVE  /\ Cardinality(I) \in Nat
         /\ \A i \in I : Rank(i, I) \in 1..Cardinality(I) /\ Rank(i, I) \in Nat
         /\ \A i, j \in I : i < j => Rank(i, I) < Rank(j, I)
         /\ \A i, j \in I : Rank(i, I) = Rank(j, I) => i = j
         /\ \A k \in 1..Cardinality(I) : \E i \in I : Rank(i, I) = k
<1> DEFINE below(i) == {j \in I : j <= i}
           m == Cardinality(I)
           r == [i \in I |-> Rank(i, I)]
<1>0. \A i \in I : i \in Nat
  OBVIOUS
<1>1. m \in Nat
  BY FS_CardinalityType
<1>2. ASSUME NEW i \in I
      PROVE  IsFiniteSet(below(i)) /\ Rank(i, I) \in 1..m /\ Rank(i, I) \in Nat
  <2>1. below(i) \in SUBSET I
    OBVIOUS
  <2>2. IsFiniteSet(below(i)) /\ Cardinality(below(i)) \in Nat /\ Cardinality(below(i)) <= m
    BY <2>1, FS_Subset, FS_CardinalityType
  <2>3. Cardinality(below(i)) # 0
    BY <1>0, <2>2, FS_EmptySet
  <2> HIDE DEF m
  <2> QED
    BY <1>1, <2>2, <2>3 DEF Rank
<1>3. ASSUME NEW i \in I, NEW j \in I, i < j PROVE Rank(i, I) < Rank(j, I)
  <2>0. j <= j /\ ~(j <= i) /\ \A k \in I : k <= i => k <= j
    BY <1>0, <1>3
  <2>1. below(i) \in SUBSET below(j) /\ j \in below(j) /\ j \notin below(i)
    BY <2>0
  <2>2. Cardinality(below(i)) <= Cardinality(below(j)) /\ Cardinality(below(i)) # Cardinality(below(j))
    <3> HIDE DEF below
    <3> QED
      BY <1>2, <2>1, FS_Subset
  <2>3. Rank(i, I) \in Nat /\ Rank(j, I) \in Nat
    BY <1>2
  <2> QED
    BY <2>2, <2>3 DEF Rank
<1>4. ASSUME NEW i \in I, NEW j \in I, Rank(i, I) = Rank(j, I) PROVE i = j
  <2>1. Rank(i, I) = Rank(j, I) /\ Rank(i, I) \in Nat
    BY <1>2, <1>4
  <2> QED
    BY <1>0, <1>3, <2>1
<1>5. r \in Injection(I, 1..m)
  <2>1. r \in [I -> 1..m]
    BY <1>2
  <2>2. \A i, j \in I : r[i] = r[j] => i = j
    BY <1>4
  <2> QED
    BY <2>1, <2>2 DEF Injection, IsInjective
<1>6. r \in Surjection(I, 1..m)
  <2>1. IsFiniteSet(1..m) /\ Cardinality(1..m) = m
    BY <1>1, FS_Interval
  <2> HIDE DEF r, m
  <2>2. Cardinality(I) = m
    BY DEF m
  <2> QED
    BY <1>5, <2>1, <2>2, FS_Injection
<1>7. \A k \in 1..m : \E i \in I : Rank(i, I) = k
  BY <1>6 DEF Surjection
<1> QED
  BY <1>1, <1>2, <1>3, <1>4, <1>7

\* Kept takes each of the indices once.
LEMMA KeptFact ==
  ASSUME NEW S, NEW h \in Seq(S), NEW I \in SUBSET DOMAIN h
  PROVE  /\ Kept(h, I) \in Seq(S)
         /\ \E at \in [DOMAIN Kept(h, I) -> I] :
              /\ \A a, b \in DOMAIN Kept(h, I) : at[a] = at[b] => a = b
              /\ \A i \in I : \E a \in DOMAIN Kept(h, I) : at[a] = i
              /\ \A a \in DOMAIN Kept(h, I) : Kept(h, I)[a] = h[at[a]]
<1> DEFINE m == Cardinality(I)
           at == [n \in 1..m |-> CHOOSE i \in I : Rank(i, I) = n]
<1>1. I \in SUBSET Nat /\ IsFiniteSet(I)
  <2>1. DOMAIN h = 1..Len(h) /\ Len(h) \in Nat
    OBVIOUS
  <2>2. IsFiniteSet(1..Len(h))
    BY <2>1, FS_Interval
  <2> QED
    BY <2>1, <2>2, FS_Subset
<1>2. m \in Nat
  BY <1>1, RankFact
<1>3. ASSUME NEW n \in 1..m PROVE at[n] \in I /\ Rank(at[n], I) = n
  BY <1>1, <1>3, RankFact
<1>4. \A i \in I : Rank(i, I) \in 1..m /\ at[Rank(i, I)] = i
  <2> TAKE i \in I
  <2>1. Rank(i, I) \in 1..m
    BY <1>1, RankFact
  <2>2. at[Rank(i, I)] \in I /\ Rank(at[Rank(i, I)], I) = Rank(i, I)
    BY <1>3, <2>1
  <2> HIDE DEF at, m
  <2> QED
    BY <1>1, <2>1, <2>2, RankFact
<1>5. Kept(h, I) = [n \in 1..m |-> h[at[n]]]
  BY DEF Kept
<1> HIDE DEF at, m
<1>6. at \in [1..m -> I]
  BY <1>3 DEF at
<1>7. \A n \in 1..m : h[at[n]] \in S
  BY <1>6
<1>8. Kept(h, I) \in Seq(S) /\ DOMAIN Kept(h, I) = 1..m
  <2>1. \A f \in [1..m -> S] : f \in Seq(S) /\ DOMAIN f = 1..m
    BY <1>2
  <2>2. Kept(h, I) \in [1..m -> S]
    BY <1>5, <1>7
  <2> QED
    BY <2>1, <2>2
<1>9. /\ at \in [DOMAIN Kept(h, I) -> I]
      /\ \A a, b \in DOMAIN Kept(h, I) : at[a] = at[b] => a = b
      /\ \A i \in I : \E a \in DOMAIN Kept(h, I) : at[a] = i
      /\ \A a \in DOMAIN Kept(h, I) : Kept(h, I)[a] = h[at[a]]
  <2>1. \A a, b \in 1..m : at[a] = at[b] => a = b
    BY <1>3
  <2>2. \A a \in 1..m : Kept(h, I)[a] = h[at[a]]
    BY <1>5
  <2> QED
    BY <1>4, <1>6, <1>8, <2>1, <2>2
<1> QED
  BY <1>8, <1>9

Steps(h) == {i \in DOMAIN h : h[i].kind = "step"}

\* appendHistoryLocked: every step stays, once, and few other events.
LEMMA TrimFact ==
  ASSUME NEW S, NEW h \in Seq(S)
  PROVE  /\ Trim(h) \in Seq(S)
         /\ Cardinality(NonSteps(Trim(h))) <= ReplayLimit
         /\ \A a \in Steps(Trim(h)) : \E i \in Steps(h) : Trim(h)[a] = h[i]
         /\ \A i \in Steps(h) : \E a \in Steps(Trim(h)) : Trim(h)[a] = h[i]
         /\ (\A i, k \in Steps(h) : h[i] = h[k] => i = k) =>
              \A a, b \in Steps(Trim(h)) : Trim(h)[a] = Trim(h)[b] => a = b
<1> DEFINE N == NonSteps(h)
           drop == Cardinality(N) - ReplayLimit
           I == {i \in DOMAIN h : h[i].kind = "step" \/ Rank(i, N) > drop}
           t == Kept(h, I)
<1>1. I \in SUBSET DOMAIN h /\ Trim(h) = t
  BY DEF Trim
<1>2. N \in SUBSET Nat /\ IsFiniteSet(N) /\ N \subseteq DOMAIN h
  <2>1. DOMAIN h = 1..Len(h) /\ Len(h) \in Nat
    OBVIOUS
  <2>2. IsFiniteSet(1..Len(h))
    BY <2>1, FS_Interval
  <2>3. N \in SUBSET (1..Len(h))
    BY <2>1 DEF NonSteps
  <2> QED
    BY <2>1, <2>2, <2>3, FS_Subset
<1>3. \A i \in I : i \in Steps(h) \/ (i \in N /\ Rank(i, N) > drop)
  BY DEF Steps, NonSteps
<1>4. Steps(h) \subseteq I
  BY DEF Steps
<1> HIDE DEF I
<1>5. t \in Seq(S)
  BY <1>1, KeptFact
<1>6. PICK at \in [DOMAIN t -> I] :
        /\ \A a, b \in DOMAIN t : at[a] = at[b] => a = b
        /\ \A i \in I : \E a \in DOMAIN t : at[a] = i
        /\ \A a \in DOMAIN t : t[a] = h[at[a]]
  BY <1>1, KeptFact
<1> HIDE DEF t
<1>7. \A a \in Steps(t) : a \in DOMAIN t /\ at[a] \in Steps(h) /\ t[a] = h[at[a]]
  BY <1>1, <1>6 DEF Steps
<1>8. \A i \in Steps(h) : \E a \in Steps(t) : at[a] = i
  BY <1>4, <1>6 DEF Steps
<1>9. Cardinality(NonSteps(t)) <= ReplayLimit
  <2> DEFINE M == Cardinality(N)
             R == (drop + 1)..M
             r == [a \in NonSteps(t) |-> Rank(at[a], N)]
  <2>1. M \in Nat /\ drop \in Int /\ ReplayLimit \in Nat
    BY <1>2, RankFact, StreamAssumption
  <2>2. \A a \in NonSteps(t) : a \in DOMAIN t /\ at[a] \in N /\ Rank(at[a], N) > drop
    BY <1>3, <1>6 DEF NonSteps, Steps
  <2>3. \A i \in N : Rank(i, N) \in 1..M /\ Rank(i, N) \in Nat
    BY <1>2, RankFact
  <2>4. \A i, k \in N : Rank(i, N) = Rank(k, N) => i = k
    BY <1>2, RankFact
  <2>5. IsFiniteSet(R) /\ Cardinality(R) <= ReplayLimit /\ Cardinality(R) \in Nat
    <3>1. \A x, y \in Nat : LET lo == x - y + 1 IN lo \in Int /\ lo <= x => x - lo + 1 = y
      OBVIOUS
    <3>2. drop + 1 \in Int /\ (drop + 1 <= M => M - (drop + 1) + 1 = ReplayLimit)
      BY <2>1, <3>1
    <3> HIDE DEF M, drop
    <3>3. IsFiniteSet(R) /\ Cardinality(R) = IF drop + 1 > M THEN 0 ELSE M - (drop + 1) + 1
      BY <2>1, <3>2, FS_Interval
    <3> QED
      BY <2>1, <3>2, <3>3
  <2> HIDE DEF N, M
  <2>6. r \in [NonSteps(t) -> R]
    <3>1. \A a \in NonSteps(t) : Rank(at[a], N) \in (drop + 1)..M
      <4> HIDE DEF drop
      <4> QED
        BY <2>1, <2>2, <2>3
    <3> QED
      BY <3>1
  <2> HIDE DEF R
  <2>7. r \in Injection(NonSteps(t), R)
    <3>1. \A a, b \in NonSteps(t) : r[a] = r[b] => a = b
      BY <1>6, <2>2, <2>4
    <3> HIDE DEF r
    <3> QED
      BY <2>6, <3>1 DEF Injection, IsInjective
  <2> HIDE DEF r
  <2>8. IsFiniteSet(NonSteps(t)) /\ Cardinality(NonSteps(t)) <= Cardinality(R)
    BY <2>5, <2>7, FS_Injection
  <2> QED
    BY <2>1, <2>5, <2>8, FS_CardinalityType
<1> QED
  BY <1>1, <1>5, <1>6, <1>7, <1>8, <1>9

-----------------------------------------------------------------------------
(* What a history and a connection hold *)

Events == [kind : {"step", "other", "end", "notice"}, job : Jobs, n : Nat]

StreamTypeInv ==
  /\ history \in Seq(Events)
  /\ emitted \in [{"step", "other"} -> Nat] /\ emitted["step"] <= MaxSteps
  /\ sub \in [Clients -> {"away", "live", "ended"}]
  /\ ch \in [Clients -> Seq(Events)]
  /\ notified \in [Clients -> BOOLEAN] /\ lost \in [Clients -> BOOLEAN]
  /\ seen \in [Clients -> SUBSET Events]

\* The steps of a history are those of the running job, each once; of the other
\* events it holds few.
HistoryInv ==
  /\ Cardinality(NonSteps(history)) <= ReplayLimit
  /\ \A i \in Steps(history) :
       current # NoJob /\ history[i].job = current /\ history[i].n \in 1..emitted["step"]
  /\ \A i, k \in Steps(history) : history[i] = history[k] => i = k
  /\ current # NoJob =>
       \A n \in 1..emitted["step"] : \E i \in Steps(history) : history[i] = Event("step", current, n)
  /\ current = NoJob => emitted = NoneEmitted

\* A connection has an event: it read it, or it is in its channel.
Where(s, e) == {i \in DOMAIN s : s[i] = e}
Holds(c, e) == e \in seen[c] \/ Where(ch[c], e) # {}
HoldsOnce(c, e) ==
  /\ e \in seen[c] <=> Where(ch[c], e) = {}
  /\ \A i, k \in Where(ch[c], e) : i = k

\* What a connection holds of the running job was emitted, and of jobs that did
\* not run it holds no step.
ClientInv ==
  \A c \in Clients :
    /\ sub[c] = "away" => ch[c] = <<>> /\ seen[c] = {} /\ ~lost[c]
    /\ \A e \in Events :
         Holds(c, e) /\ e.kind = "step" =>
           runs[e.job] > 0 /\ (e.job = current => e.n \in 1..emitted["step"])
    /\ sub[c] = "live" /\ ~lost[c] /\ current # NoJob =>
         \A n \in 1..emitted["step"] : HoldsOnce(c, Event("step", current, n))

LEMMA EventFact ==
  ASSUME NEW k \in {"step", "other", "end", "notice"}, NEW j \in Jobs, NEW n \in Nat
  PROVE  /\ Event(k, j, n) \in Events
         /\ Event(k, j, n).kind = k /\ Event(k, j, n).job = j /\ Event(k, j, n).n = n
  BY DEF Event, Events

LEMMA StepEventFact ==
  ASSUME NEW e \in Events, e.kind = "step"
  PROVE  e = Event("step", e.job, e.n)
  BY DEF Event, Events

LEMMA WhereAppend ==
  ASSUME NEW s \in Seq(Events), NEW e \in Events, NEW x
  PROVE  /\ Where(Append(s, e), x) = Where(s, x) \cup (IF x = e THEN {Len(s) + 1} ELSE {})
         /\ Len(s) + 1 \notin Where(s, x)
<1>1. /\ DOMAIN Append(s, e) = DOMAIN s \cup {Len(s) + 1}
      /\ \A a \in DOMAIN s : Append(s, e)[a] = s[a]
      /\ Append(s, e)[Len(s) + 1] = e
      /\ Len(s) + 1 \notin DOMAIN s
  BY AppendFact
<1> QED
  BY <1>1 DEF Where

LEMMA WhereTail ==
  ASSUME NEW s \in Seq(Events), s # <<>>, NEW x
  PROVE  /\ Where(Tail(s), x) # {} => Where(s, x) # {}
         /\ x # Head(s) /\ Where(s, x) # {} => Where(Tail(s), x) # {}
         /\ Where(s, Head(s)) # {}
         /\ (\A i, k \in Where(s, x) : i = k) =>
              /\ \A i, k \in Where(Tail(s), x) : i = k
              /\ x = Head(s) => Where(Tail(s), x) = {}
<1>1. /\ Head(s) = s[1] /\ 1 \in DOMAIN s
      /\ \A a \in DOMAIN Tail(s) :
           /\ a \in Nat /\ a + 1 \in DOMAIN s /\ a + 1 > 1
           /\ Tail(s)[a] = s[a + 1]
      /\ \A a \in DOMAIN s : a # 1 => a - 1 \in DOMAIN Tail(s)
  BY TailFact
<1>2. \A i \in Where(Tail(s), x) : i \in Nat /\ i + 1 \in Where(s, x) /\ i + 1 # 1
  BY <1>1 DEF Where
<1>3. ASSUME x # Head(s), NEW i \in Where(s, x) PROVE i - 1 \in Where(Tail(s), x)
  <2>1. i \in DOMAIN s /\ s[i] = x /\ i # 1
    BY <1>1, <1>3 DEF Where
  <2>2. i \in Nat /\ i - 1 + 1 = i
    BY <2>1
  <2> QED
    BY <1>1, <2>1, <2>2 DEF Where
<1>4. 1 \in Where(s, Head(s))
  BY <1>1 DEF Where
<1>5. ASSUME \A i, k \in Where(s, x) : i = k
      PROVE  /\ \A i, k \in Where(Tail(s), x) : i = k
             /\ x = Head(s) => Where(Tail(s), x) = {}
  BY <1>2, <1>4, <1>5
<1> QED
  BY <1>2, <1>3, <1>4, <1>5

-----------------------------------------------------------------------------
(* publish *)

\* What appendHistoryLocked makes of the steps.
LEMMA StreamPublishFact ==
  ASSUME history \in Seq(Events), NEW e \in Events, history' = Trim(Append(history, e))
  PROVE  /\ history' \in Seq(Events) /\ Cardinality(NonSteps(history')) <= ReplayLimit
         /\ \A a \in Steps(history') :
              history'[a] = e \/ \E i \in Steps(history) : history'[a] = history[i]
         /\ \A i \in Steps(history) : \E a \in Steps(history') : history'[a] = history[i]
         /\ e.kind = "step" => \E a \in Steps(history') : history'[a] = e
         /\ /\ \A i, k \in Steps(history) : history[i] = history[k] => i = k
            /\ e.kind = "step" => \A i \in Steps(history) : history[i] # e
            => \A a, b \in Steps(history') : history'[a] = history'[b] => a = b
<1> DEFINE h == Append(history, e)
<1>1. /\ h \in Seq(Events) /\ DOMAIN h = DOMAIN history \cup {Len(history) + 1}
      /\ \A a \in DOMAIN history : h[a] = history[a]
      /\ h[Len(history) + 1] = e
  BY AppendFact
<1> HIDE DEF h
<1>2. /\ \A i \in Steps(history) : i \in Steps(h) /\ h[i] = history[i]
      /\ \A i \in Steps(h) : \/ i \in Steps(history) /\ h[i] = history[i]
                             \/ i = Len(history) + 1 /\ h[i] = e /\ e.kind = "step"
      /\ e.kind = "step" => Len(history) + 1 \in Steps(h) /\ h[Len(history) + 1] = e
  BY <1>1 DEF Steps
<1>3. history' = Trim(h)
  BY DEF h
<1>4. ASSUME \A i, k \in Steps(history) : history[i] = history[k] => i = k,
             e.kind = "step" => \A i \in Steps(history) : history[i] # e
      PROVE  \A i, k \in Steps(h) : h[i] = h[k] => i = k
  BY <1>2, <1>4
<1>5. /\ Trim(h) \in Seq(Events) /\ Cardinality(NonSteps(Trim(h))) <= ReplayLimit
      /\ \A a \in Steps(Trim(h)) : \E i \in Steps(h) : Trim(h)[a] = h[i]
      /\ \A i \in Steps(h) : \E a \in Steps(Trim(h)) : Trim(h)[a] = h[i]
      /\ (\A i, k \in Steps(h) : h[i] = h[k] => i = k) =>
           \A a, b \in Steps(Trim(h)) : Trim(h)[a] = Trim(h)[b] => a = b
  BY <1>1, TrimFact
<1> HIDE DEF h
<1>6. \A a \in Steps(history') :
        history'[a] = e \/ \E i \in Steps(history) : history'[a] = history[i]
  <2> TAKE a \in Steps(history')
  <2>1. PICK i \in Steps(h) : history'[a] = h[i]
    BY <1>3, <1>5
  <2> QED
    BY <1>2, <2>1
<1>7. \A i \in Steps(history) : \E a \in Steps(history') : history'[a] = history[i]
  <2> TAKE i \in Steps(history)
  <2>1. i \in Steps(h) /\ h[i] = history[i]
    BY <1>2
  <2> QED
    BY <1>3, <1>5, <2>1
<1>8. ASSUME e.kind = "step" PROVE \E a \in Steps(history') : history'[a] = e
  <2>1. Len(history) + 1 \in Steps(h) /\ h[Len(history) + 1] = e
    BY <1>2, <1>8
  <2> QED
    BY <1>3, <1>5, <2>1
<1>9. ASSUME \A i, k \in Steps(history) : history[i] = history[k] => i = k,
             e.kind = "step" => \A i \in Steps(history) : history[i] # e
      PROVE  \A a, b \in Steps(history') : history'[a] = history'[b] => a = b
  BY <1>3, <1>4, <1>5, <1>9
<1> QED
  BY <1>3, <1>5, <1>6, <1>7, <1>8, <1>9

\* deliverLocked: what a connection has afterwards it had before, or it is the
\* event or a notice; one nothing was dropped for has the event.
LEMMA DeliverFact ==
  ASSUME StreamTypeInv, NEW e \in Events, Deliver(e)
  PROVE  /\ ch' \in [Clients -> Seq(Events)] /\ sub' \in [Clients -> {"away", "live", "ended"}]
         /\ notified' \in [Clients -> BOOLEAN] /\ lost' \in [Clients -> BOOLEAN]
         /\ seen' \in [Clients -> SUBSET Events]
         /\ \A c \in Clients :
              /\ sub'[c] = "away" => /\ sub[c] = "away" /\ ch'[c] = ch[c]
                                     /\ seen'[c] = seen[c] /\ lost'[c] = lost[c]
              /\ \A x \in Events : Holds(c, x)' => Holds(c, x) \/ x = e \/ x.kind = "notice"
              /\ sub'[c] = "live" /\ ~lost'[c] =>
                   /\ sub[c] = "live" /\ ~lost[c]
                   /\ \A x \in Events : /\ x # e /\ HoldsOnce(c, x) => HoldsOnce(c, x)'
                                        /\ x = e /\ ~Holds(c, x) => HoldsOnce(c, x)'
<1> DEFINE notice == Event("notice", e.job, 0)
           full == {c \in Clients : sub[c] # "away" /\ Len(ch[c]) >= Capacity}
           sent == {c \in Clients : sub[c] # "away"} \ full
<1>1. notice \in Events /\ notice.kind = "notice"
  <2>1. e.job \in Jobs
    BY DEF Events
  <2> QED
    BY <2>1, EventFact
<1>2. PICK took \in SUBSET {c \in Clients : sub[c] = "live" /\ ~notified[c]} :
        /\ took \subseteq full
        /\ ch' = [c \in Clients |->
                    IF c \in sent THEN Append(ch[c], e)
                    ELSE IF c \in took THEN Append(Tail(ch[c]), notice)
                    ELSE ch[c]]
        /\ notified' = [c \in Clients |-> c \notin sent /\ (notified[c] \/ c \in took)]
        /\ lost' = [c \in Clients |-> lost[c] \/ c \in full]
        /\ seen' = [c \in Clients |-> IF c \in took THEN SeenAfter(c) ELSE seen[c]]
        /\ sub' = [c \in Clients |-> IF c \in took THEN SubAfter(c) ELSE sub[c]]
  BY DEF Deliver
<1>3. \A c \in Clients : ch[c] \in Seq(Events) /\ seen[c] \in SUBSET Events /\ lost[c] \in BOOLEAN
                         /\ sub[c] \in {"away", "live", "ended"}
  BY DEF StreamTypeInv
<1>4. \A c \in took : ch[c] # <<>> /\ Head(ch[c]) \in Events /\ Tail(ch[c]) \in Seq(Events)
  <2> TAKE c \in took
  <2>1. Capacity > 0 /\ Len(ch[c]) >= Capacity
    BY <1>2, StreamAssumption DEF Capacity
  <2>2. ch[c] # <<>>
    BY <1>2, <1>3, <2>1, StreamAssumption DEF Capacity
  <2> QED
    BY <1>2, <1>3, <2>2, TailFact
<1> HIDE DEF notice, full, sent
<1>5. ASSUME NEW c \in Clients
      PROVE  /\ ch'[c] \in Seq(Events) /\ seen'[c] \in SUBSET Events
             /\ sub'[c] \in {"away", "live", "ended"}
  <2>1. CASE c \in took
    BY <1>1, <1>2, <1>3, <1>4, <2>1, AppendFact DEF SeenAfter, SubAfter, sent
  <2>2. CASE c \notin took
    BY <1>2, <1>3, <2>2, AppendFact
  <2> QED
    BY <2>1, <2>2
<1>6. ASSUME NEW c \in Clients, sub'[c] = "away"
      PROVE  /\ sub[c] = "away" /\ ch'[c] = ch[c]
             /\ seen'[c] = seen[c] /\ lost'[c] = lost[c]
  <2>1. c \notin took
    BY <1>2, <1>6 DEF SubAfter
  <2> QED
    BY <1>2, <1>3, <1>6, <2>1 DEF sent, full
<1>7. ASSUME NEW c \in Clients, NEW x \in Events, Holds(c, x)'
      PROVE  Holds(c, x) \/ x = e \/ x.kind = "notice"
  <2>1. CASE c \in took
    <3>1. Where(ch'[c], x) # {} => Where(Tail(ch[c]), x) # {} \/ x = notice
      <4>1. c \notin sent /\ ch'[c] = Append(Tail(ch[c]), notice)
        BY <1>2, <2>1 DEF sent
      <4>2. Where(Append(Tail(ch[c]), notice), x)
              = Where(Tail(ch[c]), x) \cup (IF x = notice THEN {Len(Tail(ch[c])) + 1} ELSE {})
        <5>1. Tail(ch[c]) \in Seq(Events) /\ notice \in Events
          BY <1>1, <1>4, <2>1
        <5> DEFINE s == Tail(ch[c])
        <5> HIDE DEF s
        <5>2. s \in Seq(Events)
          BY <5>1 DEF s
        <5>3. Where(Append(s, notice), x) = Where(s, x) \cup (IF x = notice THEN {Len(s) + 1} ELSE {})
          BY <5>1, <5>2, WhereAppend
        <5> QED
          BY <5>3 DEF s
      <4> QED
        BY <4>1, <4>2
    <3>2. x \in seen'[c] => x \in seen[c] \/ x = Head(ch[c])
      BY <1>2, <2>1 DEF SeenAfter
    <3> QED
      BY <1>1, <1>3, <1>4, <1>7, <2>1, <3>1, <3>2, WhereTail DEF Holds
  <2>2. CASE c \notin took
    <3>1. seen'[c] = seen[c] /\ ch'[c] \in {ch[c], Append(ch[c], e)}
      BY <1>2, <2>2
    <3>2. Where(ch'[c], x) # {} => Where(ch[c], x) # {} \/ x = e
      <4>1. Where(Append(ch[c], e), x)
              = Where(ch[c], x) \cup (IF x = e THEN {Len(ch[c]) + 1} ELSE {})
        BY <1>3, WhereAppend
      <4> QED
        BY <3>1, <4>1
    <3> QED
      BY <1>7, <3>1, <3>2 DEF Holds
  <2> QED
    BY <2>1, <2>2
<1>8. ASSUME NEW c \in Clients, sub'[c] = "live", ~lost'[c]
      PROVE  /\ sub[c] = "live" /\ ~lost[c]
             /\ \A x \in Events : /\ x # e /\ HoldsOnce(c, x) => HoldsOnce(c, x)'
                                  /\ x = e /\ ~Holds(c, x) => HoldsOnce(c, x)'
  <2>1. ~lost[c] /\ c \notin full /\ c \notin took
    BY <1>2, <1>8
  <2>2. sub[c] = "live" /\ c \in sent
    BY <1>2, <1>8, <2>1 DEF sent
  <2>3. ch'[c] = Append(ch[c], e) /\ seen'[c] = seen[c]
    BY <1>2, <2>1, <2>2
  <2>4. \A x \in Events :
          /\ x # e => Where(ch'[c], x) = Where(ch[c], x)
          /\ x = e => Where(ch'[c], x) = Where(ch[c], x) \cup {Len(ch[c]) + 1}
    <3> TAKE x \in Events
    <3>1. Where(Append(ch[c], e), x)
            = Where(ch[c], x) \cup (IF x = e THEN {Len(ch[c]) + 1} ELSE {})
      BY <1>3, WhereAppend
    <3> QED
      BY <2>3, <3>1
  <2> QED
    BY <2>1, <2>2, <2>3, <2>4 DEF Holds, HoldsOnce
<1> QED
  BY <1>2, <1>5, <1>6, <1>7, <1>8

-----------------------------------------------------------------------------
(* The inductive invariant of the stream *)

StreamInv == IInv /\ StreamTypeInv /\ HistoryInv /\ ClientInv

\* What the queue's invariant says of the running job and of the next one.
LEMMA StreamQueueFact ==
  ASSUME IInv
  PROVE  /\ worker \notin {"waiting", "stopped"} => current \in Jobs /\ runs[current] > 0
         /\ worker \in {"waiting", "stopped"} => current = NoJob
         /\ current \in Jobs \cup {NoJob} /\ current # NoJob => current \in Jobs
         /\ runs \in [Jobs -> Nat]
         /\ pending # <<>> => Head(pending) \in Jobs /\ runs[Head(pending)] = 0
<1> USE DEF IInv, TypeOK
<1>1. worker \notin {"waiting", "stopped"} => current \in Jobs /\ runs[current] > 0
  BY DEF WorkerInv
<1>2. pending # <<>> => Head(pending) \in Jobs /\ runs[Head(pending)] = 0
  <2> HAVE pending # <<>>
  <2>1. Head(pending) \in Jobs /\ Head(pending) = pending[1] /\ 1 \in DOMAIN pending
    BY TailFact
  <2> QED
    BY <2>1 DEF WaitingInv
<1> QED
  BY <1>1, <1>2

\* Most of what the worker and its callers do leaves the running job alone.
LEMMA QuietFact ==
  ASSUME QuietWorker \/ QuietCallers
  PROVE  UNCHANGED <<current, runs>>
<1>1. CASE QuietWorker
  BY <1>1 DEF QuietWorker, Stop, RunReturns, Judge, RunFinalizer, lockVars
<1>2. CASE QuietCallers
  BY <1>2 DEF QuietCallers, Close, Submit, CancelRunning, FireCancel, CancelQueued, DropHook,
              lockVars, workVars
<1> QED
  BY <1>1, <1>2

\* A history that holds nothing.
LEMMA ForgottenFact ==
  /\ <<>> \in Seq(Events) /\ Steps(<<>>) = {}
  /\ Cardinality(NonSteps(<<>>)) <= ReplayLimit
<1>1. NonSteps(<<>>) = {}
  BY DEF NonSteps
<1>2. Cardinality(NonSteps(<<>>)) = 0
  BY <1>1, FS_EmptySet
<1>3. <<>> \in Seq(Events) /\ Steps(<<>>) = {}
  BY DEF Steps
<1> QED
  BY <1>2, <1>3, StreamAssumption

LEMMA NoneFact ==
  /\ NoneEmitted \in [{"step", "other"} -> Nat] /\ NoneEmitted["step"] = 0
  /\ NoneEmitted["step"] <= MaxSteps /\ 1..NoneEmitted["step"] = {}
  BY StreamAssumption DEF NoneEmitted

\* An event that is no step takes nothing from a connection but its health.
LEMMA ClientsAfterDelivery ==
  ASSUME IInv, StreamTypeInv, ClientInv, NEW e \in Events, Deliver(e), e.kind # "step",
         UNCHANGED runs,
         \/ current' = NoJob
         \/ current' = current /\ emitted'["step"] = emitted["step"]
  PROVE  ClientInv'
<1> SUFFICES ASSUME NEW c \in Clients
             PROVE  /\ sub'[c] = "away" => ch'[c] = <<>> /\ seen'[c] = {} /\ ~lost'[c]
                    /\ \A x \in Events :
                         Holds(c, x)' /\ x.kind = "step" =>
                           runs'[x.job] > 0 /\ (x.job = current' => x.n \in 1..emitted'["step"])
                    /\ sub'[c] = "live" /\ ~lost'[c] /\ current' # NoJob =>
                         \A n \in 1..emitted'["step"] : HoldsOnce(c, Event("step", current, n))'
  BY DEF ClientInv
<1>1. sub'[c] = "away" => ch'[c] = <<>> /\ seen'[c] = {} /\ ~lost'[c]
  BY DeliverFact DEF ClientInv
<1>2. ASSUME NEW x \in Events, Holds(c, x)', x.kind = "step"
      PROVE  runs'[x.job] > 0 /\ (x.job = current' => x.n \in 1..emitted'["step"])
  <2>1. Holds(c, x)
    BY <1>2, DeliverFact
  <2>2. runs[x.job] > 0 /\ (x.job = current => x.n \in 1..emitted["step"])
    BY <1>2, <2>1 DEF ClientInv
  <2>3. x.job \in Jobs
    BY DEF Events
  <2> QED
    BY <2>2, <2>3, NoJobAssumption
<1>3. ASSUME sub'[c] = "live", ~lost'[c], current' # NoJob, NEW n \in 1..emitted'["step"]
      PROVE  HoldsOnce(c, Event("step", current, n))'
  <2>1. current' = current /\ emitted'["step"] = emitted["step"] /\ current \in Jobs
    BY <1>3, StreamQueueFact
  <2>2. n \in Nat
    OBVIOUS
  <2>3. PICK x \in Events : x = Event("step", current, n) /\ x.kind = "step"
    BY <2>1, <2>2, EventFact
  <2>4. sub[c] = "live" /\ ~lost[c] /\ \A y \in Events : y # e /\ HoldsOnce(c, y) => HoldsOnce(c, y)'
    BY <1>3, DeliverFact
  <2>5. HoldsOnce(c, x)
    BY <1>3, <2>1, <2>3, <2>4 DEF ClientInv
  <2>6. HoldsOnce(c, x)'
    BY <2>3, <2>4, <2>5
  <2> QED
    BY <2>1, <2>3, <2>6 DEF HoldsOnce, Event
<1> QED
  BY <1>1, <1>2, <1>3

\* The worker takes the next job: nothing of it was emitted.
LEMMA PickStep ==
  ASSUME StreamInv, StreamPick
  PROVE  StreamTypeInv' /\ HistoryInv' /\ ClientInv'
<1> USE DEF StreamInv
<1>1. PICK h \in Jobs : h = Head(pending) /\ runs[h] = 0
  BY StreamQueueFact DEF StreamPick, Pick
<1>2. /\ current' = h /\ runs' = [runs EXCEPT ![h] = @ + 1] /\ current = NoJob
      /\ history' = <<>> /\ UNCHANGED <<emitted, clientVars>>
  BY <1>1, StreamQueueFact DEF StreamPick, Pick
<1>3. emitted = NoneEmitted
  BY <1>2 DEF HistoryInv
<1>4. StreamTypeInv'
  BY <1>2, ForgottenFact DEF StreamTypeInv, clientVars
<1>5. HistoryInv'
  <2>1. 1..emitted'["step"] = {}
    BY <1>2, <1>3, NoneFact
  <2>2. current' # NoJob
    BY <1>1, <1>2, NoJobAssumption
  <2>3. Steps(history') = {} /\ Cardinality(NonSteps(history')) <= ReplayLimit
    BY <1>2, ForgottenFact
  <2> QED
    BY <2>1, <2>2, <2>3 DEF HistoryInv
<1>6. ASSUME NEW x \in Events, runs[x.job] > 0 PROVE runs'[x.job] > 0 /\ x.job # current'
  <2>1. x.job \in Jobs
    BY DEF Events
  <2> QED
    BY <1>1, <1>2, <1>6, <2>1, StreamQueueFact
<1>7. ClientInv'
  <2> SUFFICES ASSUME NEW c \in Clients
               PROVE  /\ sub'[c] = "away" => ch'[c] = <<>> /\ seen'[c] = {} /\ ~lost'[c]
                      /\ \A x \in Events :
                           Holds(c, x)' /\ x.kind = "step" =>
                             runs'[x.job] > 0 /\ (x.job = current' => x.n \in 1..emitted'["step"])
                      /\ sub'[c] = "live" /\ ~lost'[c] /\ current' # NoJob =>
                           \A n \in 1..emitted'["step"] : HoldsOnce(c, Event("step", current, n))'
    BY DEF ClientInv
  <2>1. UNCHANGED <<sub, ch, seen, lost>>
    BY <1>2 DEF clientVars
  <2>2. 1..emitted'["step"] = {}
    BY <1>2, <1>3, NoneFact
  <2>3. ASSUME NEW x \in Events, Holds(c, x)', x.kind = "step"
        PROVE  runs'[x.job] > 0 /\ x.job # current'
    <3>1. Holds(c, x)
      BY <2>1, <2>3 DEF Holds
    <3> QED
      BY <1>6, <2>3, <3>1 DEF ClientInv
  <2> QED
    BY <2>1, <2>2, <2>3 DEF ClientInv
<1> QED
  BY <1>4, <1>5, <1>7

\* The end goes out and the history is forgotten.
LEMMA PublishEndStep ==
  ASSUME StreamInv, StreamPublishEnd
  PROVE  StreamTypeInv' /\ HistoryInv' /\ ClientInv'
<1> USE DEF StreamInv
<1>1. /\ current \in Jobs /\ current' = NoJob /\ UNCHANGED runs
      /\ history' = <<>> /\ emitted' = NoneEmitted
      /\ Deliver(Event("end", current, 0))
  BY StreamQueueFact DEF StreamPublishEnd, PublishEnd
<1>2. PICK e \in Events : e = Event("end", current, 0) /\ e.kind = "end"
  BY <1>1, EventFact
<1>3. StreamTypeInv'
  BY <1>1, <1>2, ForgottenFact, NoneFact, DeliverFact DEF StreamTypeInv
<1>4. HistoryInv'
  <2>1. Steps(history') = {} /\ Cardinality(NonSteps(history')) <= ReplayLimit
    BY <1>1, ForgottenFact
  <2> QED
    BY <1>1, <2>1 DEF HistoryInv
<1>5. ClientInv'
  BY <1>1, <1>2, ClientsAfterDelivery
<1> QED
  BY <1>3, <1>4, <1>5

\* An event of another kind than "step", of the running job or of a dropped one.
LEMMA OtherEventStep ==
  ASSUME StreamInv, NEW e \in Events, e.kind # "step", Publish(e), UNCHANGED <<current, runs>>,
         emitted' \in [{"step", "other"} -> Nat], emitted'["step"] = emitted["step"],
         current # NoJob \/ emitted' = emitted
  PROVE  StreamTypeInv' /\ HistoryInv' /\ ClientInv'
<1> USE DEF StreamInv
<1>1. history \in Seq(Events) /\ history' = Trim(Append(history, e)) /\ Deliver(e)
  BY DEF Publish, StreamTypeInv
<1>2. StreamTypeInv'
  BY <1>1, StreamPublishFact, DeliverFact DEF StreamTypeInv
<1>3. HistoryInv'
  <2>1. \A a \in Steps(history') : \E i \in Steps(history) : history'[a] = history[i]
    BY <1>1, StreamPublishFact DEF Steps
  <2>2. \A i \in Steps(history) : \E a \in Steps(history') : history'[a] = history[i]
    BY <1>1, StreamPublishFact
  <2>3. /\ Cardinality(NonSteps(history')) <= ReplayLimit
        /\ \A a, b \in Steps(history') : history'[a] = history'[b] => a = b
    BY <1>1, StreamPublishFact DEF HistoryInv
  <2>4. \A a \in Steps(history') : /\ current' # NoJob /\ history'[a].job = current'
                                   /\ history'[a].n \in 1..emitted'["step"]
    BY <2>1 DEF HistoryInv
  <2>5. current' # NoJob => \A n \in 1..emitted'["step"] :
          \E a \in Steps(history') : history'[a] = Event("step", current', n)
    <3> SUFFICES ASSUME current # NoJob, NEW n \in 1..emitted["step"]
                 PROVE  \E a \in Steps(history') : history'[a] = Event("step", current, n)
      OBVIOUS
    <3>1. PICK i \in Steps(history) : history[i] = Event("step", current, n)
      BY DEF HistoryInv
    <3> QED
      BY <2>2, <3>1
  <2> QED
    BY <2>3, <2>4, <2>5 DEF HistoryInv, Event
<1>4. ClientInv'
  BY <1>1, ClientsAfterDelivery
<1> QED
  BY <1>2, <1>3, <1>4

\* A step of the running job: the history and every connection get it.
LEMMA StepEventStep ==
  ASSUME StreamInv, Emit("step")
  PROVE  StreamTypeInv' /\ HistoryInv' /\ ClientInv'
<1> USE DEF StreamInv
<1> DEFINE last == emitted["step"] + 1
<1>1. /\ current \in Jobs /\ runs[current] > 0 /\ UNCHANGED <<current, runs>>
      /\ last <= MaxSteps /\ last \in Nat
      /\ emitted' = [emitted EXCEPT !["step"] = last]
      /\ Publish(Event("step", current, last))
  <2>1. worker = "running"
    BY DEF Emit
  <2>2. current \in Jobs /\ runs[current] > 0
    BY <2>1, StreamQueueFact
  <2>3. emitted["step"] < MaxSteps /\ emitted["step"] \in Nat
    BY DEF Emit, StreamTypeInv
  <2>4. last <= MaxSteps /\ last \in Nat
    BY <2>3, StreamAssumption
  <2> QED
    BY <2>2, <2>4 DEF Emit, queueVars, lockVars, workVars
<1>2. emitted' \in [{"step", "other"} -> Nat] /\ emitted'["step"] = last
  BY <1>1 DEF StreamTypeInv
<1>3. PICK e \in Events : /\ e = Event("step", current, last)
                          /\ e.kind = "step" /\ e.job = current /\ e.n = last
  BY <1>1, EventFact
<1>4. \A n \in 1..last : n \in 1..emitted["step"] \/ n = last
  BY <1>1 DEF StreamTypeInv
<1>5. last \notin 1..emitted["step"] /\ last \in 1..last /\ \A n \in 1..emitted["step"] : n \in 1..last
  BY <1>1 DEF StreamTypeInv
<1>6. \A n \in 1..emitted["step"] : Event("step", current, n) # e
  <2> TAKE n \in 1..emitted["step"]
  <2>1. Event("step", current, n).n = n
    BY DEF Event
  <2> QED
    BY <1>3, <1>5, <2>1
<1> HIDE DEF last
<1>7. history \in Seq(Events) /\ history' = Trim(Append(history, e)) /\ Deliver(e)
  BY <1>1, <1>3 DEF Publish, StreamTypeInv
<1>8. StreamTypeInv'
  BY <1>1, <1>2, <1>7, StreamPublishFact, DeliverFact DEF StreamTypeInv
<1>9. HistoryInv'
  <2>1. \A i \in Steps(history) : /\ current # NoJob /\ history[i].job = current
                                  /\ history[i].n \in 1..emitted["step"] /\ history[i] # e
    BY <1>3, <1>5 DEF HistoryInv
  <2>2. /\ Cardinality(NonSteps(history')) <= ReplayLimit
        /\ \A a, b \in Steps(history') : history'[a] = history'[b] => a = b
    <3>1. \A i, k \in Steps(history) : history[i] = history[k] => i = k
      BY DEF HistoryInv
    <3> QED
      BY <1>7, <2>1, <3>1, StreamPublishFact
  <2>3. \A a \in Steps(history') : history'[a] = e \/ \E i \in Steps(history) : history'[a] = history[i]
    BY <1>7, StreamPublishFact
  <2>4. current # NoJob
    BY <1>1, NoJobAssumption
  <2>5. \A a \in Steps(history') : history'[a].job = current /\ history'[a].n \in 1..last
    BY <1>3, <1>5, <2>1, <2>3
  <2>6. \A n \in 1..last : \E a \in Steps(history') : history'[a] = Event("step", current, n)
    <3> TAKE n \in 1..last
    <3>1. CASE n = last
      BY <1>3, <1>7, <3>1, StreamPublishFact
    <3>2. CASE n \in 1..emitted["step"]
      <4>1. PICK i \in Steps(history) : history[i] = Event("step", current, n)
        BY <2>4, <3>2 DEF HistoryInv
      <4>2. PICK a \in Steps(history') : history'[a] = history[i]
        BY <1>7, StreamPublishFact
      <4> QED
        BY <4>1, <4>2
    <3> QED
      BY <1>4, <3>1, <3>2
  <2>7. \A n \in 1..emitted'["step"] : \E a \in Steps(history') : history'[a] = Event("step", current', n)
    BY <1>1, <1>2, <2>6
  <2>8. \A a \in Steps(history') : /\ current' # NoJob /\ history'[a].job = current'
                                   /\ history'[a].n \in 1..emitted'["step"]
    BY <1>1, <1>2, <2>4, <2>5
  <2> QED
    BY <1>1, <2>2, <2>4, <2>7, <2>8 DEF HistoryInv, Event
<1>10. ClientInv'
  <2> SUFFICES ASSUME NEW c \in Clients
               PROVE  /\ sub'[c] = "away" => ch'[c] = <<>> /\ seen'[c] = {} /\ ~lost'[c]
                      /\ \A x \in Events :
                           Holds(c, x)' /\ x.kind = "step" =>
                             runs'[x.job] > 0 /\ (x.job = current' => x.n \in 1..emitted'["step"])
                      /\ sub'[c] = "live" /\ ~lost'[c] /\ current' # NoJob =>
                           \A n \in 1..emitted'["step"] : HoldsOnce(c, Event("step", current, n))'
    BY DEF ClientInv
  <2>1. sub'[c] = "away" => ch'[c] = <<>> /\ seen'[c] = {} /\ ~lost'[c]
    BY <1>7, DeliverFact DEF ClientInv
  <2>2. ASSUME NEW x \in Events, Holds(c, x)', x.kind = "step"
        PROVE  runs'[x.job] > 0 /\ (x.job = current' => x.n \in 1..emitted'["step"])
    <3>1. Holds(c, x) \/ x = e
      BY <1>7, <2>2, DeliverFact
    <3>2. Holds(c, x) => runs[x.job] > 0 /\ (x.job = current => x.n \in 1..emitted["step"])
      BY <2>2 DEF ClientInv
    <3> QED
      BY <1>1, <1>2, <1>3, <1>5, <3>1, <3>2
  <2>3. ASSUME sub'[c] = "live", ~lost'[c], NEW n \in 1..emitted'["step"]
        PROVE  HoldsOnce(c, Event("step", current, n))'
    <3>1. n \in Nat /\ current # NoJob
      BY <1>1, NoJobAssumption
    <3>2. PICK x \in Events : x = Event("step", current, n)
      BY <1>1, <3>1, EventFact
    <3>3. /\ sub[c] = "live" /\ ~lost[c]
          /\ \A y \in Events : /\ y # e /\ HoldsOnce(c, y) => HoldsOnce(c, y)'
                               /\ y = e /\ ~Holds(c, y) => HoldsOnce(c, y)'
      BY <1>7, <2>3, DeliverFact
    <3>4. CASE n = last
      <4>1. x = e
        BY <1>3, <3>2, <3>4
      <4>2. ~Holds(c, e)
        BY <1>3, <1>5 DEF ClientInv
      <4> QED
        BY <1>1, <3>2, <3>3, <4>1, <4>2 DEF HoldsOnce, Event
    <3>5. CASE n \in 1..emitted["step"]
      <4>1. x # e /\ HoldsOnce(c, x)
        BY <1>6, <3>1, <3>2, <3>3, <3>5 DEF ClientInv
      <4>2. HoldsOnce(c, x)'
        BY <3>3, <4>1
      <4> QED
        BY <1>1, <3>2, <4>2 DEF HoldsOnce, Event
    <3> QED
      BY <1>2, <1>4, <3>4, <3>5
  <2> QED
    BY <2>1, <2>2, <2>3
<1> QED
  BY <1>8, <1>9, <1>10

\* A connection that takes the head of its channel keeps what it holds.
LEMMA TakeFact ==
  ASSUME StreamTypeInv, NEW c \in Clients, ch[c] # <<>>,
         ch'[c] = Tail(ch[c]), seen'[c] = SeenAfter(c)
  PROVE  /\ ch'[c] \in Seq(Events) /\ seen'[c] \in SUBSET Events
         /\ \A x \in Events : Holds(c, x)' => Holds(c, x)
         /\ \A x \in Events : x.kind = "step" /\ HoldsOnce(c, x) => HoldsOnce(c, x)'
<1>1. ch[c] \in Seq(Events) /\ seen[c] \in SUBSET Events
  BY DEF StreamTypeInv
<1>2. PICK e \in Events : e = Head(ch[c])
  BY <1>1, TailFact
<1>3. Tail(ch[c]) \in Seq(Events)
  BY <1>1, TailFact
<1>4. seen'[c] = IF e.kind = "step" THEN seen[c] \cup {e} ELSE seen[c]
  BY <1>2 DEF SeenAfter
<1>5. ASSUME NEW x \in Events
      PROVE  /\ Where(ch'[c], x) # {} => Where(ch[c], x) # {}
             /\ x # e /\ Where(ch[c], x) # {} => Where(ch'[c], x) # {}
             /\ Where(ch[c], e) # {}
             /\ (\A i, k \in Where(ch[c], x) : i = k) =>
                  /\ \A i, k \in Where(ch'[c], x) : i = k
                  /\ x = e => Where(ch'[c], x) = {}
  <2> DEFINE s == ch[c]
  <2>1. s \in Seq(Events) /\ s # <<>> /\ ch'[c] = Tail(s) /\ e = Head(s)
    BY <1>1, <1>2
  <2> HIDE DEF s
  <2>2. /\ Where(Tail(s), x) # {} => Where(s, x) # {}
        /\ x # Head(s) /\ Where(s, x) # {} => Where(Tail(s), x) # {}
        /\ Where(s, Head(s)) # {}
        /\ (\A i, k \in Where(s, x) : i = k) =>
             /\ \A i, k \in Where(Tail(s), x) : i = k
             /\ x = Head(s) => Where(Tail(s), x) = {}
    BY <2>1, WhereTail
  <2> QED
    BY <2>1, <2>2 DEF s
<1>6. ASSUME NEW x \in Events, Holds(c, x)' PROVE Holds(c, x)
  BY <1>4, <1>5, <1>6 DEF Holds
<1>7. ASSUME NEW x \in Events, x.kind = "step", HoldsOnce(c, x) PROVE HoldsOnce(c, x)'
  <2>1. \A i, k \in Where(ch[c], x) : i = k
    BY <1>7 DEF HoldsOnce
  <2>2. \A i, k \in Where(ch'[c], x) : i = k
    BY <1>5, <2>1
  <2>3. x \in seen'[c] <=> Where(ch'[c], x) = {}
    <3>1. CASE x = e
      BY <1>4, <1>5, <1>7, <2>1, <3>1
    <3>2. CASE x # e
      BY <1>4, <1>5, <1>7, <3>2 DEF HoldsOnce
    <3> QED
      BY <3>1, <3>2
  <2> QED
    BY <2>2, <2>3 DEF HoldsOnce
<1> QED
  BY <1>1, <1>2, <1>3, <1>4, <1>6, <1>7

\* The replay fits: the steps are those of a job that emits few enough.
LEMMA ReplayFact ==
  ASSUME StreamInv
  PROVE  ReplayFits /\ Len(history) \in Nat
<1> USE DEF StreamInv
<1>1. history \in Seq(Events) /\ Len(history) \in Nat /\ DOMAIN history = 1..Len(history)
  BY DEF StreamTypeInv
<1>2. IsFiniteSet(1..Len(history)) /\ Cardinality(1..Len(history)) = Len(history)
  BY <1>1, FS_Interval
<1>3. /\ Steps(history) \in SUBSET (1..Len(history)) /\ NonSteps(history) \in SUBSET (1..Len(history))
      /\ Steps(history) \cup NonSteps(history) = 1..Len(history)
      /\ Steps(history) \cap NonSteps(history) = {}
  BY <1>1 DEF Steps, NonSteps
<1>4. IsFiniteSet(Steps(history)) /\ IsFiniteSet(NonSteps(history))
  BY <1>2, <1>3, FS_Subset
<1>5. Cardinality(Steps(history)) \in Nat /\ Cardinality(NonSteps(history)) \in Nat
  BY <1>4, FS_CardinalityType
<1>6. Len(history) = Cardinality(Steps(history)) + Cardinality(NonSteps(history))
  <2>1. Cardinality(Steps(history) \cup NonSteps(history)) =
          Cardinality(Steps(history)) + Cardinality(NonSteps(history))
            - Cardinality(Steps(history) \cap NonSteps(history))
    BY <1>4, FS_Union
  <2>2. Cardinality(Steps(history) \cap NonSteps(history)) = 0
    BY <1>3, FS_EmptySet
  <2>3. Cardinality(Steps(history) \cup NonSteps(history)) = Len(history)
    BY <1>2, <1>3
  <2>4. \A x, y \in Nat : x + y - 0 = x + y
    OBVIOUS
  <2>5. Cardinality(Steps(history)) + Cardinality(NonSteps(history)) - 0 =
          Cardinality(Steps(history)) + Cardinality(NonSteps(history))
    BY <1>5, <2>4
  <2> QED
    BY <2>1, <2>2, <2>3, <2>5
<1>7. Cardinality(Steps(history)) <= MaxSteps
  <2> DEFINE m == emitted["step"]
             f == [i \in Steps(history) |-> history[i].n]
  <2>1. m \in Nat /\ m <= MaxSteps
    BY DEF StreamTypeInv
  <2>2. IsFiniteSet(1..m) /\ Cardinality(1..m) = m
    <3>1. IsFiniteSet(1..m) /\ Cardinality(1..m) = IF 1 > m THEN 0 ELSE m - 1 + 1
      BY <2>1, FS_Interval
    <3>2. m - 1 + 1 = m /\ (1 > m => m = 0)
      BY <2>1
    <3> QED
      BY <3>1, <3>2
  <2>3. f \in [Steps(history) -> 1..m]
    BY DEF HistoryInv
  <2>4. ASSUME NEW i \in Steps(history), NEW k \in Steps(history), f[i] = f[k] PROVE i = k
    <3>1. /\ history[i] \in Events /\ history[i].kind = "step"
          /\ history[k] \in Events /\ history[k].kind = "step"
      BY <1>1 DEF Steps
    <3>2. history[i].job = history[k].job /\ history[i].n = history[k].n
      BY <2>4 DEF HistoryInv
    <3>3. history[i] = history[k]
      BY <3>1, <3>2, StepEventFact
    <3> QED
      BY <3>3 DEF HistoryInv
  <2> HIDE DEF f, m
  <2>5. f \in Injection(Steps(history), 1..m)
    BY <2>3, <2>4 DEF Injection, IsInjective, f
  <2>6. Cardinality(Steps(history)) <= m
    BY <2>2, <2>5, FS_Injection
  <2> QED
    BY <1>5, <2>1, <2>6, StreamAssumption
<1> QED
  BY <1>1, <1>5, <1>6, <1>7, StreamAssumption DEF HistoryInv, ReplayFits, Capacity

\* Connections come, read and go while the queue stands still.
LEMMA ClientStep ==
  ASSUME StreamInv, NEW c \in Clients, Subscribe(c) \/ Receive(c) \/ Unsubscribe(c)
  PROVE  StreamTypeInv' /\ HistoryInv' /\ ClientInv'
<1> USE DEF StreamInv
<1>1. UNCHANGED <<current, runs, history, emitted>>
  BY DEF Subscribe, Receive, Unsubscribe, queueVars, lockVars, workVars
<1>2. HistoryInv'
  BY <1>1 DEF HistoryInv, Event
<1>3. /\ \A d \in Clients \ {c} : /\ sub'[d] = sub[d] /\ ch'[d] = ch[d]
                                  /\ seen'[d] = seen[d] /\ lost'[d] = lost[d]
      /\ StreamTypeInv'
      /\ sub'[c] = "away" => ch'[c] = <<>> /\ seen'[c] = {} /\ ~lost'[c]
      /\ \A x \in Events : Holds(c, x)' /\ x.kind = "step" =>
           Holds(c, x) \/ \E i \in Steps(history) : history[i] = x
      /\ sub'[c] = "live" /\ ~lost'[c] =>
           \/ /\ sub[c] = "live" /\ ~lost[c]
              /\ \A x \in Events : x.kind = "step" /\ HoldsOnce(c, x) => HoldsOnce(c, x)'
           \/ seen'[c] = {} /\ ch'[c] = history
  <2>1. CASE Subscribe(c)
    <3>1. SubSeq(history, 1, Min({Len(history), Capacity})) = history
      <4>1. Len(history) \in Nat /\ Capacity \in Nat /\ Len(history) <= Capacity
        BY ReplayFact, StreamAssumption DEF ReplayFits, Capacity
      <4>2. Min({Len(history), Capacity}) = Len(history)
        BY <4>1 DEF Min
      <4> QED
        BY <4>2 DEF StreamTypeInv
    <3>2. /\ sub[c] = "away" /\ seen[c] = {} /\ ~lost[c]
          /\ sub' = [sub EXCEPT ![c] = "live"] /\ ch' = [ch EXCEPT ![c] = history]
          /\ UNCHANGED <<notified, seen, lost>>
      BY <2>1, <3>1 DEF Subscribe, ClientInv
    <3>3. StreamTypeInv'
      BY <1>1, <3>2 DEF StreamTypeInv
    <3>4. seen'[c] = {} /\ ch'[c] = history /\ sub'[c] = "live"
      BY <3>2 DEF StreamTypeInv
    <3>5. \A x \in Events : Holds(c, x)' /\ x.kind = "step" => \E i \in Steps(history) : history[i] = x
      BY <3>4 DEF Holds, Where, Steps
    <3> QED
      BY <3>2, <3>3, <3>4, <3>5 DEF StreamTypeInv
  <2>2. CASE Receive(c)
    <3>1. /\ sub[c] = "live" /\ ch[c] # <<>> /\ ch' = [ch EXCEPT ![c] = Tail(@)]
          /\ seen' = [seen EXCEPT ![c] = SeenAfter(c)] /\ sub' = [sub EXCEPT ![c] = SubAfter(c)]
          /\ UNCHANGED <<notified, lost>>
      BY <2>2 DEF Receive
    <3>2. ch'[c] = Tail(ch[c]) /\ seen'[c] = SeenAfter(c) /\ sub'[c] \in {"live", "ended"}
      BY <3>1 DEF StreamTypeInv, SubAfter
    <3>3. /\ ch'[c] \in Seq(Events) /\ seen'[c] \in SUBSET Events
          /\ \A x \in Events : Holds(c, x)' => Holds(c, x)
          /\ \A x \in Events : x.kind = "step" /\ HoldsOnce(c, x) => HoldsOnce(c, x)'
      BY <3>1, <3>2, TakeFact
    <3>4. StreamTypeInv'
      BY <1>1, <3>1, <3>2, <3>3 DEF StreamTypeInv
    <3> QED
      BY <3>1, <3>2, <3>3, <3>4 DEF StreamTypeInv
  <2>3. CASE Unsubscribe(c)
    <3>1. /\ sub' = [sub EXCEPT ![c] = "away"] /\ ch' = [ch EXCEPT ![c] = <<>>]
          /\ notified' = [notified EXCEPT ![c] = FALSE]
          /\ seen' = [seen EXCEPT ![c] = {}] /\ lost' = [lost EXCEPT ![c] = FALSE]
      BY <2>3 DEF Unsubscribe
    <3>2. sub'[c] = "away" /\ ch'[c] = <<>> /\ seen'[c] = {} /\ lost'[c] = FALSE
      BY <3>1 DEF StreamTypeInv
    <3>3. StreamTypeInv'
      BY <1>1, <3>1, ForgottenFact DEF StreamTypeInv
    <3>4. \A x \in Events : ~Holds(c, x)'
      BY <3>2 DEF Holds, Where
    <3> QED
      BY <3>1, <3>2, <3>3, <3>4 DEF StreamTypeInv
  <2> QED
    BY <2>1, <2>2, <2>3
<1>4. ClientInv'
  <2> SUFFICES ASSUME NEW d \in Clients
               PROVE  /\ sub'[d] = "away" => ch'[d] = <<>> /\ seen'[d] = {} /\ ~lost'[d]
                      /\ \A x \in Events :
                           Holds(d, x)' /\ x.kind = "step" =>
                             runs'[x.job] > 0 /\ (x.job = current' => x.n \in 1..emitted'["step"])
                      /\ sub'[d] = "live" /\ ~lost'[d] /\ current' # NoJob =>
                           \A n \in 1..emitted'["step"] : HoldsOnce(d, Event("step", current, n))'
    BY DEF ClientInv
  <2>1. CASE d # c
    <3>1. sub'[d] = sub[d] /\ ch'[d] = ch[d] /\ seen'[d] = seen[d] /\ lost'[d] = lost[d]
      BY <1>3, <2>1
    <3>2. \A x : Holds(d, x)' <=> Holds(d, x)
      BY <3>1 DEF Holds
    <3>3. ASSUME sub[d] = "live", ~lost[d], current # NoJob, NEW n \in 1..emitted["step"]
          PROVE  HoldsOnce(d, Event("step", current, n))'
      <4>1. HoldsOnce(d, Event("step", current, n))
        BY <3>3 DEF ClientInv
      <4> QED
        BY <1>1, <3>1, <4>1 DEF HoldsOnce, Event
    <3> QED
      BY <1>1, <3>1, <3>2, <3>3 DEF ClientInv
  <2>2. CASE d = c
    <3>1. ASSUME NEW x \in Events, Holds(c, x)', x.kind = "step"
          PROVE  runs[x.job] > 0 /\ (x.job = current => x.n \in 1..emitted["step"])
      <4>1. CASE Holds(c, x)
        BY <3>1, <4>1 DEF ClientInv
      <4>2. CASE \E i \in Steps(history) : history[i] = x
        BY <4>2, StreamQueueFact DEF HistoryInv
      <4> QED
        BY <1>3, <3>1, <4>1, <4>2
    <3>2. ASSUME sub'[c] = "live", ~lost'[c], current # NoJob, NEW n \in 1..emitted["step"]
          PROVE  HoldsOnce(c, Event("step", current, n))'
      <4>1. PICK x \in Events : x = Event("step", current, n) /\ x.kind = "step"
        BY <3>2, StreamQueueFact, EventFact
      <4>2. CASE /\ sub[c] = "live" /\ ~lost[c]
                 /\ \A y \in Events : y.kind = "step" /\ HoldsOnce(c, y) => HoldsOnce(c, y)'
        <5>1. HoldsOnce(c, x)
          BY <3>2, <4>1, <4>2 DEF ClientInv
        <5>2. HoldsOnce(c, x)'
          BY <4>1, <4>2, <5>1
        <5> QED
          BY <1>1, <4>1, <5>2 DEF HoldsOnce, Event
      <4>3. CASE seen'[c] = {} /\ ch'[c] = history
        <5>1. PICK i \in Steps(history) : history[i] = x
          BY <3>2, <4>1 DEF HistoryInv
        <5>2. i \in Where(history, x) /\ \A k \in Where(history, x) : k \in Steps(history)
          BY <4>1, <5>1 DEF Where, Steps
        <5>3. \A k, l \in Where(history, x) : k = l
          BY <5>2 DEF HistoryInv, Where
        <5>4. HoldsOnce(c, x)'
          BY <4>3, <5>2, <5>3 DEF HoldsOnce
        <5> QED
          BY <1>1, <4>1, <5>4 DEF HoldsOnce, Event
      <4> QED
        BY <1>3, <3>2, <4>2, <4>3
    <3> QED
      BY <1>1, <1>3, <2>2, <3>1, <3>2
  <2> QED
    BY <2>1, <2>2
<1> QED
  BY <1>2, <1>3, <1>4

LEMMA StreamInitInv == StreamInit => StreamInv
<1> SUFFICES ASSUME StreamInit PROVE StreamInv
  OBVIOUS
<1>1. IInv
  BY InitInv DEF StreamInit
<1>2. StreamTypeInv
  BY ForgottenFact, NoneFact DEF StreamInit, StreamTypeInv
<1>3. HistoryInv
  BY ForgottenFact, NoneFact DEF StreamInit, HistoryInv, QueueInit
<1>4. ClientInv
  <2>1. \A c \in Clients : sub[c] = "away" /\ ch[c] = <<>> /\ seen[c] = {} /\ ~lost[c]
    BY DEF StreamInit
  <2>2. \A c \in Clients, e \in Events : ~Holds(c, e)
    BY <2>1 DEF Holds, Where
  <2> QED
    BY <2>1, <2>2 DEF ClientInv
<1> QED
  BY <1>1, <1>2, <1>3, <1>4 DEF StreamInv

LEMMA StreamStepInv == StreamInv /\ [StreamNext]_streamVars => StreamInv'
<1> SUFFICES ASSUME StreamInv, [StreamNext]_streamVars
             PROVE  StreamTypeInv' /\ HistoryInv' /\ ClientInv'
  BY StepInv, StreamStepIsQueue DEF StreamInv
<1>1. ASSUME UNCHANGED eventVars, UNCHANGED <<current, runs>>
      PROVE  StreamTypeInv' /\ HistoryInv' /\ ClientInv'
  <2>1. UNCHANGED <<history, emitted, sub, ch, notified, seen, lost>>
    BY <1>1 DEF eventVars, clientVars
  <2>2. StreamTypeInv'
    BY <2>1 DEF StreamInv, StreamTypeInv
  <2>3. HistoryInv'
    BY <1>1, <2>1 DEF StreamInv, HistoryInv, Event
  <2>4. ClientInv'
    BY <1>1, <2>1 DEF StreamInv, ClientInv, Holds, HoldsOnce, Event
  <2> QED
    BY <2>2, <2>3, <2>4
<1>2. CASE (QuietWorker \/ QuietCallers) /\ UNCHANGED eventVars
  BY <1>1, <1>2, QuietFact
<1>3. CASE StreamPick
  BY <1>3, PickStep
<1>4. CASE StreamPublishEnd
  BY <1>4, PublishEndStep
<1>5. CASE Emit("step")
  BY <1>5, StepEventStep
<1>6. CASE Emit("other")
  <2>1. current \in Jobs /\ emitted["other"] + 1 \in Nat
    BY <1>6, StreamQueueFact DEF Emit, StreamInv, StreamTypeInv
  <2>2. PICK e \in Events : e = Event("other", current, emitted["other"] + 1) /\ e.kind = "other"
    BY <2>1, EventFact
  <2>3. emitted' = [emitted EXCEPT !["other"] = @ + 1] /\ Publish(e) /\ UNCHANGED <<current, runs>>
    BY <1>6, <2>2 DEF Emit, queueVars, lockVars, workVars
  <2>4. emitted' \in [{"step", "other"} -> Nat] /\ emitted'["step"] = emitted["step"]
    BY <2>1, <2>3 DEF StreamInv, StreamTypeInv
  <2> QED
    BY <2>1, <2>2, <2>3, <2>4, NoJobAssumption, OtherEventStep
<1>7. ASSUME NEW j \in Jobs, StreamDropEnd(j) PROVE StreamTypeInv' /\ HistoryInv' /\ ClientInv'
  <2>1. PICK e \in Events : e = Event("end", j, 0) /\ e.kind = "end"
    BY EventFact
  <2>2. Publish(e) /\ emitted' = emitted /\ UNCHANGED <<current, runs>>
    BY <1>7, <2>1 DEF StreamDropEnd, DropEnd, lockVars, workVars
  <2>3. emitted' \in [{"step", "other"} -> Nat]
    BY <2>2 DEF StreamInv, StreamTypeInv
  <2> QED
    BY <2>1, <2>2, <2>3, OtherEventStep
<1>8. ASSUME NEW c \in Clients, Subscribe(c) \/ Receive(c) \/ Unsubscribe(c)
      PROVE  StreamTypeInv' /\ HistoryInv' /\ ClientInv'
  BY <1>8, ClientStep
<1>9. CASE UNCHANGED streamVars
  BY <1>1, <1>9 DEF streamVars, queueVars, lockVars, workVars
<1> QED
  BY <1>2, <1>3, <1>4, <1>5, <1>6, <1>7, <1>8, <1>9 DEF StreamNext

LEMMA StreamInvariance == StreamSpec => []StreamInv
  BY StreamInitInv, StreamStepInv, PTL DEF StreamSpec

-----------------------------------------------------------------------------
(* The theorems about the stream *)

\* Subscribe: the replay always fits, with room for a live event after it,
\* whatever jobs emit and however many queued jobs are cancelled meanwhile.
THEOREM ReplayAlwaysFits == StreamSpec => []ReplayFits
<1>1. StreamInv => ReplayFits
  BY ReplayFact
<1> QED
  BY <1>1, StreamInvariance, PTL

\* appendHistoryLocked, Subscribe, deliverLocked: a connection that no event was
\* dropped for has every step of the running job, once, whenever it came.
THEOREM EveryStepArrives == StreamSpec => []StepsReachEveryClient
<1>1. ASSUME StreamInv, NEW c \in Clients, sub[c] = "live", ~lost[c], current # NoJob,
             NEW n \in 1..emitted["step"]
      PROVE  LET e == Event("step", current, n)
             IN Cardinality({i \in DOMAIN ch[c] : ch[c][i] = e})
                  + (IF e \in seen[c] THEN 1 ELSE 0) = 1
  <2> DEFINE e == Event("step", current, n)
  <2>1. HoldsOnce(c, e)
    BY <1>1 DEF StreamInv, ClientInv
  <2> HIDE DEF e
  <2>2. CASE e \in seen[c]
    <3>1. Where(ch[c], e) = {}
      BY <2>1, <2>2 DEF HoldsOnce
    <3>2. Cardinality(Where(ch[c], e)) = 0
      BY <3>1, FS_EmptySet
    <3> QED
      BY <2>2, <3>2 DEF Where, e
  <2>3. CASE e \notin seen[c]
    <3>1. PICK i \in Where(ch[c], e) : TRUE
      BY <2>1, <2>3 DEF HoldsOnce
    <3>2. Where(ch[c], e) = {i}
      BY <2>1, <3>1 DEF HoldsOnce
    <3>3. Cardinality(Where(ch[c], e)) = 1
      BY <3>2, FS_Singleton
    <3> QED
      BY <2>3, <3>3 DEF Where, e
  <2> QED
    BY <2>2, <2>3
<1>2. StreamInv => StepsReachEveryClient
  BY <1>1 DEF StepsReachEveryClient
<1> QED
  BY <1>2, StreamInvariance, PTL

\* Whatever the clients do, the queue with its stream implements the life cycle.
THEOREM StreamRefinement == StreamSpec => ImplementsLifecycle
  BY StreamIsQueue, Refinement

=============================================================================
