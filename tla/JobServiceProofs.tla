-------------------------- MODULE JobServiceProofs --------------------------
(***************************************************************************)
(* Proofs about JobService for any jobs, seconds, suffixes and crashes.    *)
(* QueueInv is what the service relies on of the queue; unlike the         *)
(* invariant of JobQueueProofs it outlives a crash, after which the queue  *)
(* counts from zero again.  The rest says, of a job and its directory,     *)
(* what the job, its hook and the index have made of it.                   *)
(***************************************************************************)
EXTENDS JobService, JobQueueProofs

InLine == Range(pending)

Once(s) == \A a, b \in DOMAIN s : s[a] = s[b] => a = b

Untouched(j) == hooks[j] = 0 /\ ends[j] = 0 /\ j \notin crashed

QueueTypes ==
  /\ pending \in Seq(Jobs) /\ current \in Jobs \cup {NoJob} /\ nextID \in Nat
  /\ worker \in {"waiting", "running", "returned", "hook", "ending", "stopped"}
  /\ (current = NoJob) <=> (worker \in {"waiting", "stopped"})
  /\ id \in [Jobs -> Nat] /\ hooks \in [Jobs -> Nat] /\ ends \in [Jobs -> Nat]
  /\ dropping \in [Jobs -> {"no", "hook", "ending", "gone"}]
  /\ verdict \in [Jobs -> Terminal \cup {NoState}] /\ crashed \subseteq Jobs

\* Where a job can be, and what has been said of it there.
QueueInv ==
  /\ QueueTypes /\ Once(pending)
  /\ \A j \in Jobs :
       /\ id[j] = 0 => j # current /\ dropping[j] = "no" /\ Untouched(j)
       /\ j \in InLine => j # current /\ id[j] > 0 /\ dropping[j] = "no" /\ Untouched(j)
       /\ j = current => /\ dropping[j] = "no" /\ ends[j] = 0 /\ j \notin crashed
                         /\ hooks[j] = IF worker = "ending" THEN 1 ELSE 0
       /\ dropping[j] = "hook" => Untouched(j)
       /\ dropping[j] = "ending" => hooks[j] > 0
       /\ ends[j] > 0 => hooks[j] > 0
       /\ hooks[j] > 0 => verdict[j] \in Terminal
  /\ worker \in {"hook", "ending"} => state \in Terminal
  /\ worker = "hook" /\ state = "done" => err = "nil"

-----------------------------------------------------------------------------
(* The queue                                                                *)

LEMMA LineFact ==
  ASSUME NEW s \in Seq(Jobs), Once(s)
  PROVE  /\ \A j \in Jobs \ Range(s) :
              /\ Append(s, j) \in Seq(Jobs) /\ Once(Append(s, j))
              /\ Range(Append(s, j)) = Range(s) \cup {j}
         /\ s # <<>> => /\ Tail(s) \in Seq(Jobs) /\ Once(Tail(s)) /\ Head(s) \in Range(s)
                        /\ Range(Tail(s)) \subseteq Range(s) \ {Head(s)}
         /\ \A i \in DOMAIN s :
              /\ RemoveAt(s, i) \in Seq(Jobs) /\ Once(RemoveAt(s, i)) /\ s[i] \in Range(s)
              /\ Range(RemoveAt(s, i)) \subseteq Range(s) \ {s[i]}
<1>1. ASSUME NEW j \in Jobs \ Range(s)
      PROVE  /\ Append(s, j) \in Seq(Jobs) /\ Once(Append(s, j))
             /\ Range(Append(s, j)) = Range(s) \cup {j}
  <2> DEFINE t == Append(s, j)
             n == Len(s) + 1
  <2>1. /\ t \in Seq(Jobs) /\ DOMAIN t = DOMAIN s \cup {n} /\ t[n] = j
        /\ \A a \in DOMAIN s : t[a] = s[a] /\ a # n
    BY AppendFact
  <2> HIDE DEF t, n
  <2>2. \A a \in DOMAIN s : s[a] # j
    BY DEF Range
  <2>3. Once(t)
    BY <2>1, <2>2 DEF Once
  <2>4. Range(t) = Range(s) \cup {j}
    BY <2>1 DEF Range
  <2> QED
    BY <2>1, <2>3, <2>4 DEF t
<1>2. ASSUME s # <<>>
      PROVE  /\ Tail(s) \in Seq(Jobs) /\ Once(Tail(s)) /\ Head(s) \in Range(s)
             /\ Range(Tail(s)) \subseteq Range(s) \ {Head(s)}
  <2> DEFINE t == Tail(s)
             h == Head(s)
  <2>1. /\ t \in Seq(Jobs) /\ 1 \in DOMAIN s /\ h = s[1]
        /\ \A a \in DOMAIN t : a \in Nat /\ a + 1 \in DOMAIN s /\ a + 1 > 1 /\ t[a] = s[a + 1]
    BY <1>2, TailFact
  <2> HIDE DEF t, h
  <2>2. Once(t)
    <3> SUFFICES ASSUME NEW a \in DOMAIN t, NEW b \in DOMAIN t, t[a] = t[b] PROVE a = b
      BY DEF Once
    <3>1. a + 1 = b + 1 /\ a \in Nat /\ b \in Nat
      BY <2>1 DEF Once
    <3> QED
      BY <3>1
  <2>3. \A a \in DOMAIN t : t[a] \in Range(s) /\ t[a] # h
    BY <2>1 DEF Once, Range
  <2>4. Range(t) \subseteq Range(s) \ {h} /\ h \in Range(s)
    BY <2>1, <2>3 DEF Range
  <2> QED
    BY <2>1, <2>2, <2>4 DEF t, h
<1>3. ASSUME NEW i \in DOMAIN s
      PROVE  /\ RemoveAt(s, i) \in Seq(Jobs) /\ Once(RemoveAt(s, i)) /\ s[i] \in Range(s)
             /\ Range(RemoveAt(s, i)) \subseteq Range(s) \ {s[i]}
  <2> DEFINE t == RemoveAt(s, i)
             from(a) == IF a < i THEN a ELSE a + 1
  <2>1. /\ t \in Seq(Jobs) /\ DOMAIN t = 1..(Len(s) - 1)
        /\ \A a \in 1..(Len(s) - 1) : t[a] = s[from(a)]
        /\ DOMAIN s = 1..Len(s) /\ Len(s) \in Nat /\ i \in Nat
    BY RemoveAtFact
  <2> HIDE DEF t
  <2>2. \A a \in DOMAIN t : from(a) \in DOMAIN s /\ from(a) # i /\ t[a] = s[from(a)]
    BY <2>1
  <2>3. \A a, b \in DOMAIN t : from(a) = from(b) => a = b
    BY <2>1
  <2>4. Once(t)
    BY <2>2, <2>3 DEF Once
  <2>5. \A a \in DOMAIN t : t[a] \in Range(s) /\ t[a] # s[i]
    BY <2>2 DEF Once, Range
  <2>6. Range(t) \subseteq Range(s) \ {s[i]} /\ s[i] \in Range(s)
    BY <2>5 DEF Range
  <2> QED
    BY <2>1, <2>4, <2>6 DEF t
<1> QED
  BY <1>1, <1>2, <1>3

\* What the queue does to the jobs it holds.
LEMMA QueueKept ==
  ASSUME QueueInv, QueueNext, crashed' = crashed
  PROVE  QueueInv'
<1> USE NoJobAssumption DEF lockVars, callVars, workVars, toldVars
<1> DEFINE Places == \A j \in Jobs :
       /\ id[j] = 0 => j # current /\ dropping[j] = "no" /\ Untouched(j)
       /\ j \in InLine => j # current /\ id[j] > 0 /\ dropping[j] = "no" /\ Untouched(j)
       /\ j = current => /\ dropping[j] = "no" /\ ends[j] = 0 /\ j \notin crashed
                         /\ hooks[j] = IF worker = "ending" THEN 1 ELSE 0
       /\ dropping[j] = "hook" => Untouched(j)
       /\ dropping[j] = "ending" => hooks[j] > 0
       /\ ends[j] > 0 => hooks[j] > 0
       /\ hooks[j] > 0 => verdict[j] \in Terminal
<1> DEFINE Said ==
       /\ worker \in {"hook", "ending"} => state \in Terminal
       /\ worker = "hook" /\ state = "done" => err = "nil"
<1>0. QueueTypes /\ Once(pending) /\ Places /\ Said /\ pending \in Seq(Jobs)
  BY DEF QueueInv, QueueTypes
<1>a. QueueTypes' /\ Once(pending)' /\ Places' /\ Said' => QueueInv'
  BY DEF QueueInv
<1>b. pending' = pending => pending' \in Seq(Jobs) /\ Once(pending)' /\ InLine' = InLine
  BY <1>0 DEF InLine
<1>c. pending' = <<>> => pending' \in Seq(Jobs) /\ Once(pending)' /\ InLine' = {}
  BY DEF Once, InLine, Range
<1>d. InLine \subseteq Jobs
  BY <1>0 DEF InLine, Range
<1>1. ASSUME NEW j \in Jobs, Submit(j) PROVE QueueInv'
  <2> USE <1>1 DEF Submit
  <2>1. j \notin InLine
    BY <1>0
  <2>2. pending' \in Seq(Jobs) /\ Once(pending)' /\ InLine' = InLine \cup {j}
    BY <1>0, <2>1, LineFact DEF InLine
  <2>3. QueueTypes'
    BY <1>0, <2>2 DEF QueueTypes
  <2>4. Places'
    BY <1>0, <2>2 DEF QueueTypes, Untouched
  <2> QED
    BY <1>0, <1>a, <2>2, <2>3, <2>4
<1>2. ASSUME NEW j \in Jobs, CancelQueued(j) PROVE QueueInv'
  <2> USE <1>2 DEF CancelQueued
  <2>1. /\ pending' \in Seq(Jobs) /\ Once(pending)' /\ j \in InLine
        /\ InLine' \subseteq InLine \ {j}
    BY <1>0, LineFact DEF InLine
  <2>2. QueueTypes'
    BY <1>0, <2>1 DEF QueueTypes
  <2>3. Places'
    BY <1>0, <2>1 DEF QueueTypes, Untouched
  <2> QED
    BY <1>0, <1>a, <2>1, <2>2, <2>3
<1>3. CASE Pick
  <2> USE <1>3 DEF Pick
  <2> DEFINE h == Head(pending)
  <2>1. /\ pending' \in Seq(Jobs) /\ Once(pending)' /\ h \in InLine
        /\ InLine' \subseteq InLine \ {h}
    BY <1>0, LineFact DEF InLine
  <2>2. h \in Jobs /\ current' = h /\ worker' = "running" /\ worker = "waiting"
    BY <1>d, <2>1
  <2> HIDE DEF h
  <2>3. QueueTypes'
    BY <1>0, <2>1, <2>2 DEF QueueTypes
  <2>4. Places'
    BY <1>0, <2>1, <2>2 DEF QueueTypes, Untouched
  <2> QED
    BY <1>0, <1>a, <2>1, <2>2, <2>3, <2>4
<1>4. ASSUME Close \/ Stop PROVE QueueInv'
  <2>1. pending' \in Seq(Jobs) /\ Once(pending)' /\ InLine' \subseteq InLine
    BY <1>4, <1>b, <1>c DEF Close, Stop
  <2>2. QueueTypes' /\ Places' /\ Said'
    BY <1>0, <1>4, <2>1 DEF QueueTypes, Untouched, Close, Stop
  <2> QED
    BY <1>a, <2>1, <2>2
<1>5. ASSUME NEW j \in Jobs, CancelRunning(j) \/ FireCancel(j) PROVE QueueInv'
  <2>1. QueueTypes' /\ Places' /\ Said' /\ Once(pending)'
    BY <1>0, <1>5, <1>b DEF QueueTypes, Untouched, CancelRunning, FireCancel
  <2> QED
    BY <1>a, <2>1
<1>6. ASSUME NEW j \in Jobs, DropHook(j) \/ DropEnd(j) PROVE QueueInv'
  <2>1. Once(pending)' /\ InLine' = InLine /\ pending' \in Seq(Jobs)
    BY <1>6, <1>b DEF DropHook, DropEnd
  <2>2. CASE DropHook(j)
    <3> USE <2>2 DEF DropHook, CallHook
    <3>1. QueueTypes' /\ Said'
      BY <1>0, <2>1 DEF QueueTypes, Terminal
    <3>2. Places'
      BY <1>0, <2>1 DEF QueueTypes, Untouched, Terminal
    <3> QED
      BY <1>a, <2>1, <3>1, <3>2
  <2>3. CASE DropEnd(j)
    <3> USE <2>3 DEF DropEnd, EmitEnd
    <3>1. QueueTypes' /\ Said'
      BY <1>0, <2>1 DEF QueueTypes, Terminal
    <3>2. Places'
      BY <1>0, <2>1 DEF QueueTypes, Untouched, Terminal
    <3> QED
      BY <1>a, <2>1, <3>1, <3>2
  <2> QED
    BY <1>6, <2>2, <2>3
<1>7. ASSUME (\E e \in Errors : RunReturns(e)) \/ Judge PROVE QueueInv'
  <2>1. Once(pending)' /\ InLine' = InLine /\ pending' \in Seq(Jobs)
    BY <1>7, <1>b DEF RunReturns, Judge
  <2>2. QueueTypes' /\ Places' /\ Said'
    BY <1>0, <1>7, <2>1 DEF QueueTypes, Untouched, RunReturns, Judge, Verdict, Terminal, Errors
  <2> QED
    BY <1>a, <2>1, <2>2
<1>8. ASSUME RunFinalizer \/ PublishEnd PROVE QueueInv'
  <2>1. Once(pending)' /\ InLine' = InLine /\ pending' \in Seq(Jobs)
    BY <1>8, <1>b DEF RunFinalizer, PublishEnd
  <2>2. current \in Jobs
    BY <1>0, <1>8 DEF QueueTypes, RunFinalizer, PublishEnd
  <2>3. CASE RunFinalizer
    <3> USE <2>3 DEF RunFinalizer, CallHook
    <3>1. QueueTypes' /\ Said'
      BY <1>0, <2>1, <2>2 DEF QueueTypes, Terminal
    <3>2. Places'
      BY <1>0, <2>1, <2>2 DEF QueueTypes, Untouched
    <3> QED
      BY <1>a, <2>1, <3>1, <3>2
  <2>4. CASE PublishEnd
    <3> USE <2>4 DEF PublishEnd, EmitEnd
    <3>1. QueueTypes' /\ Said'
      BY <1>0, <2>1, <2>2 DEF QueueTypes
    <3>2. Places'
      BY <1>0, <2>1, <2>2 DEF QueueTypes, Untouched
    <3> QED
      BY <1>a, <2>1, <3>1, <3>2
  <2> QED
    BY <1>8, <2>3, <2>4
<1> QED
  BY <1>1, <1>2, <1>3, <1>4, <1>5, <1>6, <1>7, <1>8 DEF QueueNext, Worker, Callers

LEMMA QueueCrash == QueueInv /\ Crash => QueueInv'
<1> SUFFICES ASSUME QueueInv, Crash PROVE QueueInv'
  OBVIOUS
<1> USE DEF Crash, toldVars
<1>1. pending' \in Seq(Jobs) /\ Once(pending)' /\ InLine' = {}
  BY DEF Once, InLine, Range
<1>2. QueueTypes'
  BY <1>1 DEF QueueInv, QueueTypes
<1> QED
  BY <1>1, <1>2, NoJobAssumption DEF QueueInv, QueueTypes, Untouched

-----------------------------------------------------------------------------
(* Directories, index and start                                             *)

DiskTypes ==
  /\ boot \in {"up", "down", "marked"}
  /\ tmp \in [Ids -> Contents] /\ final \in [Ids -> Contents]
  /\ free \in [Jobs -> Ids \cup {NoDir}] /\ dirOf \in [Jobs -> Ids \cup {NoDir}]
  /\ ran \in [Jobs -> {"no", "began", "returned"}]
  /\ fin \in [Jobs -> {"no", "moved", "reconciled", "over"}]
  /\ byQueueID \subseteq Jobs /\ byJobKey \in [Ids -> Jobs \cup {NoJob}]
  /\ given \in [Ids -> 0..2]

\* A job is submitted with a directory, and its hook is where the queue is.
PlaceInv ==
  \A j \in Jobs :
    /\ free[j] # NoDir => id[j] = 0 /\ dirOf[j] = NoDir
    /\ id[j] = 0 => ran[j] = "no" /\ fin[j] = "no"
    /\ id[j] > 0 => dirOf[j] # NoDir
    /\ fin[j] \in {"moved", "reconciled"} => Finalizing(j)
    /\ fin[j] = "over" => hooks[j] > 0

\* Before the server listens, nothing of the last one is left but the disk.
DownInv ==
  boot # "up" =>
    /\ pending = <<>> /\ current = NoJob
    /\ \A j \in Jobs :
         /\ free[j] = NoDir /\ dropping[j] \notin {"hook", "ending"}
         /\ id[j] = 0 => dirOf[j] = NoDir
         /\ id[j] > 0 /\ hooks[j] = 0 => j \in crashed

Base == QueueInv /\ DiskTypes /\ PlaceInv /\ DownInv

\* Nothing happens in a server that is not up.
LEMMA UpFact ==
  ASSUME Base, ServiceNext
  PROVE  boot = "up" \/ Crash \/ MarkRunningInterrupted \/ RemoveOrphanDirs
<1> SUFFICES ASSUME boot # "up", ~Crash, ~MarkRunningInterrupted, ~RemoveOrphanDirs
             PROVE  FALSE
  OBVIOUS
<1>1. /\ pending = <<>> /\ current = NoJob /\ InLine = {} /\ DOMAIN pending = {}
      /\ \A j \in Jobs : /\ free[j] = NoDir /\ dropping[j] \notin {"hook", "ending"}
                         /\ id[j] = 0 => dirOf[j] = NoDir
  BY DEF Base, DownInv, InLine, Range
<1>2. \A j \in Jobs : current # j /\ ~Finalizing(j) /\ fin[j] # "moved"
  BY <1>1, NoJobAssumption DEF Finalizing, Base, PlaceInv
<1>3. ASSUME NEW j \in Jobs,
             NewDirStat(j) \/ NewDirTaken(j) \/ NewDirMake(j) \/ Queue(j) \/ QueueRefused(j)
      PROVE  FALSE
  BY <1>1, <1>3 DEF NewDirStat, NewDirTaken, NewDirMake, Queue, QueueRefused, Submit
<1>4. ASSUME NEW j \in Jobs, Cancel(j) \/ Begin(j) \/ Return(j) PROVE FALSE
  BY <1>1, <1>2, <1>4 DEF Cancel, CancelRunning, CancelQueued, Begin, Return
<1>5. ASSUME NEW j \in Jobs, FinalizePending(j) \/ Reconcile(j) \/ FinalizeReturns(j)
      PROVE  FALSE
  BY <1>1, <1>2, <1>5 DEF FinalizePending, Reconcile, FinalizeReturns, DropHook
<1> QED
  BY <1>3, <1>4, <1>5 DEF ServiceNext, QueueStep, Delete

\* What a step does to the queue.
LEMMA QueueFact ==
  ASSUME Base, ServiceNext, ~Crash
  PROVE  crashed' = crashed /\ QueueInv'
<1>1. crashed' = crashed /\ (QueueNext \/ UNCHANGED queueVars)
  <2>1. CASE QueueStep
    BY <2>1 DEF QueueStep, QueueNext, Worker, Callers, serviceVars, bootVars
  <2>2. ASSUME NEW j \in Jobs,
               NewDirStat(j) \/ NewDirTaken(j) \/ NewDirMake(j) \/ QueueRefused(j)
               \/ Begin(j) \/ FinalizePending(j) \/ Reconcile(j)
        PROVE  crashed' = crashed /\ UNCHANGED queueVars
    BY <2>2 DEF NewDirStat, NewDirTaken, NewDirMake, QueueRefused, Begin, FinalizePending,
                Reconcile, bootVars
  <2>3. ASSUME NEW j \in Jobs, Queue(j) \/ Cancel(j) \/ FinalizeReturns(j)
        PROVE  crashed' = crashed /\ QueueNext
    BY <2>3 DEF Queue, Cancel, FinalizeReturns, bootVars, serviceVars, QueueNext, Worker, Callers
  <2>4. ASSUME NEW j \in Jobs, Return(j) PROVE crashed' = crashed /\ QueueNext
    BY <2>4 DEF Return, ExportReturns, AnalysisReturns, Errors, bootVars, QueueNext, Worker
  <2>5. ASSUME MarkRunningInterrupted \/ RemoveOrphanDirs \/ \E i \in Ids : Delete(i)
        PROVE  crashed' = crashed /\ UNCHANGED queueVars
    BY <2>5 DEF MarkRunningInterrupted, RemoveOrphanDirs, Delete, bootVars
  <2> QED
    BY <2>1, <2>2, <2>3, <2>4, <2>5 DEF ServiceNext
<1>2. CASE QueueNext
  BY <1>1, <1>2, QueueKept DEF Base
<1>3. CASE UNCHANGED queueVars
  <2>1. UNCHANGED <<pending, current, nextID, id, worker, err, state, dropping, hooks, verdict,
                    ends, crashed>>
    BY <1>1, <1>3 DEF queueVars, lockVars, workVars, callVars, toldVars
  <2> QED
    BY <2>1 DEF Base, QueueInv, QueueTypes, InLine, Untouched
<1> QED
  BY <1>1, <1>2, <1>3

LEMMA DownStep == Base /\ ServiceNext => DownInv'
<1> SUFFICES ASSUME Base, ServiceNext PROVE DownInv'
  OBVIOUS
<1>1. CASE Crash
  <2> USE <1>1 DEF Crash, toldVars
  <2>1. ASSUME NEW j \in Jobs
        PROVE  /\ free'[j] = NoDir /\ dropping'[j] \notin {"hook", "ending"}
               /\ id'[j] = 0 => dirOf'[j] = NoDir
               /\ id'[j] > 0 /\ hooks'[j] = 0 => j \in crashed'
    <3>1. ends[j] \in Nat /\ hooks[j] \in Nat /\ (ends[j] > 0 => hooks[j] > 0)
      BY DEF Base, QueueInv, QueueTypes
    <3> QED
      BY <3>1
  <2> QED
    BY <2>1 DEF DownInv
<1>2. CASE MarkRunningInterrupted
  <2>1. UNCHANGED <<pending, current, id, dropping, hooks, crashed, free, dirOf>>
    BY <1>2 DEF MarkRunningInterrupted, queueVars, lockVars, callVars, toldVars
  <2>2. boot = "down"
    BY <1>2 DEF MarkRunningInterrupted
  <2> QED
    BY <2>1, <2>2 DEF Base, DownInv
<1>3. CASE RemoveOrphanDirs
  BY <1>3 DEF RemoveOrphanDirs, DownInv
<1>4. CASE boot = "up" /\ ~Crash /\ ~MarkRunningInterrupted /\ ~RemoveOrphanDirs
  <2>1. boot' = boot
    BY <1>4 DEF ServiceNext, QueueStep, serviceVars, bootVars, NewDirStat, NewDirTaken,
                NewDirMake, Queue, QueueRefused, Cancel, Begin, Return, FinalizePending,
                Reconcile, FinalizeReturns, Delete
  <2> QED
    BY <1>4, <2>1 DEF DownInv
<1> QED
  BY <1>1, <1>2, <1>3, <1>4, UpFact

\* How often an id was given is counted up to 2.
LEMMA MinFact == \A n \in 0..2 : Min({n + 1, 2}) = IF n = 0 THEN 1 ELSE 2
<1> SUFFICES ASSUME NEW n \in 0..2 PROVE Min({n + 1, 2}) = IF n = 0 THEN 1 ELSE 2
  OBVIOUS
<1> DEFINE m == IF n = 0 THEN 1 ELSE 2
<1>1. m \in {n + 1, 2} /\ \A y \in {n + 1, 2} : m <= y
  OBVIOUS
<1>2. ASSUME NEW x \in {n + 1, 2}, \A y \in {n + 1, 2} : x <= y PROVE x = m
  BY <1>1, <1>2
<1> QED
  BY <1>1, <1>2 DEF Min

\* A directory that is renamed away, emptied or written keeps to Contents.
LEMMA TypesStep == Base /\ ServiceNext => DiskTypes'
<1> SUFFICES ASSUME Base, ServiceNext PROVE DiskTypes'
  OBVIOUS
<1> USE DEF Contents, States, Terminal
<1>0. /\ boot \in {"up", "down", "marked"}
      /\ tmp \in [Ids -> Contents] /\ final \in [Ids -> Contents]
      /\ free \in [Jobs -> Ids \cup {NoDir}] /\ dirOf \in [Jobs -> Ids \cup {NoDir}]
      /\ ran \in [Jobs -> {"no", "began", "returned"}]
      /\ fin \in [Jobs -> {"no", "moved", "reconciled", "over"}]
      /\ byQueueID \subseteq Jobs /\ byJobKey \in [Ids -> Jobs \cup {NoJob}]
      /\ given \in [Ids -> 0..2]
  BY DEF Base, DiskTypes
<1>1. ASSUME QueueStep \/ \E j \in Jobs : Cancel(j) PROVE DiskTypes'
  BY <1>0, <1>1 DEF QueueStep, Cancel, serviceVars, bootVars, diskVars, indexVars, pastVars,
                    DiskTypes
<1>2. ASSUME NEW j \in Jobs, NewDirStat(j) PROVE DiskTypes'
  BY <1>0, <1>2 DEF NewDirStat, bootVars, diskVars, indexVars, pastVars, DiskTypes
<1>3. ASSUME NEW j \in Jobs, NewDirTaken(j) PROVE DiskTypes'
  <2>1. free[j] \in Ids
    BY <1>0, <1>3 DEF NewDirTaken
  <2>2. \A x \in RandomSuffixes : [free[j] EXCEPT !.suffix = x] \in Ids
    BY <2>1 DEF Ids
  <2> QED
    BY <1>0, <1>3, <2>2 DEF NewDirTaken, bootVars, diskVars, indexVars, pastVars, DiskTypes
<1>4. ASSUME NEW j \in Jobs, NewDirMake(j) PROVE DiskTypes'
  <2>1. free[j] \in Ids
    BY <1>0, <1>4 DEF NewDirMake
  <2>2. \A n \in 0..2 : Min({n + 1, 2}) \in 0..2
    BY MinFact
  <2>3. given' \in [Ids -> 0..2]
    BY <1>0, <1>4, <2>1, <2>2 DEF NewDirMake
  <2> QED
    BY <1>0, <1>4, <2>1, <2>3 DEF NewDirMake, bootVars, indexVars, DiskTypes
<1>5. ASSUME NEW j \in Jobs, Queue(j) PROVE DiskTypes'
  BY <1>0, <1>5 DEF Queue, bootVars, diskVars, pastVars, DiskTypes
<1>6. ASSUME NEW j \in Jobs, QueueRefused(j) PROVE DiskTypes'
  BY <1>0, <1>6 DEF QueueRefused, Untrack, indexVars, bootVars, pastVars, DiskTypes
<1>7. ASSUME NEW j \in Jobs, Begin(j) PROVE DiskTypes'
  BY <1>0, <1>7 DEF Begin, indexVars, bootVars, pastVars, DiskTypes
<1>8. ASSUME NEW j \in Jobs, Return(j) PROVE DiskTypes'
  <2>1. dirOf[j] \in Ids
    BY <1>8, NoJobAssumption DEF Base, QueueInv, QueueTypes, PlaceInv, DiskTypes, Return
  <2>2. \A e \in Errors : Guess(j, e) \in Contents
    BY DEF Guess
  <2>3. tmp' \in [Ids -> Contents] /\ final' \in [Ids -> Contents]
    BY <1>0, <1>8, <2>1, <2>2 DEF Return, AnalysisReturns, ExportReturns, diskVars
  <2> QED
    BY <1>0, <1>8, <2>3 DEF Return, indexVars, bootVars, pastVars, DiskTypes
<1>9. ASSUME NEW j \in Jobs, FinalizePending(j) PROVE DiskTypes'
  BY <1>0, <1>9 DEF FinalizePending, TakenCareOf, Discarded, Committing, LeftBehind, diskVars,
                    indexVars,
                    bootVars, DiskTypes
<1>10. ASSUME NEW j \in Jobs, Reconcile(j) PROVE DiskTypes'
  <2>1. FinalState(j) \in Contents
    BY <1>10 DEF Reconcile, FinalState, Base, PlaceInv, Finalizing, QueueInv
  <2> QED
    BY <1>0, <1>10, <2>1 DEF Reconcile, indexVars, bootVars, pastVars, DiskTypes
<1>11. ASSUME NEW j \in Jobs, FinalizeReturns(j) PROVE DiskTypes'
  <2>1. UNCHANGED <<byQueueID, byJobKey>> \/ Untrack(j, dirOf[j])
    BY <1>11 DEF FinalizeReturns, indexVars
  <2>2. byQueueID' \subseteq Jobs /\ byJobKey' \in [Ids -> Jobs \cup {NoJob}]
    BY <1>0, <2>1 DEF Untrack
  <2> QED
    BY <1>0, <1>11, <2>2 DEF FinalizeReturns, diskVars, bootVars, pastVars, DiskTypes
<1>12. ASSUME NEW i \in Ids, Delete(i) PROVE DiskTypes'
  <2>1. \A c \in Remains(final[i]) \cup {"absent"} : c \in Contents
    BY <1>0, <1>12 DEF Remains
  <2>2. final' \in [Ids -> Contents]
    BY <1>0, <1>12, <2>1 DEF Delete
  <2> QED
    BY <1>0, <1>12, <2>2 DEF Delete, indexVars, bootVars, DiskTypes
<1>13. ASSUME Crash \/ MarkRunningInterrupted \/ RemoveOrphanDirs PROVE DiskTypes'
  BY <1>0, <1>13 DEF Crash, MarkRunningInterrupted, RemoveOrphanDirs, diskVars, indexVars,
                     pastVars, DiskTypes
<1> QED
  BY <1>1, <1>2, <1>3, <1>4, <1>5, <1>6, <1>7, <1>8, <1>9, <1>10, <1>11, <1>12, <1>13
     DEF ServiceNext

LEMMA PlaceStep == Base /\ ServiceNext => PlaceInv'
<1> SUFFICES ASSUME Base, ServiceNext PROVE PlaceInv'
  OBVIOUS
<1> USE DEF lockVars, workVars, callVars, toldVars, queueVars
<1>0. /\ free \in [Jobs -> Ids \cup {NoDir}] /\ dirOf \in [Jobs -> Ids \cup {NoDir}]
      /\ ran \in [Jobs -> {"no", "began", "returned"}]
      /\ fin \in [Jobs -> {"no", "moved", "reconciled", "over"}]
      /\ id \in [Jobs -> Nat] /\ hooks \in [Jobs -> Nat] /\ nextID \in Nat
      /\ dropping \in [Jobs -> {"no", "hook", "ending", "gone"}]
      /\ PlaceInv /\ QueueInv
  BY DEF Base, DiskTypes, QueueInv, QueueTypes
<1>1. CASE QueueStep
  <2>1. UNCHANGED <<free, dirOf, ran, fin, id, hooks>>
    BY <1>1 DEF QueueStep, serviceVars, Pick, Stop, Judge, PublishEnd, Close, FireCancel, DropEnd,
                EmitEnd
  <2>2. ASSUME NEW j \in Jobs, Finalizing(j) PROVE Finalizing(j)'
    BY <1>0, <1>1, <2>2 DEF Finalizing, QueueStep, Pick, Stop, Judge, PublishEnd, Close,
                            FireCancel, DropEnd
  <2> QED
    BY <1>0, <2>1, <2>2 DEF PlaceInv
<1>2. ASSUME NEW j \in Jobs, NewDirStat(j) \/ NewDirTaken(j) PROVE PlaceInv'
  <2>1. UNCHANGED <<dirOf, ran, fin, queueVars>>
    BY <1>2 DEF NewDirStat, NewDirTaken
  <2>2. id[j] = 0 /\ dirOf[j] = NoDir /\ \A k \in Jobs \ {j} : free'[k] = free[k]
    BY <1>0, <1>2 DEF NewDirStat, NewDirTaken, PlaceInv
  <2> QED
    BY <1>0, <2>1, <2>2 DEF PlaceInv, Finalizing
<1>3. ASSUME NEW j \in Jobs, NewDirMake(j) PROVE PlaceInv'
  BY <1>0, <1>3 DEF NewDirMake, PlaceInv, Finalizing
<1>4. ASSUME NEW j \in Jobs, Queue(j) PROVE PlaceInv'
  <2>1. \A k \in Jobs : Finalizing(k)' = Finalizing(k)
    BY <1>4 DEF Queue, Submit, Finalizing
  <2>2. fin[j] = "no" /\ free[j] = NoDir
    BY <1>0, <1>4 DEF Queue, Submit, PlaceInv
  <2> QED
    BY <1>0, <1>4, <2>1, <2>2 DEF Queue, Submit, PlaceInv
<1>5. ASSUME NEW j \in Jobs, QueueRefused(j) PROVE PlaceInv'
  BY <1>0, <1>5 DEF QueueRefused, PlaceInv, Finalizing
<1>6. ASSUME NEW j \in Jobs, Cancel(j) PROVE PlaceInv'
  <2>1. UNCHANGED <<free, dirOf, ran, fin, id, hooks>>
    BY <1>6 DEF Cancel, serviceVars, CancelRunning, CancelQueued
  <2>2. ASSUME NEW k \in Jobs, Finalizing(k) PROVE Finalizing(k)'
    BY <1>0, <1>6, <2>2 DEF Finalizing, Cancel, CancelRunning, CancelQueued
  <2> QED
    BY <1>0, <2>1, <2>2 DEF PlaceInv
<1>7. ASSUME NEW j \in Jobs, Begin(j) PROVE PlaceInv'
  BY <1>0, <1>7 DEF Begin, PlaceInv, Finalizing, QueueInv
<1>8. ASSUME NEW j \in Jobs, Return(j) PROVE PlaceInv'
  <2>1. \E e \in Errors : RunReturns(e)
    BY <1>8 DEF Return, AnalysisReturns, ExportReturns, Errors
  <2>2. \A k \in Jobs : Finalizing(k) => Finalizing(k)'
    BY <2>1 DEF RunReturns, Finalizing
  <2>3. UNCHANGED <<id, hooks, free, dirOf, fin>> /\ id[j] # 0
    BY <1>0, <1>8, <2>1 DEF RunReturns, Return, QueueInv
  <2> QED
    BY <1>0, <1>8, <2>2, <2>3 DEF Return, PlaceInv
<1>9. ASSUME NEW j \in Jobs, FinalizePending(j) PROVE PlaceInv'
  <2>1. id[j] # 0
    BY <1>0, <1>9 DEF FinalizePending, Finalizing, QueueInv
  <2> QED
    BY <1>0, <1>9, <2>1 DEF FinalizePending, PlaceInv, Finalizing
<1>10. ASSUME NEW j \in Jobs, Reconcile(j) PROVE PlaceInv'
  BY <1>0, <1>10 DEF Reconcile, PlaceInv, Finalizing
<1>11. ASSUME NEW j \in Jobs, FinalizeReturns(j) PROVE PlaceInv'
  <2>1. /\ UNCHANGED <<id, free, dirOf, ran>> /\ fin' = [fin EXCEPT ![j] = "over"]
        /\ id[j] # 0 /\ hooks'[j] = hooks[j] + 1
        /\ \A k \in Jobs \ {j} : hooks'[k] = hooks[k]
    BY <1>0, <1>11 DEF FinalizeReturns, RunFinalizer, DropHook, CallHook, QueueInv
  <2>2. \A k \in Jobs \ {j} : Finalizing(k) => Finalizing(k)'
    BY <1>0, <1>11 DEF FinalizeReturns, RunFinalizer, DropHook, CallHook, Finalizing
  <2> QED
    BY <1>0, <2>1, <2>2 DEF PlaceInv
<1>12. ASSUME MarkRunningInterrupted \/ RemoveOrphanDirs \/ \E i \in Ids : Delete(i)
       PROVE  PlaceInv'
  <2>1. UNCHANGED <<queueVars, free, dirOf, ran, fin>>
    BY <1>12 DEF MarkRunningInterrupted, RemoveOrphanDirs, Delete
  <2> QED
    BY <1>0, <2>1 DEF PlaceInv, Finalizing
<1>13. CASE Crash
  BY <1>0, <1>13 DEF Crash, PlaceInv
<1> QED
  BY <1>1, <1>2, <1>3, <1>4, <1>5, <1>6, <1>7, <1>8, <1>9, <1>10, <1>11, <1>12, <1>13
     DEF ServiceNext

LEMMA BaseStep == Base /\ ServiceNext => Base'
<1> SUFFICES ASSUME Base, ServiceNext PROVE Base'
  OBVIOUS
<1>1. QueueInv'
  BY QueueFact, QueueCrash DEF Base
<1> QED
  BY <1>1, TypesStep, PlaceStep, DownStep DEF Base

LEMMA BaseStutter == Base /\ UNCHANGED vars => Base'
<1> SUFFICES ASSUME Base, UNCHANGED vars PROVE Base'
  OBVIOUS
<1>1. /\ UNCHANGED <<pending, current, nextID, id, worker, err, state, dropping, hooks, verdict,
                     ends, crashed>>
      /\ UNCHANGED <<boot, tmp, final, free, dirOf, ran, fin, byQueueID, byJobKey, given>>
  BY DEF vars, queueVars, serviceVars, lockVars, workVars, callVars, toldVars, bootVars, diskVars,
         indexVars, pastVars
<1>2. QueueInv'
  BY <1>1 DEF Base, QueueInv, QueueTypes, InLine, Untouched
<1>3. DiskTypes'
  BY <1>1 DEF Base, DiskTypes
<1>4. PlaceInv' /\ DownInv'
  BY <1>1 DEF Base, PlaceInv, DownInv, Finalizing
<1> QED
  BY <1>2, <1>3, <1>4 DEF Base

LEMMA BaseInit == ServiceInit => Base
<1> SUFFICES ASSUME ServiceInit PROVE Base
  OBVIOUS
<1> USE DEF ServiceInit, QueueInit
<1>1. pending \in Seq(Jobs) /\ Once(pending) /\ InLine = {}
  BY DEF Once, InLine, Range
<1>2. QueueInv
  BY <1>1, NoJobAssumption DEF QueueInv, QueueTypes, Untouched, NoState
<1>3. DiskTypes
  BY DEF DiskTypes, Contents
<1>4. PlaceInv /\ DownInv
  BY DEF PlaceInv, DownInv
<1> QED
  BY <1>2, <1>3, <1>4 DEF Base

LEMMA BaseFacts ==
  ASSUME Base
  PROVE  /\ tmp \in [Ids -> Contents] /\ final \in [Ids -> Contents]
         /\ free \in [Jobs -> Ids \cup {NoDir}] /\ dirOf \in [Jobs -> Ids \cup {NoDir}]
         /\ ran \in [Jobs -> {"no", "began", "returned"}]
         /\ fin \in [Jobs -> {"no", "moved", "reconciled", "over"}]
         /\ id \in [Jobs -> Nat] /\ hooks \in [Jobs -> Nat] /\ ends \in [Jobs -> Nat]
         /\ verdict \in [Jobs -> Terminal \cup {NoState}] /\ given \in [Ids -> 0..2]
         /\ byQueueID \subseteq Jobs /\ byJobKey \in [Ids -> Jobs \cup {NoJob}]
         /\ dropping \in [Jobs -> {"no", "hook", "ending", "gone"}]
         /\ PlaceInv /\ QueueInv /\ DownInv
BY DEF Base, DiskTypes, QueueInv, QueueTypes

\* The job that runs, and the one a hook finalizes, have a directory.
LEMMA HeldFact ==
  ASSUME Base, NEW j \in Jobs
  PROVE  /\ Return(j) \/ Begin(j) =>
              /\ dirOf[j] \in Ids /\ dirOf[j] # NoDir /\ id[j] > 0 /\ fin[j] = "no"
              /\ hooks[j] = 0
              /\ j \notin crashed /\ j = current /\ worker = "running" /\ ran[j] # "returned"
         /\ Finalizing(j) =>
              /\ dirOf[j] \in Ids /\ dirOf[j] # NoDir /\ id[j] > 0 /\ hooks[j] = 0
              /\ j \notin crashed
              /\ FinalState(j) \in Terminal
         /\ FinalizePending(j) \/ Reconcile(j) \/ FinalizeReturns(j) => Finalizing(j)
<1>1. /\ id[j] \in Nat /\ (id[j] > 0 => dirOf[j] \in Ids /\ dirOf[j] # NoDir)
      /\ PlaceInv /\ QueueInv
      /\ fin[j] \in {"no", "moved", "reconciled", "over"}
  BY BaseFacts DEF PlaceInv
<1>2. ASSUME Return(j) \/ Begin(j)
      PROVE  j = current /\ worker = "running" /\ ran[j] # "returned"
  BY <1>2 DEF Return, Begin, AnalysisReturns, ExportReturns, RunReturns
<1>3. FinalizePending(j) \/ Reconcile(j) \/ FinalizeReturns(j) => Finalizing(j)
  BY <1>1 DEF FinalizePending, Reconcile, FinalizeReturns, DropHook, RunFinalizer, Finalizing,
              PlaceInv
<1>4. ASSUME Finalizing(j)
      PROVE  id[j] > 0 /\ hooks[j] = 0 /\ j \notin crashed /\ FinalState(j) \in Terminal
  BY <1>1, <1>4 DEF Finalizing, QueueInv, Untouched, FinalState, Terminal
<1>5. ASSUME Return(j) \/ Begin(j)
      PROVE  id[j] > 0 /\ fin[j] = "no" /\ hooks[j] = 0 /\ j \notin crashed
  <2>1. j = current /\ worker = "running"
    BY <1>2, <1>5
  <2>2. dropping[j] = "no" /\ hooks[j] = 0 /\ j \notin crashed /\ id[j] > 0
    BY <1>1, <2>1 DEF QueueInv
  <2>3. ~Finalizing(j)
    BY <2>1, <2>2 DEF Finalizing
  <2> QED
    BY <1>1, <2>2, <2>3 DEF PlaceInv
<1> QED
  BY <1>1, <1>2, <1>3, <1>4, <1>5

\* What finalizePending does to the disk: nothing, discards, commits, or leaves
\* the .tmp for good.
LEMMA MoveFact ==
  ASSUME Base, NEW j \in Jobs, FinalizePending(j)
  PROVE  /\ dirOf[j] \in Ids /\ UNCHANGED <<deleted, given, swept, unsaid>>
         /\ \A i \in Ids \ {dirOf[j]} :
              /\ tmp'[i] = tmp[i] /\ final'[i] = final[i]
              /\ i \in unmoved' <=> i \in unmoved
         /\ \/ /\ tmp[dirOf[j]] \in {"absent", "empty"} /\ tmp'[dirOf[j]] = "absent"
               /\ UNCHANGED <<final, unmoved>>
            \/ /\ tmp[dirOf[j]] \notin {"absent", "empty"} /\ tmp'[dirOf[j]] = "absent"
               /\ final[dirOf[j]] = "absent" /\ final'[dirOf[j]] = tmp[dirOf[j]]
               /\ UNCHANGED unmoved
            \/ tmp[dirOf[j]] # "absent" /\ UNCHANGED diskVars /\ dirOf[j] \in unmoved'
<1> DEFINE i == dirOf[j]
<1>1. i \in Ids /\ tmp \in [Ids -> Contents] /\ final \in [Ids -> Contents]
  BY BaseFacts, HeldFact
<1>2. UNCHANGED <<deleted, given, swept, unsaid>>
  BY DEF FinalizePending
<1>3. TakenCareOf(i) \/ Discarded(i) \/ Committing(i) \/ LeftBehind(i)
  BY DEF FinalizePending
<1> HIDE DEF i
<1>4. CASE TakenCareOf(i)
  BY <1>1, <1>2, <1>4 DEF TakenCareOf, diskVars, i
<1>5. CASE Discarded(i)
  BY <1>1, <1>2, <1>5 DEF Discarded, i
<1>6. CASE Committing(i)
  BY <1>1, <1>2, <1>6 DEF Committing, i
<1>7. CASE LeftBehind(i)
  BY <1>1, <1>2, <1>7 DEF LeftBehind, diskVars, i
<1> QED
  BY <1>3, <1>4, <1>5, <1>6, <1>7

-----------------------------------------------------------------------------
(* Whose a directory is                                                     *)

Claims(j) == dirOf[j] # NoDir /\ fin[j] = "no" /\ hooks[j] = 0 /\ j \notin crashed

\* A directory that was never committed is one job's, and is there.
ShareInv ==
  \A j \in Jobs :
    Claims(j) /\ ~Committed(dirOf[j]) =>
      /\ tmp[dirOf[j]] # "absent"
      /\ \A k \in Jobs \ {j} : Claims(k) => dirOf[k] # dirOf[j]

\* What was committed stays so, as a directory or in the memory of its deletion.
LEMMA CommitFact ==
  ASSUME Base, ServiceNext, NEW i \in Ids, Committed(i)
  PROVE  Committed(i)'
<1> USE BaseFacts DEF Committed
<1>1. CASE UNCHANGED <<final, deleted>>
  BY <1>1
<1>2. ASSUME NEW j \in Jobs, Return(j) PROVE Committed(i)'
  <2>1. dirOf[j] \in Ids /\ deleted' = deleted
    BY <1>2, HeldFact DEF Return, pastVars
  <2>2. \A e \in Errors : Guess(j, e) # "absent"
    BY DEF Guess
  <2>3. UNCHANGED final \/ \E c : c # "absent" /\ final' = [final EXCEPT ![dirOf[j]] = c]
    BY <1>2, <2>2 DEF Return, AnalysisReturns, ExportReturns
  <2> QED
    BY <2>1, <2>3
<1>3. ASSUME NEW j \in Jobs, FinalizePending(j) PROVE Committed(i)'
  BY <1>3, MoveFact DEF diskVars
<1>4. ASSUME NEW j \in Jobs, Reconcile(j) PROVE Committed(i)'
  <2>1. FinalState(j) # "absent" /\ "absent" \notin States
    BY <1>4, HeldFact DEF Terminal, States
  <2> QED
    BY <1>4, <2>1 DEF Reconcile, pastVars
<1>5. ASSUME NEW k \in Ids, Delete(k) PROVE Committed(i)'
  BY <1>5 DEF Delete
<1>6. CASE MarkRunningInterrupted
  BY <1>6 DEF MarkRunningInterrupted, pastVars
<1> QED
  BY <1>1, <1>2, <1>3, <1>4, <1>5, <1>6
     DEF ServiceNext, QueueStep, NewDirStat, NewDirTaken, NewDirMake, Queue, QueueRefused, Cancel,
         Begin, FinalizeReturns, Crash, RemoveOrphanDirs, serviceVars, diskVars, pastVars

\* A claim starts with the Mkdir.
LEMMA ClaimFact ==
  ASSUME Base, ServiceNext, NEW j \in Jobs, Claims(j)'
  PROVE  (Claims(j) /\ dirOf'[j] = dirOf[j]) \/ NewDirMake(j)
<1> USE BaseFacts DEF Claims, lockVars, workVars, callVars, toldVars, queueVars
<1>1. CASE QueueStep
  BY <1>1 DEF QueueStep, serviceVars, bootVars, Pick, Stop, Judge, PublishEnd, Close, FireCancel,
              DropEnd, EmitEnd
<1>2. ASSUME NEW k \in Jobs,
             NewDirStat(k) \/ NewDirTaken(k) \/ Queue(k) \/ Cancel(k) \/ Begin(k) \/ Return(k)
             \/ Reconcile(k)
      PROVE  Claims(j) /\ dirOf'[j] = dirOf[j]
  <2>1. UNCHANGED <<dirOf, crashed>> /\ (fin' = fin \/ Reconcile(k))
    BY <1>2 DEF NewDirStat, NewDirTaken, Queue, Cancel, Begin, Return, Reconcile, bootVars,
                serviceVars
  <2>2. hooks' = hooks
    BY <1>2 DEF NewDirStat, NewDirTaken, Queue, Submit, Cancel, CancelRunning, CancelQueued, Begin,
                Return, AnalysisReturns, ExportReturns, RunReturns, Reconcile
  <2>3. fin[j] = "no"
    BY <2>1 DEF Reconcile
  <2> QED
    BY <2>1, <2>2, <2>3
<1>3. ASSUME NEW k \in Jobs, NewDirMake(k) \/ QueueRefused(k)
      PROVE  (Claims(j) /\ dirOf'[j] = dirOf[j]) \/ NewDirMake(j)
  BY <1>3 DEF NewDirMake, QueueRefused, bootVars
<1>4. ASSUME NEW k \in Jobs, FinalizePending(k) \/ FinalizeReturns(k)
      PROVE  Claims(j) /\ dirOf'[j] = dirOf[j]
  <2>1. /\ UNCHANGED <<dirOf, crashed>> /\ fin'[j] = "no"
        /\ fin' \in {[fin EXCEPT ![k] = "moved"], [fin EXCEPT ![k] = "over"]}
    BY <1>4 DEF FinalizePending, FinalizeReturns, bootVars
  <2>2. j # k /\ fin[j] = "no"
    BY <2>1
  <2>3. k # j => hooks'[j] = hooks[j]
    BY <1>4 DEF FinalizePending, FinalizeReturns, DropHook, RunFinalizer, CallHook
  <2> QED
    BY <2>1, <2>2, <2>3
<1>5. ASSUME MarkRunningInterrupted \/ RemoveOrphanDirs \/ \E i \in Ids : Delete(i)
      PROVE  Claims(j) /\ dirOf'[j] = dirOf[j]
  BY <1>5 DEF MarkRunningInterrupted, RemoveOrphanDirs, Delete, bootVars
<1>6. ASSUME Crash PROVE FALSE
  <2>1. id[j] > 0 /\ hooks[j] = 0 /\ j \notin crashed'
    BY <1>6 DEF Crash
  <2>2. ends[j] = 0
    BY <2>1 DEF QueueInv
  <2> QED
    BY <1>6, <2>1, <2>2 DEF Crash
<1> QED
  BY <1>1, <1>2, <1>3, <1>4, <1>5, <1>6 DEF ServiceNext

\* A directory that no commit took leaves with the claim to it.
LEMMA EmptiedFact ==
  ASSUME Base, ServiceNext, NEW i \in Ids, tmp[i] # "absent", tmp'[i] = "absent",
         ~Committed(i)'
  PROVE  boot # "up" \/ \E k \in Jobs : dirOf[k] = i /\ Claims(k) /\ ~Claims(k)'
<1> USE BaseFacts
<1>1. tmp' # tmp
  OBVIOUS
<1>2. ASSUME NEW j \in Jobs, NewDirMake(j) PROVE FALSE
  BY <1>2 DEF NewDirMake
<1>3. ASSUME NEW j \in Jobs, QueueRefused(j) PROVE dirOf[j] = i /\ Claims(j) /\ ~Claims(j)'
  BY <1>3 DEF QueueRefused, Claims, PlaceInv, QueueInv, Untouched
<1>4. ASSUME NEW j \in Jobs, Begin(j) PROVE FALSE
  BY <1>4, HeldFact DEF Begin
<1>5. ASSUME NEW j \in Jobs, Return(j) PROVE FALSE
  <2>1. dirOf[j] \in Ids
    BY <1>5, HeldFact
  <2>2. \A e \in Errors : Guess(j, e) # "absent"
    BY DEF Guess
  <2>3. \/ \E c : c # "absent" /\ final' = [final EXCEPT ![dirOf[j]] = c]
                  /\ tmp' = [tmp EXCEPT ![dirOf[j]] = "absent"]
        \/ \E c : (c # "absent" \/ c = tmp[dirOf[j]]) /\ tmp' = [tmp EXCEPT ![dirOf[j]] = c]
    BY <1>1, <1>5, <2>2 DEF Return, AnalysisReturns, ExportReturns
  <2> QED
    BY <2>1, <2>3 DEF Committed
<1>6. ASSUME NEW j \in Jobs, FinalizePending(j)
      PROVE  dirOf[j] = i /\ Claims(j) /\ ~Claims(j)'
  <2>1. dirOf[j] \in Ids /\ dirOf[j] # NoDir /\ hooks[j] = 0 /\ j \notin crashed
    BY <1>6, HeldFact
  <2>2. dirOf[j] = i
    BY <1>6, <2>1, MoveFact
  <2>3. Claims(j) /\ ~Claims(j)'
    BY <1>6, <2>1 DEF FinalizePending, Claims, PlaceInv
  <2> QED
    BY <2>2, <2>3
<1>7. MarkRunningInterrupted \/ RemoveOrphanDirs => boot # "up"
  BY DEF MarkRunningInterrupted, RemoveOrphanDirs
<1> QED
  BY <1>1, <1>2, <1>3, <1>4, <1>5, <1>6, <1>7
     DEF ServiceNext, QueueStep, NewDirStat, NewDirTaken, Queue, Cancel, Reconcile, Delete,
         FinalizeReturns, Crash, serviceVars, diskVars, pastVars

LEMMA ShareStep == Base /\ ShareInv /\ ServiceNext => ShareInv'
<1> SUFFICES ASSUME Base, ShareInv, ServiceNext, NEW j \in Jobs, Claims(j)', ~Committed(dirOf[j])'
             PROVE  /\ tmp'[dirOf'[j]] # "absent"
                    /\ \A k \in Jobs \ {j} : Claims(k)' => dirOf'[k] # dirOf'[j]
  BY DEF ShareInv
<1> DEFINE i == dirOf'[j]
<1> USE BaseFacts
<1>1. i \in Ids /\ Base'
  BY BaseStep, TypesStep DEF Claims, DiskTypes
<1>2. ~Committed(i)
  BY <1>1, CommitFact DEF Committed
<1>3. \A k \in Jobs : NewDirMake(k) =>
        /\ tmp[free[k]] = "absent" /\ dirOf' = [dirOf EXCEPT ![k] = free[k]]
        /\ tmp' = [tmp EXCEPT ![free[k]] = "empty"] /\ dirOf'[k] = free[k]
  BY DEF NewDirMake
<1>4. CASE Claims(j) /\ dirOf[j] = i
  <2>1. tmp[i] # "absent" /\ \A k \in Jobs \ {j} : Claims(k) => dirOf[k] # i
    BY <1>2, <1>4 DEF ShareInv
  <2>2. tmp'[i] # "absent"
    <3> SUFFICES ASSUME tmp'[i] = "absent" PROVE FALSE
      OBVIOUS
    <3>1. PICK k \in Jobs : dirOf[k] = i /\ Claims(k) /\ ~Claims(k)'
      <4>1. boot = "up"
        BY <1>4 DEF Claims, DownInv
      <4> QED
        BY <1>1, <2>1, <4>1, EmptiedFact DEF Committed
    <3> QED
      BY <2>1, <3>1
  <2>3. ASSUME NEW k \in Jobs \ {j}, Claims(k)', dirOf'[k] = i PROVE FALSE
    BY <1>3, <2>1, <2>3, ClaimFact
  <2> QED
    BY <2>2, <2>3
<1>5. CASE NewDirMake(j)
  <2>1. tmp[i] = "absent" /\ tmp'[i] # "absent"
    BY <1>1, <1>3, <1>5
  <2>2. ASSUME NEW k \in Jobs \ {j}, Claims(k)', dirOf'[k] = i PROVE FALSE
    <3>1. dirOf[k] = i /\ Claims(k)
      BY <1>3, <1>5, <2>2 DEF NewDirMake, Claims, queueVars, toldVars, bootVars
    <3> QED
      BY <1>2, <2>1, <3>1 DEF ShareInv
  <2> QED
    BY <2>1, <2>2
<1> QED
  BY <1>4, <1>5, ClaimFact

-----------------------------------------------------------------------------
(* A job that has its id to itself                                          *)

\* The queue has the job, and its hook is not yet done with it.
Held(j) == j \in InLine \/ (j = current /\ worker # "ending") \/ dropping[j] = "hook"

\* The job returned no error, and its verdict is not given yet.
Succeeded(j) == j = current /\ worker \in {"returned", "hook"} /\ err = "nil"

\* Each reservation of an id is counted, and nothing is under an id before.
GivenInv ==
  /\ \A j \in Jobs : dirOf[j] # NoDir => given[dirOf[j]] # 0
  /\ \A j, k \in Jobs : j # k /\ dirOf[j] # NoDir /\ dirOf[j] = dirOf[k] => given[dirOf[j]] = 2
  /\ \A i \in Ids : /\ given[i] = 0 => tmp[i] = "absent" /\ final[i] = "absent"
                    /\ given[i] = 1 => tmp[i] = "absent" \/ final[i] = "absent"

KeyInv ==
  \A i \in Ids : byJobKey[i] # NoJob => dirOf[byJobKey[i]] = i /\ id[byJobKey[i]] > 0

\* Until its Run returns nobody has committed its directory, which exists once
\* the Run began.
UnwrittenPart(j) ==
  Owns(j) => /\ final[dirOf[j]] = "absent"
             /\ ran[j] = "began" => tmp[dirOf[j]] \notin {"absent", "empty"}

IndexPart(j) == Held(j) => j \in byQueueID /\ byJobKey[dirOf[j]] = j

\* The hook leaves no entry of the index, and a .tmp only where it must.
GonePart(j) ==
  /\ fin[j] \in {"moved", "reconciled"} \/ hooks[j] > 0 =>
       tmp[dirOf[j]] = "absent" \/ dirOf[j] \in unmoved
  /\ hooks[j] > 0 => /\ j \notin byQueueID /\ byProject # j
                     /\ byJobKey[dirOf[j]] = NoJob

\* A success is committed, or is there for the hook to commit, or was when its
\* commit failed.
DonePart(j) ==
  /\ Succeeded(j) => \/ Committed(dirOf[j]) \/ Stranded(dirOf[j])
                     \/ fin[j] = "no" /\ tmp[dirOf[j]] \notin {"absent", "empty"}
  /\ hooks[j] > 0 /\ verdict[j] = "done" => Committed(dirOf[j]) \/ Stranded(dirOf[j])

\* Past its reconciliation status.json says what the queue does, if it could be
\* rewritten.
SayPart(j) ==
  final[dirOf[j]] \in States /\ dirOf[j] \notin unsaid =>
    /\ fin[j] = "reconciled" => final[dirOf[j]] = FinalState(j)
    /\ hooks[j] > 0 => final[dirOf[j]] = verdict[j]

Parts(j) == UnwrittenPart(j) /\ IndexPart(j) /\ GonePart(j) /\ DonePart(j) /\ SayPart(j)

AloneInv == \A j \in Jobs : Alone(j) => Parts(j)

\* What a step leaves as it was for j, in the queue ...
QueueCalm(j) ==
  /\ hooks'[j] = hooks[j] /\ verdict'[j] = verdict[j]
  /\ Held(j)' => Held(j)
  /\ Succeeded(j)' => Succeeded(j)
  /\ fin[j] = "reconciled" => FinalState(j)' = FinalState(j)

\* ... and in its directory and the index.
DiskCalm(j) ==
  /\ dirOf'[j] = dirOf[j] /\ fin'[j] = fin[j] /\ ran'[j] = ran[j] /\ crashed' = crashed
  /\ tmp'[dirOf[j]] = tmp[dirOf[j]] /\ final'[dirOf[j]] = final[dirOf[j]]
  /\ j \in byQueueID' <=> j \in byQueueID
  /\ byJobKey'[dirOf[j]] = byJobKey[dirOf[j]]
  /\ byProject' = j => byProject = j
  /\ dirOf[j] \in unmoved' <=> dirOf[j] \in unmoved
  /\ dirOf[j] \in swept' <=> dirOf[j] \in swept
  /\ dirOf[j] \in unsaid' <=> dirOf[j] \in unsaid

LEMMA CalmFact ==
  ASSUME Base, ServiceNext, NEW j \in Jobs, dirOf[j] \in Ids, Parts(j), QueueCalm(j), DiskCalm(j)
  PROVE  Parts(j)'
<1> USE DEF QueueCalm, DiskCalm
<1>1. UnwrittenPart(j)'
  BY DEF Parts, UnwrittenPart, Owns
<1>2. IndexPart(j)'
  BY DEF Parts, IndexPart
<1>3. GonePart(j)'
  BY DEF Parts, GonePart
<1>4. Committed(dirOf[j]) => Committed(dirOf[j])'
  <2>1. dirOf'[j] = dirOf[j]
    OBVIOUS
  <2> QED
    BY <2>1, CommitFact DEF Committed
<1>5. DonePart(j)'
  BY <1>4 DEF Parts, DonePart, Stranded
<1>6. SayPart(j)'
  BY DEF Parts, SayPart
<1> QED
  BY <1>1, <1>2, <1>3, <1>5, <1>6 DEF Parts

\* The queue as one job sees the steps of all others.
LEMMA QueueCalmFact ==
  ASSUME Base, ServiceNext, ~Crash, NEW j \in Jobs,
         ~Queue(j), ~Return(j), ~FinalizeReturns(j)
  PROVE  QueueCalm(j)
<1> USE BaseFacts DEF lockVars, workVars, callVars, toldVars, queueVars
<1>0. /\ id[j] = 0 => j # current /\ dropping[j] = "no"
      /\ j \in InLine => j # current /\ dropping[j] = "no"
      /\ j = current => dropping[j] = "no"
      /\ fin[j] = "reconciled" => Finalizing(j)
      /\ pending \in Seq(Jobs) /\ Once(pending)
  BY DEF QueueInv, QueueTypes, PlaceInv
<1>1. CASE UNCHANGED queueVars
  BY <1>1 DEF QueueCalm, Held, Succeeded, FinalState, InLine
<1>2. CASE Pick
  <2>1. Head(pending) \in InLine /\ InLine' \subseteq InLine
    BY <1>0, <1>2, LineFact DEF Pick, InLine
  <2>2. worker = "waiting" /\ current' = Head(pending) /\ worker' = "running"
        /\ UNCHANGED <<dropping, hooks, verdict, state>>
    BY <1>2 DEF Pick
  <2> QED
    BY <2>1, <2>2 DEF QueueCalm, Held, Succeeded, FinalState
<1>3. CASE Judge
  BY <1>0, <1>3 DEF Judge, QueueCalm, Held, Succeeded, FinalState, Finalizing, InLine
<1>4. CASE Stop \/ Close \/ \E k \in Jobs : FireCancel(k) \/ CancelRunning(k)
  <2>1. InLine' \subseteq InLine
    BY <1>4 DEF Stop, Close, FireCancel, CancelRunning, InLine, Range
  <2>2. /\ UNCHANGED <<current, dropping, hooks, verdict, err, state>>
        /\ worker' = worker \/ (worker = "waiting" /\ worker' = "stopped")
    <3>1. CASE Stop
      BY <3>1 DEF Stop
    <3>2. CASE Close
      BY <3>2 DEF Close
    <3>3. ASSUME NEW k \in Jobs, FireCancel(k) \/ CancelRunning(k)
          PROVE  UNCHANGED <<current, dropping, hooks, verdict, worker, err, state>>
      BY <3>3 DEF FireCancel, CancelRunning
    <3> QED
      BY <1>4, <3>1, <3>2, <3>3
  <2>3. worker = "waiting" => j # current
    BY NoJobAssumption DEF QueueInv, QueueTypes
  <2> QED
    BY <2>1, <2>2, <2>3 DEF QueueCalm, Held, Succeeded, FinalState
<1>5. ASSUME NEW k \in Jobs, CancelQueued(k) PROVE QueueCalm(j)
  <2>1. InLine' \subseteq InLine /\ k \in InLine
    BY <1>0, <1>5, LineFact DEF CancelQueued, InLine
  <2>2. /\ UNCHANGED <<current, worker, hooks, verdict, err, state>>
        /\ dropping' = [dropping EXCEPT ![k] = "hook"]
    BY <1>5 DEF CancelQueued
  <2>3. j = k => fin[j] # "reconciled"
    BY <1>0, <2>1 DEF Finalizing
  <2> QED
    BY <2>1, <2>2, <2>3 DEF QueueCalm, Held, Succeeded, FinalState
<1>6. ASSUME PublishEnd \/ \E k \in Jobs : DropEnd(k) PROVE QueueCalm(j)
  <2>1. InLine' = InLine
    BY <1>6 DEF PublishEnd, DropEnd, InLine
  <2>2. CASE PublishEnd
    BY <1>0, <2>1, <2>2, NoJobAssumption
       DEF PublishEnd, EmitEnd, QueueCalm, Held, Succeeded, FinalState
  <2>3. ASSUME NEW k \in Jobs, DropEnd(k) PROVE QueueCalm(j)
    BY <2>1, <2>3 DEF DropEnd, EmitEnd, QueueCalm, Held, Succeeded, FinalState
  <2> QED
    BY <1>6, <2>2, <2>3
<1>7. ASSUME NEW k \in Jobs \ {j}, Queue(k) PROVE QueueCalm(j)
  <2>1. k \notin InLine
    BY <1>7 DEF Queue, Submit, QueueInv
  <2>2. InLine' = InLine \cup {k}
    BY <1>0, <1>7, <2>1, LineFact DEF Queue, Submit, InLine
  <2> QED
    BY <1>7, <2>2 DEF Queue, Submit, QueueCalm, Held, Succeeded, FinalState
<1>8. ASSUME NEW k \in Jobs \ {j}, Return(k) PROVE QueueCalm(j)
  <2>1. \E e \in Errors : RunReturns(e)
    BY <1>8 DEF Return, AnalysisReturns, ExportReturns, Errors
  <2>2. current = k /\ InLine' = InLine
    BY <1>8, <2>1 DEF Return, RunReturns, InLine
  <2> QED
    BY <2>1, <2>2 DEF RunReturns, QueueCalm, Held, Succeeded, FinalState
<1>9. ASSUME NEW k \in Jobs \ {j}, FinalizeReturns(k) PROVE QueueCalm(j)
  <2>1. InLine' = InLine /\ UNCHANGED <<current, err, state>>
    BY <1>9 DEF FinalizeReturns, RunFinalizer, DropHook, InLine
  <2>2. /\ dropping'[j] = dropping[j] /\ hooks'[j] = hooks[j] /\ verdict'[j] = verdict[j]
        /\ worker' = worker \/ j # current
    BY <1>9 DEF FinalizeReturns, RunFinalizer, DropHook, CallHook
  <2> QED
    BY <2>1, <2>2 DEF QueueCalm, Held, Succeeded, FinalState
<1> QED
  <2>1. ASSUME NEW k \in Jobs,
               NewDirStat(k) \/ NewDirTaken(k) \/ NewDirMake(k) \/ QueueRefused(k) \/ Begin(k)
               \/ FinalizePending(k) \/ Reconcile(k)
        PROVE  UNCHANGED queueVars
    BY <2>1 DEF NewDirStat, NewDirTaken, NewDirMake, QueueRefused, Begin, FinalizePending, Reconcile
  <2>2. (\E i \in Ids : Delete(i)) \/ MarkRunningInterrupted \/ RemoveOrphanDirs
          => UNCHANGED queueVars
    BY DEF Delete, MarkRunningInterrupted, RemoveOrphanDirs
  <2>3. QueueStep => Pick \/ Stop \/ Judge \/ PublishEnd \/ Close
                     \/ \E k \in Jobs : FireCancel(k) \/ DropEnd(k)
    BY DEF QueueStep
  <2>4. \A k \in Jobs : Cancel(k) => CancelRunning(k) \/ CancelQueued(k)
    BY DEF Cancel
  <2> HIDE DEF queueVars
  <2> QED
    BY <1>1, <1>2, <1>3, <1>4, <1>5, <1>6, <1>7, <1>8, <1>9, <2>1, <2>2, <2>3, <2>4
       DEF ServiceNext

\* Counting reservations.
LEMMA GivenFact ==
  ASSUME Base, NEW j \in Jobs, NewDirMake(j)
  PROVE  /\ free[j] \in Ids /\ tmp[free[j]] = "absent" /\ id[j] = 0 /\ dirOf[j] = NoDir
         /\ given'[free[j]] = IF given[free[j]] = 0 THEN 1 ELSE 2
         /\ \A i \in Ids \ {free[j]} : given'[i] = given[i]
         /\ dirOf'[j] = free[j] /\ \A k \in Jobs \ {j} : dirOf'[k] = dirOf[k]
<1> USE BaseFacts
<1>1. free[j] \in Ids /\ given[free[j]] \in 0..2 /\ id[j] = 0 /\ dirOf[j] = NoDir
  BY DEF NewDirMake, PlaceInv
<1>2. given' = [given EXCEPT ![free[j]] = Min({@ + 1, 2})]
  BY DEF NewDirMake
<1>3. given'[free[j]] = Min({given[free[j]] + 1, 2})
  BY <1>1, <1>2
<1> QED
  BY <1>1, <1>2, <1>3, MinFact DEF NewDirMake

LEMMA GivenFrame ==
  ASSUME ServiceNext, \A j \in Jobs : ~NewDirMake(j)
  PROVE  given' = given
BY DEF ServiceNext, QueueStep, NewDirStat, NewDirTaken, Queue, QueueRefused, Cancel, Begin, Return,
       FinalizePending, Reconcile, FinalizeReturns, Delete, Crash, MarkRunningInterrupted,
       RemoveOrphanDirs, serviceVars, pastVars

LEMMA DirFrame ==
  ASSUME Base, ServiceNext, NEW j \in Jobs, ~NewDirMake(j), dirOf'[j] # NoDir
  PROVE  dirOf'[j] = dirOf[j] /\ dirOf[j] \in Ids
<1>0. dirOf \in [Jobs -> Ids \cup {NoDir}]
  BY BaseFacts
<1>1. ASSUME NEW k \in Jobs, NewDirMake(k) PROVE dirOf'[j] = dirOf[j]
  <2>1. k # j /\ dirOf' = [dirOf EXCEPT ![k] = free[k]]
    BY <1>1 DEF NewDirMake
  <2> QED
    BY <1>0, <2>1
<1>2. ASSUME NEW k \in Jobs, QueueRefused(k) PROVE dirOf'[j] = dirOf[j]
  <2>1. dirOf' = [dirOf EXCEPT ![k] = NoDir]
    BY <1>2 DEF QueueRefused
  <2> QED
    BY <1>0, <2>1
<1>3. Crash => dirOf'[j] = dirOf[j]
  BY DEF Crash
<1>4. dirOf'[j] = dirOf[j]
  BY <1>1, <1>2, <1>3
     DEF ServiceNext, QueueStep, NewDirStat, NewDirTaken, Queue, Cancel, Begin, Return,
         FinalizePending, Reconcile, FinalizeReturns, Delete, MarkRunningInterrupted,
         RemoveOrphanDirs, serviceVars
<1> QED
  BY <1>0, <1>4

\* An id that is j's alone was so before, and nobody else is about to get it.
LEMMA AloneFact ==
  ASSUME Base, GivenInv, ServiceNext, NEW j \in Jobs, ~NewDirMake(j), Alone(j)'
  PROVE  /\ Alone(j) /\ dirOf'[j] = dirOf[j] /\ dirOf[j] \in Ids
         /\ \A k \in Jobs \ {j} : /\ dirOf[k] # dirOf[j]
                                  /\ NewDirMake(k) => free[k] # dirOf[j]
<1> USE BaseFacts
<1>1. dirOf'[j] = dirOf[j] /\ dirOf[j] \in Ids /\ dirOf[j] # NoDir /\ given'[dirOf[j]] = 1
  BY DirFrame DEF Alone
<1>2. given[dirOf[j]] # 0
  BY <1>1 DEF GivenInv
<1>3. ASSUME NEW k \in Jobs, NewDirMake(k) PROVE free[k] # dirOf[j] /\ given[dirOf[j]] = 1
  BY <1>1, <1>2, <1>3, GivenFact
<1>4. given[dirOf[j]] = 1
  BY <1>1, <1>3, GivenFrame
<1>5. \A k \in Jobs \ {j} : dirOf[k] # dirOf[j]
  BY <1>1, <1>4 DEF GivenInv
<1> QED
  BY <1>1, <1>3, <1>4, <1>5 DEF Alone

\* The disk and the index as a job with an id to itself sees the steps of all
\* others.
LEMMA DiskCalmFact ==
  ASSUME Base, GivenInv, KeyInv, ServiceNext, NEW j \in Jobs, Alone(j)',
         boot = "up", ~Crash, ~NewDirMake(j), ~Queue(j), ~Begin(j), ~Return(j), ~FinalizePending(j),
         ~Reconcile(j), ~FinalizeReturns(j), ~Delete(dirOf[j])
  PROVE  DiskCalm(j)
<1> DEFINE d == dirOf[j]
<1> USE BaseFacts
<1>1. /\ dirOf'[j] = d /\ d \in Ids /\ crashed' = crashed
      /\ \A k \in Jobs \ {j} : dirOf[k] # d /\ (NewDirMake(k) => free[k] # d)
      /\ \A k \in Jobs \ {j} : dirOf[k] \in Ids => byJobKey[dirOf[k]] # j
  BY AloneFact, QueueFact, NoJobAssumption DEF KeyInv
<1>2. CASE UNCHANGED <<fin, ran, tmp, final, byQueueID, byJobKey, byProject, unmoved, swept,
                       unsaid>>
  BY <1>1, <1>2 DEF DiskCalm
<1>3. ASSUME NEW k \in Jobs \ {j}, NewDirMake(k) PROVE DiskCalm(j)
  BY <1>1, <1>3, GivenFact DEF NewDirMake, DiskCalm, pastVars, failVars, indexVars
<1>4. ASSUME NEW k \in Jobs \ {j}, Queue(k) PROVE DiskCalm(j)
  BY <1>1, <1>4 DEF Queue, DiskCalm, pastVars, failVars, diskVars
<1>5. ASSUME NEW k \in Jobs, QueueRefused(k) PROVE DiskCalm(j)
  <2>1. k # j /\ dirOf[k] \in Ids
    BY <1>1, <1>5 DEF QueueRefused, Alone
  <2>2. /\ tmp'[d] = tmp[d] /\ UNCHANGED <<final, fin, ran, unmoved, swept, unsaid>>
        /\ \/ UNCHANGED indexVars
           \/ Untrack(byJobKey[dirOf[k]], dirOf[k])
    BY <1>1, <1>5, <2>1 DEF QueueRefused
  <2>3. CASE UNCHANGED indexVars
    BY <1>1, <2>1, <2>2, <2>3 DEF DiskCalm, indexVars
  <2>4. CASE Untrack(byJobKey[dirOf[k]], dirOf[k])
    BY <1>1, <2>1, <2>2, <2>4, NoJobAssumption DEF DiskCalm, Untrack
  <2> QED
    BY <2>2, <2>3, <2>4
<1>6. ASSUME NEW k \in Jobs \ {j}, Begin(k) PROVE DiskCalm(j)
  BY <1>1, <1>6 DEF Begin, DiskCalm, pastVars, failVars, indexVars
<1>7. ASSUME NEW k \in Jobs \ {j}, Return(k) PROVE DiskCalm(j)
  <2>1. /\ ran' = [ran EXCEPT ![k] = "returned"]
        /\ UNCHANGED <<fin, byQueueID, byJobKey, byProject, unmoved, swept, unsaid>>
    BY <1>7 DEF Return, indexVars, pastVars, failVars
  <2>2. /\ tmp' = tmp \/ \E c : tmp' = [tmp EXCEPT ![dirOf[k]] = c]
        /\ final' = final \/ \E c : final' = [final EXCEPT ![dirOf[k]] = c]
    BY <1>7 DEF Return, AnalysisReturns, ExportReturns
  <2> QED
    BY <1>1, <2>1, <2>2 DEF DiskCalm
<1>8. ASSUME NEW k \in Jobs \ {j}, FinalizePending(k) PROVE DiskCalm(j)
  <2>1. d # dirOf[k] /\ UNCHANGED <<swept, unsaid>>
        /\ tmp'[d] = tmp[d] /\ final'[d] = final[d] /\ (d \in unmoved' <=> d \in unmoved)
    BY <1>1, <1>8, MoveFact
  <2>2. /\ fin' = [fin EXCEPT ![k] = "moved"]
        /\ UNCHANGED <<ran, byQueueID, byJobKey, byProject>>
    BY <1>8 DEF FinalizePending, indexVars
  <2> QED
    BY <1>1, <1>8, <2>1, <2>2 DEF DiskCalm
<1>9. ASSUME NEW k \in Jobs \ {j}, Reconcile(k) PROVE DiskCalm(j)
  BY <1>1, <1>9 DEF Reconcile, DiskCalm, pastVars, failVars, indexVars
<1>10. ASSUME NEW k \in Jobs \ {j}, FinalizeReturns(k) PROVE DiskCalm(j)
  BY <1>1, <1>10, NoJobAssumption
     DEF FinalizeReturns, Untrack, DiskCalm, pastVars, failVars, indexVars, diskVars
<1>11. ASSUME NEW i \in Ids, Delete(i) PROVE DiskCalm(j)
  <2>1. i # d
    BY <1>11
  <2> QED
    BY <1>1, <1>11, <2>1 DEF Delete, DiskCalm, pastVars, failVars, indexVars
<1> QED
  BY <1>2, <1>3, <1>4, <1>5, <1>6, <1>7, <1>8, <1>9, <1>10, <1>11
     DEF ServiceNext, QueueStep, Cancel, NewDirStat, NewDirTaken, serviceVars, indexVars, diskVars,
         pastVars, failVars, MarkRunningInterrupted, RemoveOrphanDirs

\* The id and the directory of a job that was submitted.
LEMMA IdFrame ==
  ASSUME Base, ServiceNext, NEW j \in Jobs, id[j] > 0
  PROVE  id'[j] = id[j] /\ dirOf'[j] = dirOf[j]
<1> USE BaseFacts DEF lockVars, queueVars
<1>1. ~NewDirMake(j) /\ ~QueueRefused(j) /\ ~Queue(j)
  BY GivenFact DEF QueueRefused, Queue, Submit
<1>2. \A k \in Jobs : FinalizeReturns(k) \/ Cancel(k) \/ Return(k) => id'[j] = id[j]
  BY DEF FinalizeReturns, RunFinalizer, DropHook, Cancel, CancelRunning, CancelQueued,
         Return, AnalysisReturns, ExportReturns, RunReturns
<1>3. QueueStep => id'[j] = id[j]
  BY DEF QueueStep, Pick, Stop, Judge, PublishEnd, Close, FireCancel, DropEnd
<1>4. \A k \in Jobs : Queue(k) => id'[j] = id[j]
  BY <1>1 DEF Queue, Submit
<1>5. id'[j] = id[j]
  BY <1>2, <1>3, <1>4
     DEF ServiceNext, NewDirStat, NewDirTaken, NewDirMake, QueueRefused, Begin, FinalizePending,
         Reconcile, Delete, Crash, MarkRunningInterrupted, RemoveOrphanDirs
<1>6. dirOf'[j] = dirOf[j]
  <2>1. ASSUME NEW k \in Jobs, QueueRefused(k) PROVE dirOf'[j] = dirOf[j]
    <3>1. k # j /\ dirOf' = [dirOf EXCEPT ![k] = NoDir]
      BY <1>1, <2>1 DEF QueueRefused
    <3> QED
      BY <3>1
  <2>2. Crash => dirOf'[j] = dirOf[j]
    BY DEF Crash
  <2>3. \A k \in Jobs : NewDirMake(k) => dirOf'[j] = dirOf[j]
    BY <1>1, GivenFact
  <2> QED
    BY <2>1, <2>2, <2>3
       DEF ServiceNext, QueueStep, NewDirStat, NewDirTaken, Queue, Cancel, Begin, Return,
           FinalizePending, Reconcile, FinalizeReturns, Delete, MarkRunningInterrupted,
           RemoveOrphanDirs, serviceVars
<1> QED
  BY <1>5, <1>6

LEMMA KeyStep == Base /\ KeyInv /\ ServiceNext => KeyInv'
<1> SUFFICES ASSUME Base, KeyInv, ServiceNext, NEW i \in Ids, byJobKey'[i] # NoJob
             PROVE  dirOf'[byJobKey'[i]] = i /\ id'[byJobKey'[i]] > 0
  BY DEF KeyInv
<1> USE BaseFacts, NoJobAssumption
<1>1. ASSUME NEW j \in Jobs, Queue(j), i = dirOf[j]
      PROVE  byJobKey'[i] = j /\ dirOf'[j] = i /\ id'[j] > 0
  <2>1. nextID \in Nat
    BY DEF QueueInv, QueueTypes
  <2> QED
    BY <1>1, <2>1 DEF Queue, Submit
<1>2. CASE byJobKey'[i] = byJobKey[i]
  <2> DEFINE k == byJobKey[i]
  <2>1. k \in Jobs /\ dirOf[k] = i /\ id[k] > 0
    BY <1>2 DEF KeyInv
  <2>2. ~NewDirMake(k) /\ ~QueueRefused(k) /\ ~Queue(k)
    BY <2>1, GivenFact DEF QueueRefused, Queue, Submit
  <2>3. id'[k] = id[k] /\ dirOf'[k] = dirOf[k]
    BY <2>1, <2>2, IdFrame
  <2> QED
    BY <1>2, <2>1, <2>3
<1>3. ASSUME byJobKey'[i] # byJobKey[i] PROVE \E j \in Jobs : Queue(j) /\ i = dirOf[j]
  <2>1. ASSUME NEW j \in Jobs, NEW k, Untrack(k, dirOf[j]) PROVE FALSE
    <3>1. byJobKey' = [byJobKey EXCEPT ![dirOf[j]] = NoJob]
      BY <2>1 DEF Untrack
    <3> QED
      BY <1>3, <3>1
  <2>2. ASSUME NEW j \in Jobs, QueueRefused(j) \/ FinalizeReturns(j) PROVE FALSE
    BY <1>3, <2>1, <2>2 DEF QueueRefused, FinalizeReturns, indexVars
  <2>3. ASSUME NEW j \in Jobs, Queue(j) PROVE i = dirOf[j]
    BY <1>3, <2>3 DEF Queue
  <2>4. ~Crash
    BY DEF Crash
  <2> QED
    BY <1>3, <2>2, <2>3, <2>4
       DEF ServiceNext, QueueStep, NewDirStat, NewDirTaken, NewDirMake, Cancel, Begin, Return,
           FinalizePending, Reconcile, Delete, MarkRunningInterrupted, RemoveOrphanDirs,
           serviceVars, indexVars
<1> QED
  BY <1>1, <1>2, <1>3

\* Where a step touches the disk.
LEMMA TouchFact ==
  ASSUME Base, ServiceNext, NEW i \in Ids,
         \A j \in Jobs : dirOf[j] # i \/ ~(QueueRefused(j) \/ Begin(j) \/ Return(j)
                                           \/ FinalizePending(j) \/ Reconcile(j)),
         \A j \in Jobs : ~(NewDirMake(j) /\ free[j] = i)
  PROVE  /\ tmp[i] = "absent" => tmp'[i] = "absent"
         /\ final[i] = "absent" => final'[i] = "absent"
<1> USE BaseFacts
<1>1. ASSUME NEW j \in Jobs, NewDirMake(j) \/ QueueRefused(j)
      PROVE  tmp'[i] = tmp[i] /\ final'[i] = final[i]
  BY <1>1 DEF NewDirMake, QueueRefused
<1>2. ASSUME NEW j \in Jobs, Begin(j) \/ Return(j)
      PROVE  tmp'[i] = tmp[i] /\ final'[i] = final[i]
  <2>1. dirOf[j] \in Ids /\ dirOf[j] # i
    BY <1>2, HeldFact
  <2>2. /\ tmp' = tmp \/ \E c : tmp' = [tmp EXCEPT ![dirOf[j]] = c]
        /\ final' = final \/ \E c : final' = [final EXCEPT ![dirOf[j]] = c]
    BY <1>2 DEF Begin, Return, AnalysisReturns, ExportReturns
  <2> QED
    BY <2>1, <2>2
<1>3. ASSUME NEW j \in Jobs, FinalizePending(j) \/ Reconcile(j)
      PROVE  tmp'[i] = tmp[i] /\ final'[i] = final[i]
  BY <1>3, MoveFact DEF Reconcile
<1>4. ASSUME NEW k \in Ids, Delete(k)
      PROVE  tmp'[i] = tmp[i] /\ (final[i] = "absent" => final'[i] = "absent")
  BY <1>4 DEF Delete
<1>5. ASSUME MarkRunningInterrupted \/ RemoveOrphanDirs
      PROVE  /\ tmp[i] = "absent" => tmp'[i] = "absent"
             /\ final[i] = "absent" => final'[i] = "absent"
  BY <1>5 DEF MarkRunningInterrupted, RemoveOrphanDirs
<1> QED
  BY <1>1, <1>2, <1>3, <1>4, <1>5
     DEF ServiceNext, QueueStep, NewDirStat, NewDirTaken, Queue, Cancel, FinalizeReturns, Crash,
         serviceVars, diskVars

LEMMA GivenStep == Base /\ GivenInv /\ AloneInv /\ ServiceNext => GivenInv'
<1> SUFFICES ASSUME Base, GivenInv, AloneInv, ServiceNext PROVE GivenInv'
  OBVIOUS
<1> USE BaseFacts
<1>1. ASSUME NEW i \in Ids
      PROVE  /\ given'[i] # given[i] => given[i] = 0 \/ given'[i] = 2
             /\ given[i] # 0 => given'[i] # 0
             /\ given[i] = 2 => given'[i] = 2
  BY GivenFact, GivenFrame
<1>2. ASSUME NEW j \in Jobs, dirOf'[j] # NoDir PROVE given'[dirOf'[j]] # 0
  <2>1. CASE NewDirMake(j)
    BY <2>1, GivenFact
  <2>2. CASE ~NewDirMake(j)
    BY <1>1, <1>2, <2>2, DirFrame DEF GivenInv
  <2> QED
    BY <2>1, <2>2
<1>3. ASSUME NEW j \in Jobs, NEW k \in Jobs, j # k, dirOf'[j] # NoDir, dirOf'[j] = dirOf'[k]
      PROVE  given'[dirOf'[j]] = 2
  <2>1. CASE ~NewDirMake(j) /\ ~NewDirMake(k)
    BY <1>1, <1>3, <2>1, DirFrame DEF GivenInv
  <2>2. ASSUME NEW m \in Jobs, NEW n \in Jobs, m # n, dirOf'[m] # NoDir, dirOf'[m] = dirOf'[n],
               NewDirMake(m)
        PROVE  given'[dirOf'[m]] = 2
    <3>1. dirOf'[m] = free[m] /\ dirOf'[n] = dirOf[n] /\ free[m] \in Ids
      BY <2>2, GivenFact
    <3>2. given[free[m]] # 0
      BY <2>2, <3>1 DEF GivenInv
    <3> QED
      BY <2>2, <3>1, <3>2, GivenFact
  <2> QED
    BY <1>3, <2>1, <2>2
<1>4. ASSUME NEW i \in Ids, given'[i] = 0 PROVE tmp'[i] = "absent" /\ final'[i] = "absent"
  <2>1. given[i] = 0
    BY <1>1, <1>4
  <2>2. \A j \in Jobs : dirOf[j] # i \/ dirOf[j] = NoDir
    BY <2>1 DEF GivenInv
  <2>3. \A j \in Jobs : ~(NewDirMake(j) /\ free[j] = i)
    BY <1>4, GivenFact
  <2>4. \A j \in Jobs : dirOf[j] = NoDir =>
          ~(QueueRefused(j) \/ Begin(j) \/ Return(j) \/ FinalizePending(j) \/ Reconcile(j))
    BY HeldFact DEF QueueRefused
  <2> QED
    BY <2>1, <2>2, <2>3, <2>4, TouchFact DEF GivenInv
<1>5. ASSUME NEW i \in Ids, given'[i] = 1 PROVE tmp'[i] = "absent" \/ final'[i] = "absent"
  <2>1. CASE given[i] = 0
    <3>1. PICK j \in Jobs : NewDirMake(j)
      BY <1>5, <2>1, GivenFrame
    <3> QED
      BY <2>1, <3>1 DEF NewDirMake, GivenInv
  <2>2. CASE given[i] = 1
    <3>1. \A j \in Jobs : ~(NewDirMake(j) /\ free[j] = i)
      BY <1>5, <2>2, GivenFact
    <3>2. tmp[i] = "absent" \/ final[i] = "absent"
      BY <2>2 DEF GivenInv
    <3>3. ASSUME NEW j \in Jobs, dirOf[j] = i, Begin(j) \/ Return(j)
          PROVE  tmp'[i] = "absent" \/ final'[i] = "absent"
      <4>1. Owns(j) /\ Alone(j)
        BY <2>2, <3>3, HeldFact DEF Owns, Alone
      <4>2. final[i] = "absent"
        BY <3>3, <4>1 DEF AloneInv, Parts, UnwrittenPart
      <4> QED
        BY <3>3, <4>2 DEF Begin, Return, AnalysisReturns, ExportReturns
    <3>4. ASSUME NEW j \in Jobs, dirOf[j] = i, QueueRefused(j) \/ FinalizePending(j)
          PROVE  tmp'[i] = "absent" \/ final'[i] = "absent"
      BY <3>2, <3>4, MoveFact DEF QueueRefused, diskVars
    <3>5. ASSUME NEW j \in Jobs, dirOf[j] = i, Reconcile(j)
          PROVE  tmp'[i] = "absent" \/ final'[i] = "absent"
      BY <3>2, <3>5 DEF Reconcile, States, Terminal
    <3> QED
      BY <3>1, <3>2, <3>3, <3>4, <3>5, TouchFact
  <2> QED
    BY <1>1, <1>5, <2>1, <2>2
<1> QED
  BY <1>2, <1>3, <1>4, <1>5 DEF GivenInv

LEMMA ReserveKeeps ==
  ASSUME Base, GivenInv, NEW j \in Jobs, NewDirMake(j), Alone(j)'
  PROVE  Parts(j)'
<1> USE BaseFacts
<1>1. /\ dirOf'[j] = free[j] /\ free[j] \in Ids /\ id[j] = 0 /\ given[free[j]] = 0
      /\ UNCHANGED queueVars /\ UNCHANGED <<ran, fin, final>>
  <2>1. /\ dirOf'[j] = free[j] /\ free[j] \in Ids /\ id[j] = 0
        /\ given'[free[j]] = IF given[free[j]] = 0 THEN 1 ELSE 2
    BY GivenFact
  <2>2. given'[free[j]] = 1
    BY <2>1 DEF Alone
  <2>3. given[free[j]] = 0
    BY <2>1, <2>2
  <2>4. UNCHANGED queueVars /\ UNCHANGED <<ran, fin, final>>
    BY DEF NewDirMake
  <2> QED
    BY <2>1, <2>3, <2>4
<1>2. /\ hooks'[j] = 0 /\ j # current' /\ dropping'[j] = "no" /\ j \notin InLine'
      /\ ran'[j] = "no" /\ fin'[j] = "no"
  <2>1. /\ hooks[j] = 0 /\ j # current /\ dropping[j] = "no" /\ j \notin InLine
        /\ ran[j] = "no" /\ fin[j] = "no"
    BY <1>1 DEF QueueInv, Untouched, PlaceInv
  <2>2. UNCHANGED <<hooks, current, dropping, pending, ran, fin>>
    BY <1>1 DEF queueVars, lockVars, callVars, toldVars
  <2> QED
    BY <2>1, <2>2 DEF InLine
<1>3. final'[dirOf'[j]] = "absent" /\ "absent" \notin States
  BY <1>1 DEF GivenInv, States, Terminal
<1> QED
  BY <1>2, <1>3 DEF Parts, UnwrittenPart, IndexPart, GonePart, DonePart, SayPart, Held, Succeeded

LEMMA QueueKeeps ==
  ASSUME Base, NEW j \in Jobs, Queue(j), dirOf[j] \in Ids, Parts(j)
  PROVE  Parts(j)'
<1> USE BaseFacts
<1>1. /\ UNCHANGED <<tmp, final, dirOf, ran, fin, hooks, crashed, unmoved, swept, unsaid>>
      /\ id[j] = 0 /\ current' = current
      /\ j \in byQueueID' /\ byJobKey'[dirOf[j]] = j
  BY DEF Queue, Submit, diskVars, bootVars, toldVars, pastVars, failVars
<1>2. hooks[j] = 0 /\ j # current /\ fin[j] = "no"
  BY <1>1 DEF QueueInv, Untouched, PlaceInv
<1> QED
  BY <1>1, <1>2 DEF Parts, UnwrittenPart, IndexPart, GonePart, DonePart, SayPart, Owns, Succeeded

LEMMA BeginKeeps ==
  ASSUME Base, NEW j \in Jobs, Begin(j), QueueCalm(j), Parts(j)
  PROVE  Parts(j)'
<1> USE BaseFacts DEF QueueCalm
<1>1. /\ dirOf[j] \in Ids /\ dirOf[j] # NoDir /\ fin[j] = "no" /\ hooks[j] = 0 /\ j \notin crashed
      /\ worker = "running" /\ ran[j] # "returned"
  BY HeldFact
<1>2. /\ UNCHANGED <<final, dirOf, fin, byQueueID, byJobKey, byProject>>
      /\ tmp'[dirOf[j]] \in {"files", "running"}
  BY <1>1 DEF Begin, indexVars
<1>3. final[dirOf[j]] = "absent" /\ "absent" \notin States
  BY <1>1 DEF Parts, UnwrittenPart, Owns, States, Terminal
<1> QED
  BY <1>1, <1>2, <1>3
     DEF Parts, UnwrittenPart, IndexPart, GonePart, DonePart, SayPart, Succeeded

\* Run returns: no error only with the outcome written or committed.
LEMMA ReturnKeeps ==
  ASSUME Base, GivenInv, NEW j \in Jobs, Return(j), Parts(j)
  PROVE  Parts(j)'
<1> USE BaseFacts
<1>1. /\ dirOf[j] \in Ids /\ dirOf[j] # NoDir /\ fin[j] = "no" /\ hooks[j] = 0 /\ j \notin crashed
      /\ j = current /\ worker = "running" /\ ran[j] # "returned"
  BY HeldFact
<1>2. final[dirOf[j]] = "absent"
      /\ (ran[j] = "began" => tmp[dirOf[j]] \notin {"absent", "empty"})
  BY <1>1 DEF Parts, UnwrittenPart, Owns
<1>3. /\ UNCHANGED <<dirOf, fin, byQueueID, byJobKey, byProject>> /\ ran'[j] = "returned"
      /\ \E e \in Errors : RunReturns(e)
  BY <1>1 DEF Return, AnalysisReturns, ExportReturns, indexVars, Errors
<1>4. /\ UNCHANGED <<current, dropping, hooks, verdict, InLine>> /\ worker' = "returned"
  BY <1>3 DEF RunReturns, lockVars, callVars, toldVars, InLine
<1>5. ASSUME err' = "nil"
      PROVE  final'[dirOf[j]] # "absent" \/ tmp'[dirOf[j]] \notin {"absent", "empty"}
  <2>1. Guess(j, "nil") # "absent"
    BY DEF Guess
  <2>2. CASE ExportReturns(j)
    <3>1. UNCHANGED tmp
      BY <1>5, <2>2 DEF ExportReturns, RunReturns
    <3> QED
      BY <1>2, <2>2, <3>1 DEF ExportReturns
  <2>3. CASE AnalysisReturns(j)
    <3>1. PICK e \in Errors : final' = [final EXCEPT ![dirOf[j]] = Guess(j, e)]
      BY <1>5, <2>3 DEF AnalysisReturns, RunReturns
    <3>2. Guess(j, e) # "absent"
      BY DEF Guess
    <3> QED
      BY <1>1, <3>1, <3>2
  <2> QED
    BY <2>2, <2>3 DEF Return
<1>6. UnwrittenPart(j)' /\ GonePart(j)' /\ SayPart(j)'
  BY <1>1, <1>3, <1>4 DEF UnwrittenPart, Owns, GonePart, SayPart
<1>7. IndexPart(j)'
  BY <1>1, <1>3, <1>4 DEF Parts, IndexPart, Held
<1>8. DonePart(j)'
  BY <1>1, <1>3, <1>4, <1>5 DEF DonePart, Succeeded, Committed
<1> QED
  BY <1>6, <1>7, <1>8 DEF Parts

\* The hook moves the directory, ...
LEMMA MoveKeeps ==
  ASSUME Base, GivenInv, ServiceNext, NEW j \in Jobs, FinalizePending(j), Alone(j), QueueCalm(j),
         Parts(j)
  PROVE  Parts(j)'
<1> USE BaseFacts DEF QueueCalm
<1>1. /\ dirOf[j] \in Ids /\ dirOf[j] # NoDir /\ hooks[j] = 0 /\ j \notin crashed /\ fin[j] = "no"
  BY HeldFact DEF FinalizePending
<1>2. /\ UNCHANGED <<dirOf, ran, byQueueID, byJobKey, byProject>> /\ fin'[j] = "moved"
  BY DEF FinalizePending, indexVars
<1>3. tmp[dirOf[j]] = "absent" \/ final[dirOf[j]] = "absent"
  BY <1>1 DEF Alone, GivenInv
<1>4. \/ /\ tmp'[dirOf[j]] = "absent"
         /\ tmp[dirOf[j]] \notin {"absent", "empty"} => final'[dirOf[j]] # "absent"
      \/ UNCHANGED <<tmp, final>> /\ dirOf[j] \in unmoved'
  BY <1>1, <1>3, MoveFact DEF diskVars
<1>5. /\ Committed(dirOf[j]) => Committed(dirOf[j])'
      /\ Stranded(dirOf[j]) => Stranded(dirOf[j])' \/ Committed(dirOf[j])'
  <2>1. Committed(dirOf[j]) => Committed(dirOf[j])'
    BY <1>1, <1>2, CommitFact DEF Committed
  <2>2. Stranded(dirOf[j]) => Stranded(dirOf[j])' \/ Committed(dirOf[j])'
    BY <1>2, <1>4, MoveFact DEF Stranded, Committed
  <2> QED
    BY <2>1, <2>2
<1>6. UnwrittenPart(j)' /\ GonePart(j)' /\ SayPart(j)'
  BY <1>1, <1>2, <1>4 DEF UnwrittenPart, Owns, GonePart, SayPart
<1>7. IndexPart(j)'
  BY <1>2 DEF Parts, IndexPart
<1>8. DonePart(j)'
  BY <1>1, <1>2, <1>4, <1>5 DEF Parts, DonePart, Committed, Stranded
<1> QED
  BY <1>6, <1>7, <1>8 DEF Parts

\* ... corrects its status.json ...
LEMMA ReconcileKeeps ==
  ASSUME Base, ServiceNext, NEW j \in Jobs, Reconcile(j), QueueCalm(j), Parts(j)
  PROVE  Parts(j)'
<1> USE BaseFacts DEF QueueCalm
<1>1. /\ dirOf[j] \in Ids /\ dirOf[j] # NoDir /\ hooks[j] = 0 /\ fin[j] = "moved"
  BY HeldFact DEF Reconcile
<1>2. /\ UNCHANGED <<dirOf, ran, tmp, byQueueID, byJobKey, byProject, queueVars>>
      /\ fin'[j] = "reconciled"
  BY DEF Reconcile, indexVars
<1>3. FinalState(j)' = FinalState(j)
  BY <1>2 DEF FinalState, queueVars, callVars, workVars
<1>4. /\ final'[dirOf[j]] \in States /\ dirOf[j] \notin unsaid' =>
           final'[dirOf[j]] = FinalState(j)
      /\ UNCHANGED <<unmoved, swept>>
  BY <1>1 DEF Reconcile
<1>5. Committed(dirOf[j]) => Committed(dirOf[j])'
  BY <1>1, <1>2, CommitFact DEF Committed
<1>6. UnwrittenPart(j)' /\ SayPart(j)'
  BY <1>1, <1>2, <1>3, <1>4 DEF UnwrittenPart, Owns, SayPart
<1>7. IndexPart(j)' /\ GonePart(j)'
  BY <1>1, <1>2, <1>4 DEF Parts, IndexPart, GonePart
<1>8. DonePart(j)'
  BY <1>1, <1>2, <1>4, <1>5 DEF Parts, DonePart, Stranded
<1> QED
  BY <1>6, <1>7, <1>8 DEF Parts

\* ... and lets go of the job.
LEMMA LetGoKeeps ==
  ASSUME Base, KeyInv, ServiceNext, NEW j \in Jobs, FinalizeReturns(j), Parts(j)
  PROVE  Parts(j)'
<1> USE BaseFacts, NoJobAssumption
<1>1. /\ dirOf[j] \in Ids /\ dirOf[j] # NoDir /\ hooks[j] = 0 /\ Finalizing(j)
  BY HeldFact
<1>2. j \in byQueueID
  BY <1>1 DEF Parts, IndexPart, Held, Finalizing
<1>3. fin[j] = "reconciled" /\ Untrack(j, dirOf[j])
  BY <1>2 DEF FinalizeReturns
<1>4. /\ j \notin byQueueID' /\ byJobKey'[dirOf[j]] = NoJob /\ byProject' # j
  BY <1>1, <1>3 DEF Untrack
<1>5. /\ UNCHANGED <<dirOf, ran, tmp, final, deleted, unmoved, swept, unsaid>>
      /\ fin'[j] = "over"
  BY DEF FinalizeReturns, diskVars, pastVars, failVars
<1>6. /\ hooks'[j] = 1 /\ verdict'[j] = FinalState(j)
      /\ j # current' \/ worker' = "ending"
      /\ verdict'[j] = "done" => Succeeded(j)
  <2>1. CASE worker = "hook" /\ current = j /\ RunFinalizer
    <3>1. dropping[j] = "no" /\ (state = "done" => err = "nil")
      BY <2>1 DEF QueueInv
    <3> QED
      BY <1>1, <2>1, <3>1 DEF RunFinalizer, CallHook, FinalState, Succeeded, lockVars
  <2>2. CASE DropHook(j)
    <3>1. j # current
      BY <2>2 DEF DropHook, QueueInv
    <3> QED
      BY <1>1, <2>2, <3>1 DEF DropHook, CallHook, FinalState, lockVars
  <2> QED
    BY <2>1, <2>2 DEF FinalizeReturns
<1>7. ~Held(j)'
  <2>1. InLine' = InLine /\ current' = current
    BY DEF FinalizeReturns, RunFinalizer, DropHook, lockVars, InLine
  <2>2. j \notin InLine'
    BY <1>1, <2>1 DEF Finalizing, QueueInv
  <2>3. dropping'[j] # "hook"
    BY <1>1 DEF FinalizeReturns, RunFinalizer, DropHook, callVars, QueueInv
  <2> QED
    BY <1>6, <2>2, <2>3 DEF Held
<1>8. UnwrittenPart(j)' /\ IndexPart(j)' /\ GonePart(j)'
  BY <1>3, <1>4, <1>5, <1>6, <1>7 DEF Parts, UnwrittenPart, Owns, IndexPart, GonePart
<1>9. SayPart(j)'
  BY <1>3, <1>5, <1>6 DEF Parts, SayPart
<1>10. DonePart(j)'
  BY <1>3, <1>5, <1>6 DEF Parts, DonePart, Succeeded, Committed, Stranded
<1> QED
  BY <1>8, <1>9, <1>10 DEF Parts

LEMMA DeleteKeeps ==
  ASSUME Base, ServiceNext, NEW j \in Jobs, dirOf[j] \in Ids, Delete(dirOf[j]), QueueCalm(j),
         Parts(j)
  PROVE  Parts(j)'
<1> USE BaseFacts DEF QueueCalm
<1>1. /\ UNCHANGED <<dirOf, ran, fin, tmp, byQueueID, byJobKey, byProject, crashed>>
      /\ UNCHANGED <<unmoved, swept, unsaid>> /\ final[dirOf[j]] # "absent"
      /\ final'[dirOf[j]] \in {"absent", "empty", "files", final[dirOf[j]]}
      /\ States \cap {"absent", "empty", "files"} = {}
  BY DEF Delete, indexVars, bootVars, States, Terminal, Remains
<1>2. Committed(dirOf[j]) => Committed(dirOf[j])'
  BY <1>1, CommitFact DEF Committed
<1>3. UnwrittenPart(j)' /\ IndexPart(j)' /\ GonePart(j)' /\ SayPart(j)'
  BY <1>1 DEF Parts, UnwrittenPart, Owns, IndexPart, GonePart, SayPart
<1>4. DonePart(j)'
  BY <1>1, <1>2 DEF Parts, DonePart, Stranded
<1> QED
  BY <1>3, <1>4 DEF Parts

\* Of what the server that died had, its next start finds only the past.
LEMMA DownFact ==
  ASSUME Base, boot # "up", NEW j \in Jobs
  PROVE  ~Owns(j) /\ ~Held(j) /\ ~Succeeded(j) /\ fin[j] \notin {"moved", "reconciled"}
<1> USE BaseFacts, NoJobAssumption
<1>1. /\ pending = <<>> /\ j # current /\ dropping[j] # "hook"
      /\ id[j] = 0 => dirOf[j] = NoDir
      /\ id[j] > 0 /\ hooks[j] = 0 => j \in crashed
  BY DEF DownInv
<1>2. j \notin InLine
  BY <1>1 DEF InLine, Range
<1>3. ~Finalizing(j) /\ ~Held(j) /\ ~Succeeded(j)
  BY <1>1, <1>2 DEF Finalizing, Held, Succeeded
<1>4. ~Owns(j)
  BY <1>1 DEF Owns
<1> QED
  BY <1>3, <1>4 DEF PlaceInv

LEMMA StartKeeps ==
  ASSUME Base, ServiceNext, MarkRunningInterrupted \/ RemoveOrphanDirs, NEW j \in Jobs,
         dirOf[j] \in Ids, QueueCalm(j), Parts(j)
  PROVE  Parts(j)'
<1> USE BaseFacts DEF QueueCalm
<1>1. /\ UNCHANGED <<dirOf, ran, fin, byQueueID, byJobKey, byProject, crashed>> /\ boot # "up"
  BY DEF MarkRunningInterrupted, RemoveOrphanDirs, indexVars
<1>2. ~Owns(j) /\ ~Held(j) /\ ~Succeeded(j) /\ fin[j] \notin {"moved", "reconciled"}
  BY <1>1, DownFact
<1>3. /\ tmp[dirOf[j]] = "absent" => tmp'[dirOf[j]] = "absent"
      /\ final[dirOf[j]] # "running" => final'[dirOf[j]] = final[dirOf[j]]
      /\ final'[dirOf[j]] \in States => final[dirOf[j]] \in States
      /\ unmoved' = unmoved /\ swept \subseteq swept' /\ unsaid \subseteq unsaid'
      /\ dirOf[j] \in unmoved => \/ dirOf[j] \in swept' \/ tmp'[dirOf[j]] = tmp[dirOf[j]]
                                 \/ tmp'[dirOf[j]] \notin {"absent", "empty"}
  BY DEF MarkRunningInterrupted, RemoveOrphanDirs, States
<1>4. hooks[j] > 0 => verdict[j] # "running"
  BY DEF QueueInv, Terminal
<1>5. Committed(dirOf[j]) => Committed(dirOf[j])'
  BY <1>1, CommitFact DEF Committed
<1>6. UnwrittenPart(j)' /\ IndexPart(j)' /\ GonePart(j)'
  BY <1>1, <1>2, <1>3 DEF Parts, UnwrittenPart, Owns, IndexPart, GonePart
<1>7. SayPart(j)'
  BY <1>1, <1>2, <1>3, <1>4 DEF Parts, SayPart
<1>8. DonePart(j)'
  BY <1>1, <1>2, <1>3, <1>5 DEF Parts, DonePart, Stranded
<1> QED
  BY <1>6, <1>7, <1>8 DEF Parts

LEMMA CrashKeeps ==
  ASSUME Base, ServiceNext, Crash, NEW j \in Jobs, Alone(j), Alone(j)', dirOf'[j] = dirOf[j],
         dirOf[j] \in Ids, Parts(j)
  PROVE  Parts(j)'
<1> USE BaseFacts
<1>1. boot' # "up" /\ Base'
  BY BaseStep DEF Crash
<1>2. ~Owns(j)' /\ ~Held(j)' /\ ~Succeeded(j)' /\ fin'[j] \notin {"moved", "reconciled"}
  <2>1. fin'[j] = "no"
    BY DEF Crash
  <2>2. /\ j # current' /\ dropping'[j] # "hook" /\ j \notin InLine'
    BY NoJobAssumption DEF Crash, InLine, Range
  <2>3. ~Owns(j)'
    BY <1>1 DEF Base, DownInv, Owns, QueueInv, QueueTypes
  <2> QED
    BY <2>1, <2>2, <2>3 DEF Held, Succeeded
<1>3. /\ UNCHANGED <<tmp, final, hooks, verdict, unmoved, swept, unsaid>> /\ byQueueID' = {}
      /\ byJobKey'[dirOf[j]] = NoJob /\ byProject' = NoJob
  BY DEF Crash, diskVars, toldVars, pastVars, failVars
<1>4. Committed(dirOf[j]) => Committed(dirOf[j])'
  BY CommitFact DEF Committed
<1>5. UnwrittenPart(j)' /\ IndexPart(j)' /\ GonePart(j)' /\ SayPart(j)'
  BY <1>2, <1>3, NoJobAssumption DEF Parts, UnwrittenPart, IndexPart, GonePart, SayPart
<1>6. DonePart(j)'
  BY <1>2, <1>3, <1>4 DEF Parts, DonePart, Stranded
<1> QED
  BY <1>5, <1>6 DEF Parts

LEMMA AloneStep == Base /\ GivenInv /\ KeyInv /\ AloneInv /\ ServiceNext => AloneInv'
<1> SUFFICES ASSUME Base, GivenInv, KeyInv, AloneInv, ServiceNext, NEW j \in Jobs, Alone(j)'
             PROVE  Parts(j)'
  BY DEF AloneInv
<1>1. CASE NewDirMake(j)
  BY <1>1, ReserveKeeps
<1>2. CASE ~NewDirMake(j)
  <2>1. Alone(j) /\ dirOf'[j] = dirOf[j] /\ dirOf[j] \in Ids /\ Parts(j)
    BY <1>2, AloneFact DEF AloneInv
  <2>2. CASE Crash
    BY <2>1, <2>2, CrashKeeps
  <2>3. CASE Queue(j) \/ Return(j) \/ FinalizeReturns(j)
    BY <2>1, <2>3, QueueKeeps, ReturnKeeps, LetGoKeeps
  <2>4. CASE ~Crash /\ ~Queue(j) /\ ~Return(j) /\ ~FinalizeReturns(j)
    <3>1. QueueCalm(j)
      BY <2>4, QueueCalmFact
    <3>2. CASE Begin(j) \/ FinalizePending(j) \/ Reconcile(j) \/ Delete(dirOf[j])
      BY <2>1, <3>1, <3>2, BeginKeeps, MoveKeeps, ReconcileKeeps, DeleteKeeps
    <3>3. CASE MarkRunningInterrupted \/ RemoveOrphanDirs
      BY <2>1, <3>1, <3>3, StartKeeps
    <3>4. CASE /\ ~Begin(j) /\ ~FinalizePending(j) /\ ~Reconcile(j) /\ ~Delete(dirOf[j])
               /\ ~MarkRunningInterrupted /\ ~RemoveOrphanDirs
      <4>1. boot = "up"
        BY <2>4, <3>4, UpFact
      <4>2. DiskCalm(j)
        BY <1>2, <2>4, <3>4, <4>1, DiskCalmFact
      <4> QED
        BY <2>1, <3>1, <4>2, CalmFact
    <3> QED
      BY <3>2, <3>3, <3>4
  <2> QED
    BY <2>2, <2>3, <2>4
<1> QED
  BY <1>1, <1>2

-----------------------------------------------------------------------------
(* What a published directory says while the server is up                   *)

RunningInv ==
  /\ boot = "up" =>
       \A i \in Ids : final[i] = "running" /\ given[i] = 1 /\ i \notin unsaid =>
         \E j \in byQueueID : dirOf[j] = i /\ fin[j] = "moved"
  /\ boot = "marked" => \A i \in Ids : final[i] = "running" => i \in unsaid

\* Only the rename of the hook publishes one that says running.
LEMMA PublishFact ==
  ASSUME Base, ServiceNext, NEW i \in Ids, final'[i] = "running", final[i] # "running"
  PROVE  \E j \in Jobs : FinalizePending(j) /\ dirOf[j] = i
<1> USE BaseFacts
<1>1. ASSUME NEW j \in Jobs, Return(j) PROVE FALSE
  <2>1. dirOf[j] \in Ids
    BY <1>1, HeldFact
  <2>2. UNCHANGED final \/ \E e \in Errors : final' = [final EXCEPT ![dirOf[j]] = Guess(j, e)]
    BY <1>1 DEF Return, AnalysisReturns, ExportReturns
  <2>3. \A e \in Errors : Guess(j, e) # "running"
    BY DEF Guess
  <2> QED
    BY <2>1, <2>2, <2>3
<1>2. ASSUME NEW j \in Jobs, FinalizePending(j) PROVE dirOf[j] = i
  BY <1>2, MoveFact
<1>3. ASSUME NEW j \in Jobs, Reconcile(j) PROVE FALSE
  <2>1. FinalState(j) # "running"
    BY <1>3, HeldFact DEF Terminal
  <2> QED
    BY <1>3, <2>1 DEF Reconcile
<1>4. ASSUME NEW k \in Ids, Delete(k) PROVE FALSE
  BY <1>4 DEF Delete, Remains
<1>5. ~MarkRunningInterrupted
  BY DEF MarkRunningInterrupted
<1> QED
  BY <1>1, <1>2, <1>3, <1>4, <1>5
     DEF ServiceNext, QueueStep, NewDirStat, NewDirTaken, NewDirMake, Queue, QueueRefused, Cancel,
         Begin, FinalizeReturns, Crash, RemoveOrphanDirs, serviceVars, diskVars

LEMMA RunningStep == Base /\ GivenInv /\ KeyInv /\ RunningInv /\ ServiceNext => RunningInv'
<1> SUFFICES ASSUME Base, GivenInv, KeyInv, RunningInv, ServiceNext PROVE RunningInv'
  OBVIOUS
<1> USE BaseFacts
<1>1. CASE Crash
  BY <1>1 DEF Crash, RunningInv
<1>2. CASE MarkRunningInterrupted
  BY <1>2 DEF MarkRunningInterrupted, RunningInv
<1>3. CASE RemoveOrphanDirs
  BY <1>3 DEF RemoveOrphanDirs, RunningInv
<1>4. CASE ~Crash /\ ~MarkRunningInterrupted /\ ~RemoveOrphanDirs
  <2>1. boot = "up" /\ boot' = boot
    BY <1>4, UpFact
       DEF ServiceNext, QueueStep, serviceVars, bootVars, NewDirStat, NewDirTaken, NewDirMake,
           Queue, QueueRefused, Cancel, Begin, Return, FinalizePending, Reconcile,
           FinalizeReturns, Delete
  <2>0. unsaid \subseteq unsaid'
    BY <1>4 DEF ServiceNext, QueueStep, serviceVars, pastVars, failVars, NewDirStat, NewDirTaken,
                NewDirMake, Queue, QueueRefused, Cancel, Begin, Return, FinalizePending, Reconcile,
                FinalizeReturns, Delete
  <2>2. ASSUME NEW i \in Ids, final'[i] = "running", given'[i] = 1, i \notin unsaid'
        PROVE  \E j \in byQueueID' : dirOf'[j] = i /\ fin'[j] = "moved"
    <3>1. CASE final[i] # "running"
      <4>1. PICK j \in Jobs : FinalizePending(j) /\ dirOf[j] = i
        BY <2>2, <3>1, PublishFact
      <4> QED
        BY <4>1 DEF FinalizePending, indexVars
    <3>2. CASE final[i] = "running"
      <4>1. given[i] = 1
        BY <2>2, <3>2, GivenFact, GivenFrame DEF GivenInv
      <4>2. PICK j \in byQueueID : dirOf[j] = i /\ fin[j] = "moved"
        BY <2>0, <2>1, <2>2, <3>2, <4>1 DEF RunningInv
      <4>3. j \in Jobs /\ Finalizing(j) /\ id[j] > 0 /\ dirOf[j] # NoDir
        BY <4>2, HeldFact DEF PlaceInv
      <4>4. dirOf'[j] = i /\ Alone(j)'
        BY <2>2, <4>2, <4>3, IdFrame DEF Alone
      <4>5. /\ ~NewDirMake(j) /\ ~Queue(j) /\ ~Begin(j) /\ ~Return(j) /\ ~FinalizePending(j)
            /\ ~FinalizeReturns(j)
        BY <4>2, <4>3, HeldFact, GivenFact DEF Queue, Submit, FinalizePending, FinalizeReturns
      <4>6. ~Reconcile(j)
        <5>1. FinalState(j) # "running"
          BY <4>3, HeldFact DEF Terminal
        <5> QED
          BY <2>2, <3>2, <4>2, <5>1 DEF Reconcile, States
      <4>7. CASE Delete(dirOf[j])
        BY <4>2, <4>4, <4>7 DEF Delete, indexVars
      <4>8. CASE ~Delete(dirOf[j])
        <5>1. DiskCalm(j)
          BY <1>4, <2>1, <4>3, <4>4, <4>5, <4>6, <4>8, DiskCalmFact
        <5> QED
          BY <4>2, <4>4, <5>1 DEF DiskCalm
      <4> QED
        BY <4>7, <4>8
    <3> QED
      BY <3>1, <3>2
  <2> QED
    BY <2>1, <2>2 DEF RunningInv
<1> QED
  BY <1>1, <1>2, <1>3, <1>4

-----------------------------------------------------------------------------
(* What holds of the service                                                *)

Agreed == Base /\ ShareInv /\ GivenInv /\ KeyInv /\ AloneInv /\ RunningInv

LEMMA AgreedInit == ServiceInit => Agreed
<1> SUFFICES ASSUME ServiceInit PROVE Agreed
  OBVIOUS
<1>1. Base
  BY BaseInit
<1>2. ShareInv /\ GivenInv /\ KeyInv /\ AloneInv
  BY DEF ServiceInit, ShareInv, Claims, GivenInv, KeyInv, AloneInv, Alone
<1>3. RunningInv
  BY DEF ServiceInit, RunningInv
<1> QED
  BY <1>1, <1>2, <1>3 DEF Agreed

LEMMA AgreedStep == Agreed /\ [ServiceNext]_vars => Agreed'
<1>1. Agreed /\ ServiceNext => Agreed'
  BY BaseStep, ShareStep, GivenStep, KeyStep, AloneStep, RunningStep DEF Agreed
<1>2. ASSUME Agreed, UNCHANGED vars PROVE Agreed'
  <2>1. /\ UNCHANGED <<pending, current, id, worker, err, state, dropping, hooks, verdict, crashed>>
        /\ UNCHANGED <<boot, tmp, final, dirOf, ran, fin, byQueueID, byJobKey, byProject, given,
                       deleted, unmoved, swept, unsaid>>
    BY <1>2 DEF vars, queueVars, serviceVars, lockVars, workVars, callVars, toldVars, bootVars,
                diskVars, indexVars, pastVars, failVars
  <2>2. Base'
    BY <1>2, BaseStutter DEF Agreed
  <2>3. ShareInv' /\ GivenInv' /\ KeyInv' /\ RunningInv'
    BY <1>2, <2>1 DEF Agreed, ShareInv, Claims, Committed, GivenInv, KeyInv, RunningInv
  <2>4. AloneInv'
    BY <1>2, <2>1 DEF Agreed, AloneInv, Alone, Parts, UnwrittenPart, IndexPart, GonePart, DonePart,
                      SayPart, Owns, Held, Succeeded, FinalState, Committed, Stranded, InLine
  <2> QED
    BY <2>2, <2>3, <2>4 DEF Agreed
<1> QED
  BY <1>1, <1>2

LEMMA Agreement == ServiceSpec => []Agreed
BY AgreedInit, AgreedStep, PTL DEF ServiceSpec

\* NewDir: the directory a job that waits or runs writes to is no other's,
\* unless the id was committed between the Stat of one of them and its Mkdir.
THEOREM DirectoriesApart == ServiceSpec => []OwnDirectory
<1>1. Agreed => OwnDirectory
  BY DEF Agreed, ShareInv, OwnDirectory, Owns, Claims
<1> QED
  BY <1>1, Agreement, PTL

\* SubmitWith and finalize: a job the queue holds is tracked until its hook is
\* done with its directory, and one whose end was announced has left no entry of
\* the index whatever failed, and a .tmp only where its hook could not move it.
THEOREM IndexFollows == ServiceSpec => []IndexFollowsJobs
<1>1. Agreed => IndexFollowsJobs
  <2> SUFFICES ASSUME Agreed, NEW j \in Jobs, Alone(j)
               PROVE  /\ Held(j) => j \in byQueueID /\ byJobKey[dirOf[j]] = j
                      /\ ends[j] > 0 =>
                           /\ j \notin byQueueID /\ byProject # j /\ byJobKey[dirOf[j]] = NoJob
                           /\ tmp[dirOf[j]] = "absent" \/ dirOf[j] \in unmoved
    BY DEF IndexFollowsJobs, Held, InLine
  <2>1. Parts(j) /\ (ends[j] > 0 => hooks[j] > 0)
    BY DEF Agreed, AloneInv, Base, QueueInv
  <2> QED
    BY <2>1 DEF Parts, IndexPart, GonePart
<1> QED
  BY <1>1, Agreement, PTL

\* finalizePending, reconcileAnalysisStatus and the sweep at start: a job that
\* ended done is on disk until somebody deletes it, or in its .tmp until a start
\* sweeps it when its commit failed; a status.json says what the queue announced,
\* and a published one says running only while the job's hook corrects it, unless
\* it could not be rewritten.
THEOREM DiskSpeaksTrue == ServiceSpec => []DiskTellsTheVerdict
<1>1. Agreed => DiskTellsTheVerdict
  <2> SUFFICES ASSUME Agreed PROVE DiskTellsTheVerdict
    OBVIOUS
  <2>1. ASSUME NEW j \in Jobs, ends[j] > 0, Alone(j)
        PROVE  /\ verdict[j] = "done" =>
                    final[dirOf[j]] # "absent" \/ dirOf[j] \in deleted \/ Stranded(dirOf[j])
               /\ final[dirOf[j]] \in States /\ dirOf[j] \notin unsaid =>
                    final[dirOf[j]] = verdict[j]
    <3>1. Parts(j) /\ hooks[j] > 0
      BY <2>1 DEF Agreed, AloneInv, Base, QueueInv
    <3> QED
      BY <3>1 DEF Parts, DonePart, SayPart, Committed
  <2>2. boot = "up" =>
          \A i \in Ids : final[i] = "running" /\ given[i] = 1 /\ i \notin unsaid =>
            \E j \in byQueueID : dirOf[j] = i /\ fin[j] = "moved"
    BY DEF Agreed, RunningInv
  <2> QED
    BY <2>1, <2>2 DEF DiskTellsTheVerdict
<1> QED
  BY <1>1, Agreement, PTL
=============================================================================
