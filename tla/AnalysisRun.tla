----------------------------- MODULE AnalysisRun -----------------------------
(***************************************************************************)
(* Analysis.Run (internal/jobs/analysis*.go): nine steps, some of which    *)
(* fail the job and some of which only warn, with the isolated resolutions *)
(* of step 6 several at a time.  JobService knows it only by what it may   *)
(* leave.                                                                  *)
(*                                                                         *)
(* A version is a dependency, in the manifest's order, and a number: 0 the *)
(* one the project pins, then the newer stable ones, ascending.  A vector  *)
(* is a number: rank.Vector.Compare is a total order.                      *)
(***************************************************************************)
EXTENDS Naturals, FiniteSets, SequencesExt

CONSTANTS
  Deps,       \* how many direct dependencies the manifest has
  MaxNewer,   \* bound: newer versions of a dependency
  MaxVersions,   \* bound: versions of all dependencies
  Parallel,   \* Settings.ResolveParallelism
  MaxVector   \* bound: vectors

ASSUME SizesAssumption == Deps \in Nat /\ MaxNewer \in Nat /\ Parallel \in Nat \ {0}

VARIABLES
  newer, keys,   \* what npm.NewerStable and rank.KeyVersions give for each dependency
  cancelled,     \* the job's context is done
  step,          \* the step Run is at
  err,           \* what Run returns
  listed,        \* how many dependencies step 5 has asked the registry for
  unlisted,      \* unlisted[d]: why d has no candidates, "nil" when it has
  started,       \* how many tasks step 6 has started
  outcome,       \* outcome[t]: what the resolution of t has come to
  locks,         \* the versions with a lockfile under candidates/
  scanned,       \* how many of step 7's two scans have answered
  outran,        \* history: how many of them under a context that was done
  vector,        \* vector[t]: the vulnerabilities step 7 found, 0 for what it did not scan
  open,          \* the candidates whose registry facts block nothing
  best,          \* best[d]: the version step 8 proposes, 0 for none
  warned,        \* the dependencies the result warns of
  files          \* the job's directory

worldVars == <<newer, keys>>
listVars == <<listed, unlisted>>
taskVars == <<started, outcome>>
scanVars == <<scanned, outran>>
resultVars == <<vector, open, best, warned>>
vars == <<worldVars, cancelled, step, err, listVars, taskVars, locks, scanVars, resultVars, files>>

Dependencies == 1..Deps
Versions == Dependencies \X (0..MaxNewer)
Errors == {"canceled", "other"}
Steps == <<"validate", "prepare-tools", "resolve-project", "scan-project", "list-candidates",
           "resolve-candidates", "scan-candidates", "rank", "check-combined", "ranking.json">>

\* KeyVersions always has the latest overall.
AnalysisInit ==
  /\ newer \in [Dependencies -> 0..MaxNewer]
  /\ Deps + FoldFunction(+, 0, newer) <= MaxVersions
  /\ keys \in [Dependencies -> SUBSET (1..MaxNewer)]
  /\ \A d \in Dependencies : keys[d] \subseteq 1..newer[d] /\ (newer[d] > 0 => newer[d] \in keys[d])
  /\ cancelled = FALSE /\ step = "validate" /\ err = "nil"
  /\ listed = 0 /\ unlisted = [d \in Dependencies |-> "nil"]
  /\ started = 0 /\ outcome = [t \in Versions |-> "none"]
  /\ locks = {} /\ files = {} /\ warned = {} /\ scanned = 0 /\ outran = 0
  /\ vector = [t \in Versions |-> 0] /\ open = {} /\ best = [d \in Dependencies |-> 0]

\* Cancel of the job, or Close of the queue.
Cancel ==
  /\ ~cancelled /\ step # "over" /\ cancelled' = TRUE
  /\ UNCHANGED <<worldVars, step, err, listVars, taskVars, locks, scanVars, resultVars, files>>

-----------------------------------------------------------------------------
(* Steps and what they call *)

\* The answer of a child process or the registry, under the job's context. A
\* child is started whatever the context, and killed once that is done; when it
\* has ended by then, runner.run may take the child's end or the context's.
Answers(e) == e = "canceled" => cancelled

At(s) == step = s
Go == step' = Steps[(CHOOSE k \in DOMAIN Steps : Steps[k] = step) + 1] /\ UNCHANGED err
Stop(e) == step' = "over" /\ err' = e

\* Reading and copying package.json asks for no context.
Validate ==
  /\ At("validate")
  /\ Go \/ Stop("other")
  /\ files' \in {files, files \cup {"package.json"}} /\ (err' = "nil" => "package.json" \in files')
  /\ UNCHANGED <<worldVars, cancelled, listVars, taskVars, locks, scanVars, resultVars>>

\* A pnpm that is installed needs no answer; a database that is not refreshed
\* is only a warning, which no property tells apart.
PrepareTools ==
  /\ At("prepare-tools")
  /\ Go \/ \E e \in Errors : Answers(e) /\ Stop(e)
  /\ UNCHANGED <<worldVars, cancelled, listVars, taskVars, locks, scanVars, resultVars, files>>

\* Steps 3 and 4: pnpm or Trivy, then what it wrote is read; the lockfile is
\* the step's to write, the report Trivy's, also when it is killed.
RunTool(s, file) ==
  /\ At(s)
  /\ \/ Go /\ files' = files \cup {file}
     \/ /\ \E e \in Errors : Answers(e) /\ Stop(e)
        /\ files' \in {files, files \cup {file}}
        /\ s = "resolve-project" /\ err' = "canceled" => files' = files
  /\ UNCHANGED <<worldVars, cancelled, listVars, taskVars, locks, scanVars, resultVars>>

ResolveProject == RunTool("resolve-project", "project/pnpm-lock.yaml")
ScanProject == RunTool("scan-project", "project.trivy.json")

\* listOneCandidate: an error, or a pinned version that is none, becomes the
\* dependency's warning.
ListOne ==
  /\ At("list-candidates") /\ listed < Deps
  /\ listed' = listed + 1
  /\ \E e \in Errors \cup {"nil"} :
       Answers(e) /\ unlisted' = [unlisted EXCEPT ![listed + 1] = e]
  /\ UNCHANGED <<worldVars, cancelled, step, err, taskVars, locks, scanVars, resultVars, files>>

ListCandidates ==
  /\ At("list-candidates") /\ listed = Deps /\ Go
  /\ UNCHANGED <<worldVars, cancelled, listVars, taskVars, locks, scanVars, resultVars, files>>

-----------------------------------------------------------------------------
(* Step 6: resolveCandidateTasks *)

InOrder(S) == SetToSortSeq(S, <)
Of(d, S) == LET s == InOrder(S) IN [k \in DOMAIN s |-> <<d, s[k]>>]
ForAll(Part(_)) ==
  FlattenSeq([d \in Dependencies |-> IF unlisted[d] = "nil" THEN Part(d) ELSE <<>>])

Primary(d) == Of(d, {0} \cup keys[d])
Rest(d) == Of(d, (1..newer[d]) \ keys[d])

\* buildCandidateTasks: every dependency's pinned and key versions, then every
\* dependency's remaining ones.
Tasks == ForAll(Primary) \o ForAll(Rest)

InFlight == {t \in Versions : outcome[t] = "running"}
Failed(t) == outcome[t] \in Errors

\* Seeded fault: a cancelled run starts no more tasks, and waits for them all.
StartUnlessCancelled ==
  /\ At("resolve-candidates") /\ ~cancelled /\ started < Len(Tasks) /\ Cardinality(InFlight) < Parallel
  /\ started' = started + 1
  /\ outcome' = [outcome EXCEPT ![Tasks[started + 1]] = "running"]
  /\ UNCHANGED <<worldVars, cancelled, step, err, listVars, locks, scanVars, resultVars, files>>

\* The loop takes a slot for the next task, also when the context is done.
Start ==
  /\ At("resolve-candidates") /\ started < Len(Tasks) /\ Cardinality(InFlight) < Parallel
  /\ started' = started + 1
  /\ outcome' = [outcome EXCEPT ![Tasks[started + 1]] = "running"]
  /\ UNCHANGED <<worldVars, cancelled, step, err, listVars, locks, scanVars, resultVars, files>>

\* pnpm answers, the lockfile is parsed, the outcome kept and the slot given
\* back: an error is the task's, not the job's.
Settle(t) ==
  /\ At("resolve-candidates") /\ outcome[t] = "running"
  /\ \E e \in Errors \cup {"nil"} : Answers(e) /\ outcome' = [outcome EXCEPT ![t] = e]
  /\ UNCHANGED <<worldVars, cancelled, step, err, listVars, started, locks, scanVars, resultVars, files>>

\* The versions that resolved, in the order of their tasks, and the first n.
Resolved == {t \in Versions : outcome[t] = "nil"}
ResolvedUpTo(n) == {Tasks[k] : k \in 1..n} \cap Resolved

\* After wg.Wait: one lockfile that cannot be written fails the job.
WriteLockfiles ==
  /\ At("resolve-candidates") /\ started = Len(Tasks) /\ InFlight = {}
  /\ \/ Go /\ locks' = Resolved
     \/ /\ Stop("other")
        /\ \E n \in 0..Len(Tasks) : locks' = ResolvedUpTo(n) /\ locks' # Resolved
  /\ UNCHANGED <<worldVars, cancelled, listVars, taskVars, scanVars, resultVars, files>>

-----------------------------------------------------------------------------
(* Steps 7 to 9 *)

\* What the n-th scan is of: the primary versions' packages, then the rest's.
ScanOf(n) == {t \in Resolved : t[2] \in {0} \cup keys[t[1]] <=> n = 1}

ScanAnswers ==
  /\ scanned' = scanned + 1 /\ outran' = IF cancelled THEN outran + 1 ELSE outran
  /\ UNCHANGED <<step, err>>

ScanFails == (\E e \in Errors : Answers(e) /\ Stop(e)) /\ UNCHANGED scanVars

\* Seeded fault: nothing to scan needs no scan.
ScanSomething ==
  /\ At("scan-candidates") /\ scanned < 2
  /\ IF ScanOf(scanned + 1) = {}
     THEN scanned' = scanned + 1 /\ UNCHANGED <<outran, step, err>>
     ELSE ScanAnswers \/ ScanFails
  /\ UNCHANGED <<worldVars, cancelled, listVars, taskVars, locks, resultVars, files>>

\* Each of the two scans is run, on no packages too.
ScanOne ==
  /\ At("scan-candidates") /\ scanned < 2
  /\ ScanAnswers \/ ScanFails
  /\ UNCHANGED <<worldVars, cancelled, listVars, taskVars, locks, resultVars, files>>

\* Their reports are merged and read.
MergeScans ==
  /\ At("scan-candidates") /\ scanned = 2
  /\ \/ /\ Go /\ files' = files \cup {"candidates.trivy.json"}
        /\ vector' \in [Versions -> 0..MaxVector] /\ \A t \in Versions \ Resolved : vector'[t] = 0
     \/ Stop("other") /\ files' \in {files, files \cup {"candidates.trivy.json"}} /\ UNCHANGED vector
  /\ UNCHANGED <<worldVars, cancelled, listVars, taskVars, locks, scanVars, open, best, warned>>

\* Seeded fault: the registry's facts alone block a candidate.
OpenByFacts(d, facts) == {v \in 1..newer[d] : <<d, v>> \in facts}

\* A candidate no signal blocks: it resolves, and neither its age, nor its
\* engines, nor a deprecation stands against it.
Open(d, facts) == {v \in 1..newer[d] : <<d, v>> \in facts /\ <<d, v>> \in Resolved}

\* rank.Best: the lowest vector; the smallest jump and then the lowest version
\* are, for versions of one dependency in order, the first.
Best(d, facts) ==
  LET Lower(v, w) == vector[<<d, v>>] < vector[<<d, w>>] \/ (vector[<<d, v>>] = vector[<<d, w>>] /\ v < w)
      first == {v \in Open(d, facts) : \A w \in Open(d, facts) \ {v} : Lower(v, w)}
  IN {v \in first : vector[<<d, v>>] < vector[<<d, 0>>]}

Rankable(d) == unlisted[d] = "nil" /\ <<d, 0>> \in Resolved

\* rankDependency: without its pinned version's own resolution a dependency is
\* warned of, and nothing is proposed for it.
Warned == {d \in Dependencies : ~Rankable(d)}

Rank ==
  /\ At("rank")
  /\ open' \in SUBSET (Versions \cap ToSet(Tasks)) /\ \A d \in Dependencies : <<d, 0>> \notin open'
  /\ best' = [d \in Dependencies |->
                IF Rankable(d) /\ Best(d, open') # {} THEN CHOOSE v \in Best(d, open') : TRUE ELSE 0]
  /\ warned' = Warned
  /\ \/ Go /\ files' = files \cup {"candidates.json"}
     \/ Stop("other") /\ UNCHANGED files
  /\ UNCHANGED <<worldVars, cancelled, listVars, taskVars, locks, scanVars, vector>>

\* Whatever goes wrong here, the job goes on: a resolution that fails, or peers
\* it leaves unmet, is a warning, any other error the step's alone.
CheckCombined ==
  /\ At("check-combined") /\ Go
  /\ \/ UNCHANGED files
     \/ \E more \in {{"combined/pnpm-lock.yaml"}, {"combined/pnpm-lock.yaml", "combined.trivy.json"}} :
          files' = files \cup more
  /\ UNCHANGED <<worldVars, cancelled, listVars, taskVars, locks, scanVars, resultVars>>

WriteRanking ==
  /\ At("ranking.json")
  /\ \/ Stop("nil") /\ files' = files \cup {"ranking.json"}
     \/ Stop("other") /\ UNCHANGED files
  /\ UNCHANGED <<worldVars, cancelled, listVars, taskVars, locks, scanVars, resultVars>>

-----------------------------------------------------------------------------

Calls ==
  \/ PrepareTools \/ ResolveProject \/ ScanProject \/ ListOne \/ ScanOne \/ CheckCombined
Own == Validate \/ ListCandidates \/ Start \/ WriteLockfiles \/ MergeScans \/ Rank \/ WriteRanking

AnalysisNext == Cancel \/ Own \/ Calls \/ \E t \in Versions : Settle(t)

AnalysisSpec == AnalysisInit /\ [][AnalysisNext]_vars

\* The scheduler runs what asks nobody; a call ends once the context is done,
\* and nothing else makes it end.
AnalysisFairness ==
  /\ WF_vars(Own) /\ WF_vars(cancelled /\ Calls)
  /\ \A t \in Versions : WF_vars(cancelled /\ Settle(t))

AnalysisFairSpec == AnalysisSpec /\ AnalysisFairness

-----------------------------------------------------------------------------
(* Properties *)

\* Steps 5 and 6 take every error for the registry's or the version's, a cancel
\* included, and neither stops the job.  What keeps a cancelled analysis from
\* ranking the versions it did not get to is the two scans that follow: they run
\* under the done context even when nothing is left to scan, and it takes both
\* answering before their kill to get a cancel into the ranking.
CancelMeetsBothScans ==
  /\ "candidates.json" \in files
  /\ (\E d \in Dependencies : unlisted[d] = "canceled") \/ (\E t \in Versions : outcome[t] = "canceled")
  => outran = 2

\* rankDependency and rank.Best: a version that did not resolve has the vector
\* of a clean one, and so has a pinned version; a proposal was itself resolved
\* and measured against a pinned version that was, is lower, and no other open
\* one is lower still, or as low and older. "Warn instead of leaving the
\* dependency looking clean": one whose pinned version was not scanned has a
\* warning.
ProposalsAreMeasured ==
  \A d \in Dependencies :
    /\ best[d] > 0 =>
         /\ {<<d, 0>>, <<d, best[d]>>} \subseteq Resolved \cap locks
         /\ <<d, best[d]>> \in open
         /\ vector[<<d, best[d]>>] < vector[<<d, 0>>]
         /\ \A v \in 1..newer[d] :
              <<d, v>> \in open \cap Resolved =>
                vector[<<d, best[d]>>] < vector[<<d, v>>]
                \/ (vector[<<d, best[d]>>] = vector[<<d, v>>] /\ best[d] <= v)
    /\ "candidates.json" \in files => <<d, 0>> \in Resolved \/ d \in warned

\* Job: "Run must return once ctx is done".
CancelEndsAnalysis == cancelled ~> step = "over"
=============================================================================
