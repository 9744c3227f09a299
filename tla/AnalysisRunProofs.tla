-------------------------- MODULE AnalysisRunProofs --------------------------
(***************************************************************************)
(* Proofs about AnalysisRun for any number of dependencies and versions    *)
(* and any parallelism: a cancel gets into a ranking past two scans only,  *)
(* and what is proposed was measured.                                      *)
(***************************************************************************)
EXTENDS AnalysisRun, TLAPS

Late == {"check-combined", "ranking.json"}
Ranking == {"rank"} \cup Late
Early == {"validate", "prepare-tools", "resolve-project", "scan-project", "list-candidates",
          "resolve-candidates", "scan-candidates"}

TypeInv ==
  /\ newer \in [Dependencies -> 0..MaxNewer] /\ cancelled \in BOOLEAN
  /\ step \in Early \cup Ranking \cup {"over"}
  /\ unlisted \in [Dependencies -> Errors \cup {"nil"}]
  /\ outcome \in [Versions -> Errors \cup {"none", "running", "nil"}]
  /\ scanned \in 0..2 /\ outran \in 0..2
  /\ vector \in [Versions -> Nat] /\ best \in [Dependencies -> Nat]

\* Where a cancel was taken for an answer.
Mistaken ==
  \/ \E d \in Dependencies : unlisted[d] = "canceled"
  \/ \E t \in Versions : outcome[t] = "canceled"

\* Nothing answers with a cancel unless there was one, which never passes: from
\* then on every scan that answers does so under a context that is done.
CancelInv ==
  /\ Mistaken => cancelled
  /\ step \in Early \ {"scan-candidates"} => scanned = 0 /\ outran = 0
  /\ step = "scan-candidates" => outran <= scanned /\ (Mistaken => outran = scanned)
  /\ step \in Ranking \/ "candidates.json" \in files => (Mistaken => outran = 2)

\* What was resolved is what has a lockfile, from the end of step 6.
LockInv == step \in {"scan-candidates"} \cup Ranking => locks = Resolved

\* Nothing is proposed or ranked before step 8.
PlaceInv ==
  step \in Early \cup {"rank"} =>
    "candidates.json" \notin files /\ \A d \in Dependencies : best[d] = 0

IInv == TypeInv /\ CancelInv /\ LockInv /\ PlaceInv /\ ProposalsAreMeasured

-----------------------------------------------------------------------------
(* Steps                                                                    *)

\* Go follows the order of Steps.
LEMMA GoFact ==
  ASSUME Go
  PROVE  /\ step = "validate" => step' = "prepare-tools"
         /\ step = "prepare-tools" => step' = "resolve-project"
         /\ step = "resolve-project" => step' = "scan-project"
         /\ step = "scan-project" => step' = "list-candidates"
         /\ step = "list-candidates" => step' = "resolve-candidates"
         /\ step = "resolve-candidates" => step' = "scan-candidates"
         /\ step = "scan-candidates" => step' = "rank"
         /\ step = "rank" => step' = "check-combined"
         /\ step = "check-combined" => step' = "ranking.json"
<1>1. DOMAIN Steps = 1..10
  BY DEF Steps
<1>2. /\ Steps[1] = "validate" /\ Steps[2] = "prepare-tools" /\ Steps[3] = "resolve-project"
      /\ Steps[4] = "scan-project" /\ Steps[5] = "list-candidates"
      /\ Steps[6] = "resolve-candidates" /\ Steps[7] = "scan-candidates" /\ Steps[8] = "rank"
      /\ Steps[9] = "check-combined" /\ Steps[10] = "ranking.json"
  BY DEF Steps
<1> DEFINE k == CHOOSE n \in DOMAIN Steps : Steps[n] = step
<1>3. step' = Steps[k + 1]
  BY DEF Go
<1>4. (\E n \in 1..10 : Steps[n] = step) => k \in 1..10 /\ Steps[k] = step
  BY <1>1
<1> HIDE DEF k
<1>5. k \in 1..10 => k \in {1, 2, 3, 4, 5, 6, 7, 8, 9, 10}
  OBVIOUS
<1> QED
  BY <1>2, <1>3, <1>4, <1>5, SMTT(30)

\* The steps before the ranking keep what is said of it.
LEMMA EarlyStep ==
  ASSUME IInv, step \in Early, TypeInv', CancelInv', LockInv', best' = best,
         "candidates.json" \in files' => "candidates.json" \in files
  PROVE  IInv'
<1>1. \A d \in Dependencies : best[d] = 0
  BY DEF IInv, PlaceInv
<1>2. "candidates.json" \notin files
  BY DEF IInv, PlaceInv
<1>3. PlaceInv'
  BY <1>1, <1>2 DEF PlaceInv
<1>4. ProposalsAreMeasured'
  BY <1>1, <1>2 DEF ProposalsAreMeasured
<1> QED
  BY <1>3, <1>4 DEF IInv

\* Steps 1 to 4 ask nobody about a version, nor does the end of step 5.
LEMMA PlainStep ==
  ASSUME IInv, Validate \/ PrepareTools \/ ResolveProject \/ ScanProject \/ ListCandidates
  PROVE  IInv'
<1>1. /\ UNCHANGED <<newer, cancelled, unlisted, outcome, locks, scanned, outran, vector, best>>
      /\ step \in {"validate", "prepare-tools", "resolve-project", "scan-project", "list-candidates"}
      /\ Go \/ step' = "over"
      /\ "candidates.json" \in files' => "candidates.json" \in files
  BY DEF Validate, PrepareTools, ResolveProject, ScanProject, ListCandidates, RunTool, At, Stop,
         worldVars, listVars, taskVars, scanVars, resultVars
<1>2. step' \in {"prepare-tools", "resolve-project", "scan-project", "list-candidates",
                 "resolve-candidates", "over"}
  BY <1>1, GoFact
<1>3. TypeInv'
  BY <1>1, <1>2 DEF IInv, TypeInv, Early
<1>4. CancelInv'
  BY <1>1, <1>2 DEF IInv, CancelInv, Mistaken, PlaceInv, Ranking, Late, Early
<1>5. LockInv'
  BY <1>2 DEF LockInv, Ranking, Late
<1> QED
  BY <1>1, <1>3, <1>4, <1>5, EarlyStep DEF Early

\* Step 5 and the resolutions of step 6: a cancel is only ever the answer to one.
LEMMA AskStep ==
  ASSUME IInv, ListOne \/ Start \/ \E t \in Versions : Settle(t)
  PROVE  IInv'
<1>1. /\ UNCHANGED <<newer, cancelled, step, locks, scanned, outran, vector, best, files>>
      /\ step \in {"list-candidates", "resolve-candidates"}
  BY DEF ListOne, Start, Settle, At, worldVars, listVars, taskVars, scanVars, resultVars
<1>2. TypeInv /\ CancelInv
  BY DEF IInv
<1>3. /\ unlisted' \in [Dependencies -> Errors \cup {"nil"}]
      /\ outcome' \in [Versions -> Errors \cup {"none", "running", "nil"}]
      /\ \A d \in Dependencies : unlisted'[d] = "canceled" => cancelled
      /\ \A t \in Versions : outcome'[t] = "canceled" => cancelled
  <2>1. CASE ListOne
    BY <1>2, <2>1 DEF ListOne, Answers, TypeInv, CancelInv, Mistaken, Errors, taskVars
  <2>2. CASE Start
    BY <1>2, <2>2 DEF Start, TypeInv, CancelInv, Mistaken, Errors, listVars
  <2>3. CASE \E t \in Versions : Settle(t)
    BY <1>2, <2>3 DEF Settle, Answers, TypeInv, CancelInv, Mistaken, Errors, listVars
  <2> QED
    BY <2>1, <2>2, <2>3
<1>4. TypeInv'
  BY <1>1, <1>2, <1>3 DEF TypeInv
<1>5. CancelInv'
  BY <1>1, <1>3 DEF IInv, CancelInv, Mistaken, PlaceInv, Ranking, Late, Early
<1>6. LockInv'
  BY <1>1 DEF LockInv, Ranking, Late
<1> QED
  BY <1>1, <1>4, <1>5, <1>6, EarlyStep DEF Early

LEMMA LockfileStep == IInv /\ WriteLockfiles => IInv'
<1> SUFFICES ASSUME IInv, WriteLockfiles PROVE IInv'
  OBVIOUS
<1>1. /\ UNCHANGED <<newer, cancelled, unlisted, outcome, scanned, outran, vector, best, files>>
      /\ step = "resolve-candidates"
      /\ (Go /\ locks' = Resolved) \/ step' = "over"
  BY DEF WriteLockfiles, At, Stop, worldVars, listVars, taskVars, scanVars, resultVars
<1>2. step' = "over" \/ (step' = "scan-candidates" /\ locks' = Resolved)
  BY <1>1, GoFact
<1>3. TypeInv'
  BY <1>1, <1>2 DEF IInv, TypeInv, Early
<1>4. CancelInv'
  BY <1>1, <1>2 DEF IInv, CancelInv, Mistaken, PlaceInv, Ranking, Late, Early
<1>5. LockInv'
  BY <1>1, <1>2 DEF LockInv, Resolved, Ranking, Late
<1> QED
  BY <1>1, <1>3, <1>4, <1>5, EarlyStep DEF Early

\* A scan that answers after a cancel counts as one that outran it.
LEMMA ScanStep == IInv /\ ScanOne => IInv'
<1> SUFFICES ASSUME IInv, ScanOne PROVE IInv'
  OBVIOUS
<1>1. /\ UNCHANGED <<newer, cancelled, unlisted, outcome, locks, vector, best, files>>
      /\ step = "scan-candidates" /\ scanned < 2
      /\ \/ /\ scanned' = scanned + 1 /\ outran' = (IF cancelled THEN outran + 1 ELSE outran)
            /\ step' = step
         \/ step' = "over" /\ scanned' = scanned /\ outran' = outran
  BY DEF ScanOne, ScanAnswers, ScanFails, At, Stop, worldVars, listVars, taskVars, scanVars,
         resultVars
<1>2. TypeInv /\ CancelInv
  BY DEF IInv
<1>3. outran' \in 0..2 /\ scanned' \in 0..2
  BY <1>1, <1>2 DEF TypeInv, CancelInv
<1>4. TypeInv'
  BY <1>1, <1>2, <1>3 DEF TypeInv, Early
<1>5. CancelInv'
  <2>1. "candidates.json" \notin files' /\ (Mistaken' <=> Mistaken) /\ cancelled' = cancelled
    BY <1>1 DEF IInv, PlaceInv, Early, Mistaken
  <2> QED
    BY <1>1, <1>2, <2>1 DEF CancelInv, TypeInv, Early, Ranking, Late
<1>6. LockInv'
  BY <1>1 DEF IInv, LockInv, Resolved, Ranking, Late
<1> QED
  BY <1>1, <1>4, <1>5, <1>6, EarlyStep DEF Early

LEMMA MergeStep == IInv /\ MergeScans => IInv'
<1> SUFFICES ASSUME IInv, MergeScans PROVE IInv'
  OBVIOUS
<1>1. /\ UNCHANGED <<newer, cancelled, unlisted, outcome, locks, scanned, outran, best>>
      /\ step = "scan-candidates" /\ scanned = 2
      /\ \/ Go /\ vector' \in [Versions -> 0..MaxVector]
         \/ step' = "over" /\ vector' = vector
      /\ "candidates.json" \in files' => "candidates.json" \in files
  BY DEF MergeScans, At, Stop, worldVars, listVars, taskVars, scanVars
<1>2. step' = "over" \/ step' = "rank"
  BY <1>1, GoFact
<1>3. vector' \in [Versions -> Nat]
  <2>1. vector \in [Versions -> Nat]
    BY DEF IInv, TypeInv
  <2>2. CASE vector' \in [Versions -> 0..MaxVector]
    BY <2>2
  <2>3. CASE vector' = vector
    BY <2>1, <2>3
  <2> QED
    BY <1>1, <2>2, <2>3
<1>4. TypeInv'
  BY <1>1, <1>2, <1>3 DEF IInv, TypeInv, Ranking
<1>5. CancelInv'
  <2>1. "candidates.json" \notin files' /\ (Mistaken' <=> Mistaken) /\ cancelled' = cancelled
    BY <1>1 DEF IInv, PlaceInv, Early, Mistaken
  <2>2. CancelInv
    BY DEF IInv
  <2> QED
    BY <1>1, <1>2, <2>1, <2>2 DEF CancelInv, Early, Ranking, Late
<1>6. LockInv'
  BY <1>1, <1>2 DEF IInv, LockInv, Resolved
<1> QED
  BY <1>1, <1>4, <1>5, <1>6, EarlyStep DEF Early

\* rank.Best gives, if anything, one open version that was measured.
LEMMA BestFact ==
  ASSUME TypeInv, NEW d \in Dependencies, NEW facts, NEW v \in Best(d, facts)
  PROVE  /\ v \in 1..newer[d] /\ <<d, v>> \in facts \cap Resolved
         /\ vector[<<d, v>>] < vector[<<d, 0>>]
         /\ \A w \in 1..newer[d] :
              <<d, w>> \in facts \cap Resolved =>
                vector[<<d, v>>] < vector[<<d, w>>]
                \/ (vector[<<d, v>>] = vector[<<d, w>>] /\ v <= w)
<1>1. v \in Open(d, facts) /\ vector[<<d, v>>] < vector[<<d, 0>>]
  BY DEF Best
<1>2. \A w \in Open(d, facts) \ {v} :
        vector[<<d, v>>] < vector[<<d, w>>] \/ (vector[<<d, v>>] = vector[<<d, w>>] /\ v < w)
  BY DEF Best
<1>3. v \in 1..newer[d] /\ <<d, v>> \in facts \cap Resolved
  BY <1>1 DEF Open
<1>4. ASSUME NEW w \in 1..newer[d], <<d, w>> \in facts \cap Resolved
      PROVE  vector[<<d, v>>] < vector[<<d, w>>]
             \/ (vector[<<d, v>>] = vector[<<d, w>>] /\ v <= w)
  <2>1. w \in Open(d, facts)
    BY <1>4 DEF Open
  <2>2. CASE w = v
    BY <1>3, <2>2
  <2>3. CASE w # v
    BY <1>2, <1>3, <2>1, <2>3
  <2> QED
    BY <2>2, <2>3
<1> QED
  BY <1>1, <1>3, <1>4

LEMMA RankStep == IInv /\ Rank => IInv'
<1> SUFFICES ASSUME IInv, Rank PROVE IInv'
  OBVIOUS
<1>1. /\ UNCHANGED <<newer, cancelled, unlisted, outcome, locks, scanned, outran, vector>>
      /\ step = "rank" /\ (Go \/ step' = "over")
      /\ best' = [d \in Dependencies |->
                    IF Rankable(d) /\ Best(d, open') # {} THEN CHOOSE v \in Best(d, open') : TRUE ELSE 0]
      /\ warned' = Warned
  BY DEF Rank, At, Stop, worldVars, listVars, taskVars, scanVars
<1>2. TypeInv /\ CancelInv /\ locks = Resolved /\ Resolved' = Resolved
  BY <1>1 DEF IInv, LockInv, Ranking, Resolved
<1>3. step' \in {"check-combined", "over"}
  BY <1>1, GoFact
<1>4. ASSUME NEW d \in Dependencies, best'[d] # 0
      PROVE  Rankable(d) /\ best'[d] \in Best(d, open')
  BY <1>1, <1>4
<1>5. \A d \in Dependencies : best'[d] \in Nat
  <2> SUFFICES ASSUME NEW d \in Dependencies PROVE best'[d] \in Nat
    OBVIOUS
  <2>1. CASE best'[d] # 0
    <3>1. best'[d] \in 1..newer[d]
      BY <1>2, <1>4, <2>1, BestFact
    <3> QED
      BY <3>1
  <2> QED
    BY <2>1
<1>6. TypeInv'
  <2>1. best' \in [Dependencies -> Nat]
    BY <1>1, <1>5
  <2> QED
    BY <1>1, <1>2, <1>3, <2>1 DEF TypeInv, Ranking, Late
<1>7. CancelInv'
  BY <1>1, <1>2, <1>3 DEF CancelInv, Mistaken, Ranking, Late, Early
<1>8. LockInv'
  BY <1>1, <1>2 DEF LockInv
<1>9. PlaceInv'
  BY <1>3 DEF PlaceInv, Early
<1>10. ASSUME NEW d \in Dependencies, best'[d] > 0
       PROVE  /\ {<<d, 0>>, <<d, best'[d]>>} \subseteq Resolved' \cap locks'
              /\ <<d, best'[d]>> \in open'
              /\ vector'[<<d, best'[d]>>] < vector'[<<d, 0>>]
              /\ \A v \in 1..newer'[d] :
                   <<d, v>> \in open' \cap Resolved' =>
                     vector'[<<d, best'[d]>>] < vector'[<<d, v>>]
                     \/ (vector'[<<d, best'[d]>>] = vector'[<<d, v>>] /\ best'[d] <= v)
  <2>1. best'[d] # 0
    BY <1>10
  <2>2. <<d, 0>> \in Resolved /\ best'[d] \in Best(d, open')
    BY <1>4, <2>1 DEF Rankable
  <2> DEFINE b == best'[d]
  <2> HIDE DEF b
  <2>3. /\ b \in 1..newer[d] /\ <<d, b>> \in open' \cap Resolved
        /\ vector[<<d, b>>] < vector[<<d, 0>>]
        /\ \A w \in 1..newer[d] :
             <<d, w>> \in open' \cap Resolved =>
               vector[<<d, b>>] < vector[<<d, w>>]
               \/ (vector[<<d, b>>] = vector[<<d, w>>] /\ b <= w)
    <3>1. b \in Best(d, open')
      BY <2>2 DEF b
    <3> QED
      BY <1>2, <3>1, BestFact
  <2>4. newer' = newer /\ vector' = vector
    BY <1>1
  <2>5. Resolved' = Resolved /\ locks' = Resolved
    BY <1>1, <1>2
  <2> QED
    BY <2>2, <2>3, <2>4, <2>5 DEF b
<1>11. ASSUME NEW d \in Dependencies PROVE <<d, 0>> \in Resolved' \/ d \in warned'
  BY <1>1, <1>2 DEF Warned, Rankable
<1>12. ProposalsAreMeasured'
  BY <1>10, <1>11 DEF ProposalsAreMeasured
<1> QED
  BY <1>6, <1>7, <1>8, <1>9, <1>12 DEF IInv

\* After the ranking nothing it says is touched, nor by a cancel at any step.
LEMMA LateStep ==
  ASSUME IInv, UNCHANGED <<newer, unlisted, outcome, locks, scanned, outran, vector, open, best, warned>>,
         cancelled' \in BOOLEAN, cancelled => cancelled',
         \/ step' = step /\ files' = files
         \/ /\ step \in Late /\ step' \in Late \cup {"over"}
            /\ "candidates.json" \in files' <=> "candidates.json" \in files
  PROVE  IInv'
<1>1. TypeInv'
  BY DEF IInv, TypeInv, Ranking, Late
<1>2. CancelInv'
  BY DEF IInv, TypeInv, CancelInv, Mistaken, Ranking, Late, Early
<1>3. Resolved' = Resolved
  BY DEF Resolved
<1>4. LockInv'
  BY <1>3 DEF IInv, LockInv, Ranking, Late
<1>5. PlaceInv'
  BY DEF IInv, PlaceInv, Early, Late
<1>6. ("candidates.json" \in files') = ("candidates.json" \in files)
  OBVIOUS
<1>7. ProposalsAreMeasured'
  BY <1>3, <1>6 DEF IInv, ProposalsAreMeasured
<1> QED
  BY <1>1, <1>2, <1>4, <1>5, <1>7 DEF IInv

-----------------------------------------------------------------------------
(* The invariant                                                            *)

LEMMA IInvInit == AnalysisInit => IInv
<1> SUFFICES ASSUME AnalysisInit PROVE IInv
  OBVIOUS
<1>1. TypeInv
  <2>1. newer \in [Dependencies -> 0..MaxNewer] /\ cancelled \in BOOLEAN
    BY DEF AnalysisInit
  <2>2. step \in Early \cup Ranking \cup {"over"} /\ scanned \in 0..2 /\ outran \in 0..2
    <3>1. step = "validate" /\ scanned = 0 /\ outran = 0
      BY DEF AnalysisInit
    <3> QED
      BY <3>1 DEF Early
  <2>3. /\ unlisted \in [Dependencies -> Errors \cup {"nil"}]
        /\ outcome \in [Versions -> Errors \cup {"none", "running", "nil"}]
    BY DEF AnalysisInit
  <2>4. vector \in [Versions -> Nat] /\ best \in [Dependencies -> Nat]
    BY DEF AnalysisInit
  <2> QED
    BY <2>1, <2>2, <2>3, <2>4 DEF TypeInv
<1>2. CancelInv
  BY DEF AnalysisInit, CancelInv, Mistaken, Ranking, Late, Early
<1>3. LockInv /\ PlaceInv
  BY DEF AnalysisInit, LockInv, PlaceInv, Ranking, Late
<1>4. ProposalsAreMeasured
  <2>1. files = {} /\ \A d \in Dependencies : best[d] = 0
    BY DEF AnalysisInit
  <2> QED
    BY <2>1 DEF ProposalsAreMeasured
<1> QED
  BY <1>1, <1>2, <1>3, <1>4 DEF IInv

LEMMA IInvStep == IInv /\ [AnalysisNext]_vars => IInv'
<1> SUFFICES ASSUME IInv, [AnalysisNext]_vars PROVE IInv'
  OBVIOUS
<1>1. cancelled \in BOOLEAN
  BY DEF IInv, TypeInv
<1>2. CASE Cancel
  BY <1>1, <1>2, LateStep DEF Cancel, worldVars, listVars, taskVars, scanVars, resultVars
<1>3. CASE CheckCombined
  <2>1. /\ step = "check-combined" /\ step' = "ranking.json"
        /\ UNCHANGED <<newer, cancelled, unlisted, outcome, locks, scanned, outran, vector, open,
                       best, warned>>
        /\ "candidates.json" \in files' <=> "candidates.json" \in files
    BY <1>3, GoFact DEF CheckCombined, At, worldVars, listVars, taskVars, scanVars, resultVars
  <2> QED
    BY <1>1, <2>1, LateStep DEF Late
<1>4. CASE WriteRanking
  <2>1. /\ step = "ranking.json" /\ step' = "over"
        /\ UNCHANGED <<newer, cancelled, unlisted, outcome, locks, scanned, outran, vector, open,
                       best, warned>>
        /\ "candidates.json" \in files' <=> "candidates.json" \in files
    BY <1>4 DEF WriteRanking, At, Stop, worldVars, listVars, taskVars, scanVars, resultVars
  <2> QED
    BY <1>1, <2>1, LateStep DEF Late
<1>5. CASE UNCHANGED vars
  BY <1>1, <1>5, LateStep DEF vars, worldVars, listVars, taskVars, scanVars, resultVars
<1> QED
  BY <1>2, <1>3, <1>4, <1>5, PlainStep, AskStep, LockfileStep, ScanStep, MergeStep, RankStep
     DEF AnalysisNext, Own, Calls

LEMMA Invariance == AnalysisSpec => []IInv
BY IInvInit, IInvStep, PTL DEF AnalysisSpec

-----------------------------------------------------------------------------
(* Theorems                                                                 *)

\* For any number of dependencies, versions and tasks at a time: a cancel that
\* was taken for a version that does not resolve, or a dependency that cannot be
\* listed, reaches the ranking past both scans of step 7 and no other way
\* (analysis_candidates.go, runner/process.go).
THEOREM ScansBarCancels == AnalysisSpec => []CancelMeetsBothScans
<1>1. IInv => CancelMeetsBothScans
  BY DEF IInv, CancelInv, Mistaken, CancelMeetsBothScans
<1> QED
  BY <1>1, Invariance, PTL

\* A proposal was resolved, has its lockfile and was measured against a pinned
\* version that was too, and no other open version is better; a dependency
\* whose pinned version was not measured has a warning (rankDependency, Best).
THEOREM Measured == AnalysisSpec => []ProposalsAreMeasured
<1>1. IInv => ProposalsAreMeasured
  BY DEF IInv
<1> QED
  BY <1>1, Invariance, PTL
=============================================================================
