----------------------------- MODULE ImportProofs -----------------------------
(***************************************************************************)
(* Proofs about ImportQueue and about ImportRun, which refines it, for any *)
(* set of imports, any number of packages and attempts, failing operations *)
(* and stops.                                                              *)
(*                                                                         *)
(* ImportQueue: an attempt that ended keeps its report, and none that has  *)
(* not ended is forgotten.  The second rests on where the worker, the      *)
(* queue and the handler are when something fails, which IInv says.        *)
(*                                                                         *)
(* ImportRun: every step of an attempt is a step of ImportQueue, what an   *)
(* attempt says of MinIO and Nexus is true, and objects are deleted only   *)
(* after records that allow it.  RunInv relates the step the worker is at  *)
(* to its report, the report to the records, and those to the two stores.  *)
(***************************************************************************)
EXTENDS ImportRun, FiniteSetTheorems, WellFoundedInduction, TLAPS

Attempts ==
  [status : {"queued", "running", "ended"}, outcome : Outcomes \cup {"none"},
   packages : [Packages -> PackageStates], checked : BOOLEAN, removal : Removals]
Reports ==
  [outcome : Outcomes \cup {"none"}, packages : [Packages -> PackageStates], checked : BOOLEAN]
Free == {"checking", "waiting", "stopped"}
Active == {"began", "running", "returned", "finishing"}
After == {"cleaning", "removing", "removed"}

TypeInv ==
  /\ record \in [Imports -> Seq(Attempts)]
  /\ items \in Seq(Imports)
  /\ it \in Imports \cup {NoImport} /\ rep \in Reports /\ removal \in Removals
  /\ worker \in Free \cup Active \cup After \cup {"took", "abandoning"}
  /\ handler \in [at : {"idle", "submit", "abandon"}, about : Imports \cup {NoImport}]
  /\ boot \in {"up", "down", "swept"} /\ faults \in Nat
  /\ unswept \subseteq Imports

\* What the worker, the queue and a handler hold exists, and a service that is
\* not up holds nothing.
HeldInv ==
  /\ worker \in Free => it = NoImport
  /\ worker \notin Free => it \in Imports /\ record[it] # <<>>
  /\ worker \notin Free \cup {"took"} => n \in DOMAIN record[it]
  /\ \A a \in DOMAIN items : record[items[a]] # <<>>
  /\ handler.at # "idle" => handler.about \in Imports /\ record[handler.about] # <<>>
  /\ handler.at = "abandon" => ctxDone
  /\ boot # "up" => /\ worker = "checking" /\ it = NoImport /\ items = <<>>
                    /\ handler.at = "idle" /\ ~ctxDone
  /\ unswept # {} => faults > 0

\* No report of an attempt that is over has a pending package.
Quiet(pkgs) == \A p \in Packages : pkgs[p] # "pending"
ReportInv == worker \in {"returned", "finishing"} => Quiet(rep.packages)
EndedInv ==
  \A i \in Imports : \A m \in DOMAIN record[i] :
    record[i][m].status = "ended" => Quiet(record[i][m].packages)

Base == TypeInv /\ HeldInv /\ ReportInv /\ EndedInv

\* Where the latest attempt of an import is.
Status(i) == IF record[i] = <<>> THEN "none" ELSE Latest(i).status
Open == {"queued", "running"}

\* Until the end is stored, the worker's attempt is the latest and runs.
ActiveInv ==
  ~ctxDone /\ worker \in Active => n = Len(record[it]) /\ Status(it) = "running"

\* Nothing else runs, as long as nothing has failed.
RunningInv ==
  boot # "down" /\ ~ctxDone /\ faults = 0 =>
    \A i \in Imports : Status(i) = "running" => i = it /\ worker \in Active

SweptInv == boot = "swept" => \A i \in Imports \ unswept : Status(i) \notin Open

\* When the worker lets go of an import, a later attempt of it waits elsewhere.
Waits(i) == (\E a \in DOMAIN items : items[a] = i) \/ (handler.at = "submit" /\ handler.about = i)
LeftInv ==
  ~ctxDone /\ ((worker = "abandoning" /\ faults = 0) \/ (worker \in After /\ faults <= 1)) =>
    (Status(it) \in Open => Waits(it))

\* NothingForgotten in these terms.
HeldSomewhere ==
  boot = "up" /\ ~ctxDone /\ faults <= 1 =>
    \A i \in Imports \ unswept : Status(i) \in Open => Waits(i) \/ i = it

IInv == Base /\ ActiveInv /\ RunningInv /\ SweptInv /\ LeftInv /\ HeldSomewhere

-----------------------------------------------------------------------------
(* What the changes of the records come to                                  *)

LEMMA SeqFact ==
  ASSUME NEW S, NEW s \in Seq(S), s # <<>>
  PROVE  /\ Len(s) \in Nat /\ Len(s) > 0 /\ DOMAIN s = 1..Len(s) /\ Len(s) \in DOMAIN s
         /\ Last(s) = s[Len(s)] /\ Last(s) \in S
BY DEF Last

LEMMA ExceptFact ==
  ASSUME NEW S, NEW s \in Seq(S), NEW m \in DOMAIN s, NEW a \in S, NEW t, t = [s EXCEPT ![m] = a]
  PROVE  /\ t \in Seq(S) /\ Len(t) = Len(s) /\ DOMAIN t = DOMAIN s /\ t # <<>>
         /\ t[m] = a /\ \A k \in DOMAIN s : k # m => t[k] = s[k]
<1>1. Len(s) \in Nat /\ DOMAIN s = 1..Len(s)
  OBVIOUS
<1>2. t \in [1..Len(s) -> S]
  BY <1>1
<1>3. t \in Seq(S) /\ Len(t) = Len(s)
  BY <1>1, <1>2
<1> QED
  BY <1>1, <1>3

\* The latest attempt becomes a.
LEMMA RewriteFact ==
  ASSUME TypeInv, NEW i \in Imports, NEW a \in Attempts, record[i] # <<>>,
         record' = [record EXCEPT ![i][Len(record[i])] = a]
  PROVE  /\ record' \in [Imports -> Seq(Attempts)]
         /\ \A k \in Imports : /\ Len(record'[k]) = Len(record[k])
                               /\ DOMAIN record'[k] = DOMAIN record[k]
                               /\ record[k] # <<>> => record'[k] # <<>>
                               /\ record[k] = <<>> => record'[k] = <<>>
         /\ record'[i] # <<>> /\ Latest(i)' = a /\ record'[i][Len(record[i])] = a
         /\ \A k \in Imports : k # i => record'[k] = record[k]
         /\ \A m \in DOMAIN record[i] : m # Len(record[i]) => record'[i][m] = record[i][m]
<1> DEFINE s == record[i]
           t == [s EXCEPT ![Len(s)] = a]
<1>1. s \in Seq(Attempts) /\ s # <<>>
  BY DEF TypeInv
<1>2. record' = [record EXCEPT ![i] = t]
  OBVIOUS
<1> HIDE DEF s
<1>3. Len(s) \in DOMAIN s
  BY <1>1, SeqFact
<1>4. /\ t \in Seq(Attempts) /\ Len(t) = Len(s) /\ DOMAIN t = DOMAIN s /\ t # <<>>
      /\ t[Len(s)] = a /\ \A k \in DOMAIN s : k # Len(s) => t[k] = s[k]
  BY <1>1, <1>3, ExceptFact
<1>5. Last(t) = a
  BY <1>4, SeqFact
<1> HIDE DEF t
<1>6. /\ record' \in [Imports -> Seq(Attempts)] /\ record'[i] = t
      /\ \A k \in Imports : k # i => record'[k] = record[k]
  BY <1>2, <1>4 DEF TypeInv
<1> QED
  BY <1>1, <1>4, <1>5, <1>6 DEF s, Latest

LEMMA FailingFact ==
  ASSUME NEW pkgs \in [Packages -> PackageStates]
  PROVE  /\ Failing(pkgs) \in [Packages -> PackageStates] /\ Quiet(Failing(pkgs))
         /\ Quiet(pkgs) => Failing(pkgs) = pkgs
BY DEF Failing, Quiet, PackageStates

LEMMA CutShortFact ==
  ASSUME NEW a \in Attempts, NEW o \in Outcomes
  PROVE  /\ CutShort(a, o) \in Attempts /\ CutShort(a, o).status = "ended"
         /\ Quiet(CutShort(a, o).packages)
<1>1. a.packages \in [Packages -> PackageStates]
  BY DEF Attempts
<1>2. PICK q : q = Failing(a.packages)
  OBVIOUS
<1>3. q \in [Packages -> PackageStates] /\ Quiet(q)
  BY <1>1, <1>2, FailingFact
<1>4. CutShort(a, o) = [a EXCEPT !.status = "ended", !.outcome = o, !.removal = "none", !.packages = q]
  BY <1>2 DEF CutShort
<1> QED
  BY <1>3, <1>4 DEF Attempts, Removals

\* What a step does to the records, in one of five ways.
Keeps == record' = record
Rewrites(i, a) ==
  /\ i \in Imports /\ a \in Attempts
  /\ record[i] # <<>> /\ Latest(i).status # "ended" /\ a.status # "queued"
  /\ a.status = "ended" => Quiet(a.packages)
  /\ record' = [record EXCEPT ![i][Len(record[i])] = a]
Noted(r) ==
  /\ it \in Imports /\ n \in DOMAIN record[it] /\ r \in Removals
  /\ record[it][n].status = "ended" /\ record[it][n].outcome = "complete"
  /\ record[it][n].removal = "none"
  /\ record' = [record EXCEPT ![it][n] = [record[it][n] EXCEPT !.removal = r]]
Adds(i) ==
  /\ i \in Imports /\ ~Unended(i)
  /\ record' = [record EXCEPT ![i] = Append(@, NewAttempt)]
Sweeps ==
  /\ record' = [i \in Imports |-> record'[i]]
  /\ \A i \in Imports :
       /\ record'[i] = [m \in DOMAIN record[i] |-> record'[i][m]]
       /\ i \in unswept' => record'[i] = record[i]
       /\ i \notin unswept' => \A m \in DOMAIN record[i] :
            IF record[i][m].status = "ended" THEN record'[i][m] = record[i][m]
            ELSE record'[i][m] = CutShort(record[i][m], "interrupted")

WorkEffect ==
  \/ Keeps \/ (\E i \in Imports, a \in Attempts : Rewrites(i, a)) \/ (\E r \in Removals : Noted(r))
  \/ Sweeps
Effect == WorkEffect \/ \E i \in Imports : Adds(i)

EndedKept ==
  \A i \in Imports : \A m \in DOMAIN record[i] :
    record[i][m].status = "ended" =>
      /\ m \in DOMAIN record'[i]
      /\ record'[i][m] # record[i][m] =>
           /\ record[i][m].outcome = "complete" /\ record[i][m].removal = "none"
           /\ record'[i][m] = [record[i][m] EXCEPT !.removal = record'[i][m].removal]

LEMMA EffectFact ==
  ASSUME TypeInv, EndedInv, Effect
  PROVE  /\ record' \in [Imports -> Seq(Attempts)] /\ EndedInv' /\ EndedKept
         /\ \A i \in Imports : /\ DOMAIN record[i] \subseteq DOMAIN record'[i]
                               /\ record[i] # <<>> => record'[i] # <<>>
<1>0. record \in [Imports -> Seq(Attempts)]
  BY DEF TypeInv
<1>1. CASE Keeps
  BY <1>0, <1>1 DEF Keeps, EndedInv, EndedKept
<1>2. ASSUME NEW i \in Imports, NEW a \in Attempts, Rewrites(i, a)
      PROVE  /\ record' \in [Imports -> Seq(Attempts)] /\ EndedInv' /\ EndedKept
             /\ \A k \in Imports : /\ DOMAIN record[k] \subseteq DOMAIN record'[k]
                                   /\ record[k] # <<>> => record'[k] # <<>>
  <2>1. record[i] # <<>> /\ record' = [record EXCEPT ![i][Len(record[i])] = a]
    BY <1>2 DEF Rewrites
  <2>2. /\ record' \in [Imports -> Seq(Attempts)]
        /\ \A k \in Imports : /\ DOMAIN record'[k] = DOMAIN record[k]
                              /\ record[k] # <<>> => record'[k] # <<>>
        /\ record'[i][Len(record[i])] = a
        /\ \A k \in Imports : k # i => record'[k] = record[k]
        /\ \A m \in DOMAIN record[i] : m # Len(record[i]) => record'[i][m] = record[i][m]
    BY <2>1, RewriteFact
  <2>3. record[i][Len(record[i])].status # "ended" /\ (a.status = "ended" => Quiet(a.packages))
    BY <1>0, <1>2, SeqFact DEF Rewrites, Latest
  <2>4. \A k \in Imports : \A m \in DOMAIN record[k] :
          record'[k][m] = record[k][m] \/ (k = i /\ m = Len(record[i]))
    BY <2>2
  <2>5. EndedInv'
    BY <2>2, <2>3, <2>4 DEF EndedInv
  <2>6. EndedKept
    BY <2>2, <2>3, <2>4 DEF EndedKept
  <2> QED
    BY <2>2, <2>5, <2>6
<1>3. ASSUME NEW r \in Removals, Noted(r)
      PROVE  /\ record' \in [Imports -> Seq(Attempts)] /\ EndedInv' /\ EndedKept
             /\ \A k \in Imports : /\ DOMAIN record[k] \subseteq DOMAIN record'[k]
                                   /\ record[k] # <<>> => record'[k] # <<>>
  <2> DEFINE a == [record[it][n] EXCEPT !.removal = r]
             t == [record[it] EXCEPT ![n] = a]
  <2>1. /\ it \in Imports /\ n \in DOMAIN record[it] /\ record[it][n].status = "ended"
        /\ record[it][n].outcome = "complete" /\ record[it][n].removal = "none"
        /\ record' = [record EXCEPT ![it] = t]
    BY <1>3 DEF Noted
  <2>2. record[it] \in Seq(Attempts) /\ record[it][n] \in Attempts
    BY <1>0, <2>1
  <2>3. /\ a \in Attempts /\ a.packages = record[it][n].packages /\ a.removal = r
        /\ a = [record[it][n] EXCEPT !.removal = a.removal]
    BY <2>2 DEF Attempts
  <2> HIDE DEF a
  <2>4. /\ t \in Seq(Attempts) /\ DOMAIN t = DOMAIN record[it] /\ t # <<>> /\ t[n] = a
        /\ \A k \in DOMAIN record[it] : k # n => t[k] = record[it][k]
    BY <2>1, <2>2, <2>3, ExceptFact
  <2> HIDE DEF t
  <2>5. /\ record' \in [Imports -> Seq(Attempts)] /\ record'[it] = t
        /\ \A k \in Imports : k # it => record'[k] = record[k]
    BY <1>0, <2>1, <2>4
  <2>6. \A k \in Imports : /\ DOMAIN record'[k] = DOMAIN record[k]
                           /\ record[k] # <<>> => record'[k] # <<>>
                           /\ \A m \in DOMAIN record[k] :
                                record'[k][m] = record[k][m] \/ (k = it /\ m = n)
    BY <2>4, <2>5
  <2>7. record'[it][n] = a
    BY <2>4, <2>5
  <2>8. EndedInv'
    BY <2>1, <2>3, <2>6, <2>7 DEF EndedInv
  <2>9. EndedKept
    BY <2>1, <2>3, <2>6, <2>7 DEF EndedKept
  <2> QED
    BY <2>5, <2>6, <2>8, <2>9
<1>4. ASSUME NEW i \in Imports, Adds(i)
      PROVE  /\ record' \in [Imports -> Seq(Attempts)] /\ EndedInv' /\ EndedKept
             /\ \A k \in Imports : /\ DOMAIN record[k] \subseteq DOMAIN record'[k]
                                   /\ record[k] # <<>> => record'[k] # <<>>
  <2> DEFINE t == Append(record[i], NewAttempt)
  <2>1. NewAttempt \in Attempts /\ NewAttempt.status = "queued"
    BY DEF NewAttempt, Attempts, Every, PackageStates, Removals
  <2>2. /\ t \in Seq(Attempts) /\ DOMAIN t = DOMAIN record[i] \cup {Len(record[i]) + 1} /\ t # <<>>
        /\ t[Len(record[i]) + 1] = NewAttempt
        /\ \A m \in DOMAIN record[i] : t[m] = record[i][m]
    <3>1. record[i] \in Seq(Attempts)
      BY <1>0
    <3> HIDE DEF NewAttempt
    <3> QED
      BY <2>1, <3>1
  <2>3. /\ record' \in [Imports -> Seq(Attempts)] /\ record'[i] = t
        /\ \A k \in Imports : k # i => record'[k] = record[k]
    <3>1. record' = [record EXCEPT ![i] = t]
      BY <1>4 DEF Adds
    <3> HIDE DEF t
    <3> QED
      BY <1>0, <2>2, <3>1
  <2> HIDE DEF t
  <2>4. \A k \in Imports : \A m \in DOMAIN record'[k] :
          \/ m \in DOMAIN record[k] /\ record'[k][m] = record[k][m]
          \/ record'[k][m].status = "queued"
    BY <2>1, <2>2, <2>3
  <2>5. EndedInv'
    BY <2>3, <2>4 DEF EndedInv
  <2>6. EndedKept
    BY <2>2, <2>3 DEF EndedKept
  <2> QED
    BY <2>2, <2>3, <2>5, <2>6
<1>5. CASE Sweeps
  <2>1. \A i \in Imports : \A m \in DOMAIN record[i] :
          /\ record'[i][m] \in Attempts
          /\ record[i][m].status = "ended" => record'[i][m] = record[i][m]
          /\ record[i][m].status # "ended" =>
               record'[i][m] = record[i][m] \/ Quiet(record'[i][m].packages)
    <3> SUFFICES ASSUME NEW i \in Imports, NEW m \in DOMAIN record[i]
                 PROVE  /\ record'[i][m] \in Attempts
                        /\ record[i][m].status = "ended" => record'[i][m] = record[i][m]
                        /\ record[i][m].status # "ended" =>
                             record'[i][m] = record[i][m] \/ Quiet(record'[i][m].packages)
      OBVIOUS
    <3>1. record[i][m] \in Attempts
      BY <1>0
    <3>2. "interrupted" \in Outcomes
      BY DEF Outcomes
    <3>3. \/ record'[i][m] = record[i][m]
          \/ record[i][m].status # "ended" /\ record'[i][m] = CutShort(record[i][m], "interrupted")
      BY <1>5 DEF Sweeps
    <3> QED
      BY <3>1, <3>2, <3>3, CutShortFact
  <2>2. \A i \in Imports : record'[i] \in Seq(Attempts) /\ DOMAIN record'[i] = DOMAIN record[i]
    <3> SUFFICES ASSUME NEW i \in Imports
                 PROVE  record'[i] \in Seq(Attempts) /\ DOMAIN record'[i] = DOMAIN record[i]
      OBVIOUS
    <3>1. Len(record[i]) \in Nat /\ DOMAIN record[i] = 1..Len(record[i])
      BY <1>0
    <3>2. record'[i] = [m \in DOMAIN record[i] |-> record'[i][m]]
      BY <1>5 DEF Sweeps
    <3>3. record'[i] \in [1..Len(record[i]) -> Attempts]
      BY <2>1, <3>1, <3>2
    <3> QED
      BY <3>1, <3>3
  <2>3. record' \in [Imports -> Seq(Attempts)]
    BY <1>5, <2>2 DEF Sweeps
  <2>4. EndedInv'
    BY <2>1, <2>2 DEF EndedInv
  <2>5. EndedKept
    BY <2>1, <2>2 DEF EndedKept
  <2>6. \A i \in Imports : record[i] # <<>> => record'[i] # <<>>
    BY <1>0, <2>2
  <2> QED
    BY <2>2, <2>3, <2>4, <2>5, <2>6
<1> QED
  BY <1>1, <1>2, <1>3, <1>4, <1>5 DEF Effect, WorkEffect

-----------------------------------------------------------------------------
(* Each step is one of the five                                             *)

LEMMA LatestFact ==
  ASSUME TypeInv, NEW i \in Imports, record[i] # <<>>
  PROVE  /\ Latest(i) \in Attempts /\ Latest(i) = record[i][Len(record[i])]
         /\ Len(record[i]) \in DOMAIN record[i] /\ Len(record[i]) \in Nat
<1>1. record[i] \in Seq(Attempts)
  BY DEF TypeInv
<1> QED
  BY <1>1, SeqFact DEF Latest

\* Abandon, Break and stopping end the latest attempt, or leave it alone.
EndsLatest(i, o) ==
  \/ Keeps
  \/ /\ record[i] # <<>> /\ Latest(i).status # "ended"
     /\ record' = [record EXCEPT ![i][Len(record[i])] = CutShort(Latest(i), o)]

LEMMA EndUnfinishedFact ==
  ASSUME TypeInv, NEW i \in Imports, NEW o \in Outcomes, EndUnfinished(i, o) \/ EndUnfinishedFails(i, o)
  PROVE  EndsLatest(i, o)
<1>1. CASE EndUnfinished(i, o)
  BY <1>1 DEF EndUnfinished, Update, Refused, Unended, Keeps, EndsLatest
<1>2. CASE EndUnfinishedFails(i, o)
  <2>1. CASE Fault
    BY <2>1 DEF Fault, Keeps, EndsLatest
  <2>2. CASE Unended(i) /\ record' = [record EXCEPT ![i][Len(record[i])] = CutShort(@, o)]
    <3>1. record[i] # <<>> /\ Latest(i).status # "ended" /\ Latest(i) = record[i][Len(record[i])]
      BY <2>2, LatestFact DEF Unended
    <3> QED
      BY <2>2, <3>1 DEF EndsLatest
  <2> QED
    BY <1>2, <2>1, <2>2 DEF EndUnfinishedFails
<1> QED
  BY <1>1, <1>2

LEMMA EndsLatestFact ==
  ASSUME TypeInv, NEW i \in Imports, NEW o \in Outcomes, EndsLatest(i, o)
  PROVE  WorkEffect
<1>1. CASE Keeps
  BY <1>1 DEF WorkEffect
<1>2. CASE ~Keeps
  <2>1. /\ record[i] # <<>> /\ Latest(i).status # "ended"
        /\ record' = [record EXCEPT ![i][Len(record[i])] = CutShort(Latest(i), o)]
    BY <1>2 DEF EndsLatest
  <2>2. /\ CutShort(Latest(i), o) \in Attempts /\ CutShort(Latest(i), o).status = "ended"
        /\ Quiet(CutShort(Latest(i), o).packages)
    BY <2>1, LatestFact, CutShortFact
  <2>3. Rewrites(i, CutShort(Latest(i), o))
    BY <2>1, <2>2 DEF Rewrites
  <2> QED
    BY <2>2, <2>3 DEF WorkEffect
<1> QED
  BY <1>1, <1>2

\* What the run tells the store changes the latest attempt while it runs.
LEMMA TellFact ==
  ASSUME TypeInv, it \in Imports, record[it] # <<>>, NEW a,
         Latest(it).status = "running" => a \in Attempts /\ a.status = "running", Tell(a)
  PROVE  \/ Keeps
         \/ /\ a.status = "running" /\ Latest(it).status = "running"
            /\ Len(record[it]) = n /\ Rewrites(it, a)
<1>1. CASE Len(record[it]) = n /\ Latest(it).status = "running" /\ Update(it, n, a)
  BY <1>1 DEF Update, Rewrites
<1>2. CASE record' = record
  BY <1>2 DEF Keeps
<1> QED
  BY <1>1, <1>2 DEF Tell, Refused, Fault

Still ==
  \/ Submit \/ NextStops \/ NextTakes \/ NextWaits \/ NextWakes \/ Get \/ Judge \/ Clean
  \/ Close \/ Stop \/ SweepWork
  \/ (\E o \in Outcomes, rm \in BOOLEAN : RunReturns(o, rm)) \/ (\E rm \in Removals : RemoverReturns(rm))

LEMMA StillKeeps == Still => Keeps
BY DEF Still, Keeps, Submit, NextStops, NextTakes, NextWaits, NextWakes, Get, Judge, Clean, Close, Stop,
       SweepWork, RunReturns, RemoverReturns, GoTo, storeVars, worldVars, Refused, Fault

LEMMA BeginFact ==
  ASSUME TypeInv, HeldInv, Begin
  PROVE  /\ it \in Imports /\ record[it] # <<>> /\ n' = Len(record[it])
         /\ \/ /\ worker' = "began" /\ faults' = faults /\ Latest(it).status = "queued"
               /\ LET a == [Latest(it) EXCEPT !.status = "running"]
                  IN a \in Attempts /\ a.status = "running" /\ Rewrites(it, a)
            \/ /\ worker' = "abandoning" /\ Keeps
               /\ (faults' = faults + 1) \/ (faults' = faults /\ Latest(it).status # "queued")
<1> DEFINE a == [Latest(it) EXCEPT !.status = "running"]
<1>1. it \in Imports /\ record[it] # <<>> /\ n' = Len(record[it])
  BY DEF Begin, HeldInv, Free
<1>2. Latest(it) \in Attempts
  BY <1>1, LatestFact
<1>3. a \in Attempts /\ a.status = "running"
  BY <1>2 DEF Attempts
<1>4. CASE Latest(it).status = "queued" /\ Update(it, n', a) /\ worker' = "began"
  BY <1>1, <1>3, <1>4 DEF Update, Rewrites
<1>5. CASE (Fault \/ (Latest(it).status # "queued" /\ Refused)) /\ worker' = "abandoning"
  BY <1>1, <1>5 DEF Fault, Refused, Keeps
<1> QED
  BY <1>4, <1>5, <1>1, <1>3 DEF Begin

LEMMA FinishFact ==
  ASSUME TypeInv, HeldInv, ReportInv, Finish
  PROVE  /\ it \in Imports /\ record[it] # <<>>
         /\ \/ /\ worker' = "cleaning" /\ faults' = faults /\ Len(record[it]) = n
               /\ \E a \in Attempts :
                    /\ a.status = "ended" /\ a.outcome = rep.outcome /\ a.packages = rep.packages
                    /\ a.checked = rep.checked /\ a.removal = "none" /\ Rewrites(it, a)
            \/ /\ worker' = "abandoning" /\ Keeps
               /\ \/ faults' = faults + 1
                  \/ faults' = faults /\ ~(Len(record[it]) = n /\ Unended(it))
<1> DEFINE a == [Latest(it) EXCEPT !.status = "ended", !.outcome = rep.outcome,
                   !.packages = rep.packages, !.checked = rep.checked, !.removal = "none"]
<1>1. it \in Imports /\ record[it] # <<>> /\ Quiet(rep.packages)
  BY DEF Finish, HeldInv, ReportInv, Free
<1>2. Latest(it) \in Attempts
  BY <1>1, LatestFact
<1>3. rep.packages \in [Packages -> PackageStates] /\ rep.outcome \in Outcomes \cup {"none"}
      /\ rep.checked \in BOOLEAN
  BY DEF TypeInv, Reports
<1>4. /\ a \in Attempts /\ a.status = "ended" /\ a.packages = rep.packages
      /\ a.outcome = rep.outcome /\ a.checked = rep.checked /\ a.removal = "none"
  BY <1>2, <1>3 DEF Attempts, Removals
<1>5. CASE Len(record[it]) = n /\ Unended(it) /\ Update(it, n, a) /\ GoTo("cleaning")
  <2>1. Rewrites(it, a)
    BY <1>1, <1>4, <1>5 DEF Update, Rewrites, Unended
  <2> QED
    BY <1>1, <1>4, <1>5, <2>1 DEF Update, GoTo
<1>6. CASE (Fault \/ (~(Len(record[it]) = n /\ Unended(it)) /\ Refused)) /\ GoTo("abandoning")
  BY <1>1, <1>6 DEF Fault, Refused, Keeps, GoTo
<1> QED
  BY <1>5, <1>6 DEF Finish

\* No package is claimed but those the record or the report claimed.
Claims == {"published", "present"}
TellsMore(a) ==
  /\ a.status = "running" /\ Latest(it).status = "running" /\ a.removal = Latest(it).removal
  /\ Len(record[it]) = n /\ Rewrites(it, a)
  /\ \A p \in Packages :
       a.packages[p] \in Claims => Latest(it).packages[p] \in Claims \/ rep'.packages[p] \in Claims

LEMMA RunTells ==
  ASSUME TypeInv, HeldInv, Listed \/ Checked \/ (\E p \in Packages, s \in {"published", "present", "failed"} : Ended(p, s))
  PROVE  /\ it \in Imports /\ record[it] # <<>> /\ rep' \in Reports
         /\ \/ Keeps
            \/ \E a \in Attempts : TellsMore(a)
<1>1. it \in Imports /\ record[it] # <<>>
  BY DEF Listed, Checked, Ended, HeldInv, Free
<1>2. Latest(it) \in Attempts
  BY <1>1, LatestFact
<1>3. rep \in Reports
  BY DEF TypeInv
<1>4. Every("pending") \in [Packages -> PackageStates]
  BY DEF Every, PackageStates
<1>5. CASE Listed
  <2> DEFINE a == [Latest(it) EXCEPT !.packages = Every("pending")]
  <2>1. /\ a \in Attempts /\ a.status = Latest(it).status /\ a.removal = Latest(it).removal
        /\ \A p \in Packages : a.packages[p] \notin Claims
    BY <1>2, <1>4 DEF Attempts, Every, Claims
  <2>2. Tell(a) /\ rep' = [rep EXCEPT !.packages = Every("pending")]
    BY <1>5 DEF Listed
  <2>3. rep' \in Reports
    BY <1>3, <1>4, <2>2 DEF Reports
  <2> HIDE DEF a
  <2> QED
    BY <1>1, <2>1, <2>2, <2>3, TellFact DEF TellsMore
<1>6. CASE Checked
  <2> DEFINE a == [Latest(it) EXCEPT !.checked = TRUE]
  <2>1. /\ a \in Attempts /\ a.status = Latest(it).status /\ a.removal = Latest(it).removal
        /\ a.packages = Latest(it).packages
    BY <1>2 DEF Attempts
  <2>2. Tell(a) /\ rep' = [rep EXCEPT !.checked = TRUE]
    BY <1>6 DEF Checked
  <2>3. rep' \in Reports
    BY <1>3, <2>2 DEF Reports
  <2> HIDE DEF a
  <2> QED
    BY <1>1, <2>1, <2>2, <2>3, TellFact DEF TellsMore
<1>7. ASSUME NEW p \in Packages, NEW s \in {"published", "present", "failed"}, Ended(p, s)
      PROVE  /\ rep' \in Reports
             /\ \/ Keeps
                \/ \E a \in Attempts : TellsMore(a)
  <2> DEFINE q == [Latest(it).packages EXCEPT ![p] = IF @ = "unlisted" THEN @ ELSE s]
             a == [Latest(it) EXCEPT !.packages = q]
             u == [rep.packages EXCEPT ![p] = s]
  <2>1. q \in [Packages -> PackageStates] /\ u \in [Packages -> PackageStates]
    BY <1>2, <1>3 DEF Attempts, Reports, PackageStates
  <2>2. Tell(a) /\ rep' = [rep EXCEPT !.packages = u]
    BY <1>7 DEF Ended
  <2>5. \A o \in Packages : q[o] \in Claims => Latest(it).packages[o] \in Claims \/ u[o] \in Claims
    BY <1>2, <1>3 DEF Attempts, Reports, PackageStates, Claims
  <2> HIDE DEF q, u
  <2>3. /\ a \in Attempts /\ a.status = Latest(it).status /\ a.removal = Latest(it).removal
        /\ a.packages = q
    BY <1>2, <2>1 DEF Attempts
  <2>4. rep' \in Reports /\ rep'.packages = u
    BY <1>3, <2>1, <2>2 DEF Reports
  <2> HIDE DEF a
  <2> QED
    BY <1>1, <2>2, <2>3, <2>4, <2>5, TellFact DEF TellsMore
<1> QED
  BY <1>1, <1>5, <1>6, <1>7

LEMMA RemovedFact ==
  ASSUME TypeInv, HeldInv, Removed
  PROVE  Keeps \/ (removal \in Removals /\ Noted(removal))
<1> DEFINE a == record[it][n]
<1>1. it \in Imports /\ n \in DOMAIN record[it]
  BY DEF Removed, HeldInv, Free
<1>2. CASE /\ a.status = "ended" /\ a.outcome = "complete" /\ a.removal = "none"
           /\ Update(it, n, [a EXCEPT !.removal = removal])
  <2>1. removal \in Removals
    BY DEF TypeInv
  <2> QED
    BY <1>1, <1>2, <2>1 DEF Update, Noted
<1>3. CASE Fault \/ Refused
  BY <1>3 DEF Fault, Refused, Keeps
<1> QED
  BY <1>2, <1>3 DEF Removed

LEMMA AddsFact ==
  ASSUME TypeInv, NEW i \in Imports, Create(i) \/ Retry(i)
  PROVE  Adds(i)
<1>1. CASE Create(i)
  <2>1. record[i] = <<>> /\ record' = [record EXCEPT ![i] = <<NewAttempt>>]
    BY <1>1 DEF Create
  <2>2. <<NewAttempt>> = Append(record[i], NewAttempt)
    BY <2>1
  <2> QED
    BY <2>1, <2>2 DEF Adds, Unended
<1>2. CASE Retry(i)
  BY <1>2 DEF Retry, Adds
<1> QED
  BY <1>1, <1>2

LEMMA SweepFact ==
  ASSUME TypeInv, EndedInv, Sweep
  PROVE  Sweeps
<1> DEFINE after(i, m) ==
      IF i \in unswept' THEN record[i][m]
      ELSE IF record[i][m].status # "ended" THEN CutShort(record[i][m], "interrupted")
      ELSE [record[i][m] EXCEPT !.packages = Failing(@)]
<1>1. record' = [i \in Imports |-> [m \in DOMAIN record[i] |-> after(i, m)]]
  BY DEF Sweep
<1>2. \A i \in Imports : /\ record'[i] = [m \in DOMAIN record[i] |-> record'[i][m]]
                         /\ \A m \in DOMAIN record[i] : record'[i][m] = after(i, m)
  <2> HIDE DEF after
  <2> QED
    BY <1>1
<1>3. \A i \in Imports : record[i] \in Seq(Attempts)
  BY DEF TypeInv
<1>4. ASSUME NEW i \in Imports, NEW m \in DOMAIN record[i], record[i][m].status = "ended"
      PROVE  after(i, m) = record[i][m]
  <2>1. record[i][m] \in Attempts /\ Quiet(record[i][m].packages)
    BY <1>3, <1>4 DEF EndedInv
  <2>2. record[i][m].packages \in [Packages -> PackageStates]
    BY <2>1 DEF Attempts
  <2>3. Failing(record[i][m].packages) = record[i][m].packages
    BY <2>1, <2>2, FailingFact
  <2> QED
    BY <1>4, <2>1, <2>3 DEF Attempts
<1>5. \A i \in Imports : i \in unswept' => record'[i] = record[i]
  <2> SUFFICES ASSUME NEW i \in Imports, i \in unswept' PROVE record'[i] = record[i]
    OBVIOUS
  <2>1. record'[i] = [m \in DOMAIN record[i] |-> record[i][m]]
    BY <1>2
  <2>2. record[i] = [m \in DOMAIN record[i] |-> record[i][m]]
    BY <1>3
  <2> QED
    BY <2>1, <2>2
<1>6. \A i \in Imports : i \notin unswept' => \A m \in DOMAIN record[i] :
        IF record[i][m].status = "ended" THEN record'[i][m] = record[i][m]
        ELSE record'[i][m] = CutShort(record[i][m], "interrupted")
  BY <1>2, <1>4
<1>7. record' = [i \in Imports |-> record'[i]]
  <2> HIDE DEF after
  <2> QED
    BY <1>1
<1> QED
  BY <1>2, <1>5, <1>6, <1>7 DEF Sweeps

LEMMA WorkEffectHolds ==
  ASSUME TypeInv, HeldInv, ReportInv, EndedInv, QueueStep \/ RunStep \/ UNCHANGED importVars
  PROVE  WorkEffect
<1> USE DEF WorkEffect
<1>1. CASE UNCHANGED importVars
  BY <1>1 DEF importVars, storeVars, Keeps
<1>2. CASE Still
  BY <1>2, StillKeeps
<1>3. CASE Stopping
  <2>1. handler.about \in Imports /\ "interrupted" \in Outcomes
    BY <1>3 DEF Stopping, HeldInv, Outcomes
  <2> QED
    BY <1>3, <2>1, EndUnfinishedFact, EndsLatestFact DEF Stopping
<1>4. CASE Abandon \/ RunPanics
  <2>1. it \in Imports /\ "interrupted" \in Outcomes /\ "incomplete" \in Outcomes
    BY <1>4 DEF Abandon, RunPanics, HeldInv, Outcomes, Free
  <2> QED
    BY <1>4, <2>1, EndUnfinishedFact, EndsLatestFact DEF Abandon, RunPanics
<1>5. CASE Begin
  BY <1>5, BeginFact
<1>6. CASE Finish
  BY <1>6, FinishFact
<1>7. CASE Removed
  BY <1>7, RemovedFact
<1>8. CASE Sweep
  BY <1>8, SweepFact
<1>9. CASE Listed \/ Checked \/ (\E p \in Packages, s \in {"published", "present", "failed"} : Ended(p, s))
  BY <1>9, RunTells DEF TellsMore
<1>11. RunStep => Still \/ RunPanics \/ Listed \/ Checked
                  \/ (\E p \in Packages, s \in {"published", "present", "failed"} : Ended(p, s))
  BY DEF RunStep, Still, Outcomes, Removals
<1>12. QueueStep => Still \/ Stopping \/ Begin \/ Abandon \/ Finish \/ Removed \/ Sweep
  BY DEF QueueStep, Still
<1> HIDE DEF WorkEffect
<1> QED
  BY <1>1, <1>2, <1>3, <1>4, <1>5, <1>6, <1>7, <1>8, <1>9, <1>11, <1>12

LEMMA EffectHolds ==
  ASSUME TypeInv, HeldInv, ReportInv, EndedInv, [ImportNext]_importVars
  PROVE  Effect
BY WorkEffectHolds, AddsFact DEF ImportNext, Effect

-----------------------------------------------------------------------------
(* What has ended stays                                                     *)

LEMMA BaseStep ==
  ASSUME Base, [ImportNext]_importVars
  PROVE  Base' /\ EndedKept
<1> USE DEF Base, storeVars, queueVars, localVars, processVars, worldVars
<1>0. /\ record' \in [Imports -> Seq(Attempts)] /\ EndedInv' /\ EndedKept
      /\ \A i \in Imports : /\ DOMAIN record[i] \subseteq DOMAIN record'[i]
                            /\ record[i] # <<>> => record'[i] # <<>>
  BY EffectHolds, EffectFact
<1> SUFFICES Base'
  BY <1>0
<1>1. items \in Seq(Imports) /\ \A a \in DOMAIN items : items[a] \in Imports
  BY DEF TypeInv
<1>2. /\ {"none"} \cup Outcomes = Outcomes \cup {"none"}
      /\ Every("unlisted") \in [Packages -> PackageStates] /\ Quiet(Every("unlisted"))
      /\ NoReport \in Reports /\ "none" \in Removals
  BY DEF NoReport, Reports, Every, PackageStates, Removals, Quiet
<1>3. ASSUME ProcessReturns
      PROVE  /\ worker' = "checking" /\ it' = NoImport /\ rep' \in Reports /\ removal' \in Removals
  BY <1>2, <1>3 DEF ProcessReturns
<1>4. CASE UNCHANGED importVars
  BY <1>0, <1>4 DEF importVars, TypeInv, HeldInv, ReportInv
<1>5. ASSUME NEW i \in Imports, Create(i) \/ Retry(i) PROVE Base'
  <2>1. /\ UNCHANGED <<items, ctxDone, worker, it, n, rep, removal, boot, faults, unswept>>
        /\ handler' = [at |-> "submit", about |-> i] /\ boot = "up"
    BY <1>5 DEF Create, Retry
  <2>2. record'[i] # <<>>
    BY <1>5, AddsFact, <1>0 DEF Adds, TypeInv
  <2>3. TypeInv' /\ ReportInv'
    BY <1>0, <2>1 DEF TypeInv, ReportInv
  <2>4. HeldInv'
    BY <1>0, <1>1, <2>1, <2>2 DEF TypeInv, HeldInv
  <2> QED
    BY <1>0, <2>3, <2>4
<1>6. CASE Submit
  <2>1. /\ handler' \in [at : {"idle", "submit", "abandon"}, about : Imports \cup {NoImport}]
        /\ handler'.at # "idle" => handler'.about = handler.about /\ ctxDone /\ handler'.at = "abandon"
        /\ handler.about \in Imports /\ record[handler.about] # <<>>
    BY <1>6 DEF Submit, NoHandler, TypeInv, HeldInv
  <2>2. /\ items' \in Seq(Imports)
        /\ \A a \in DOMAIN items' : (a \in DOMAIN items /\ items'[a] = items[a]) \/ items'[a] = handler.about
    BY <1>1, <1>6, <2>1 DEF Submit
  <2>3. UNCHANGED <<ctxDone, worker, it, n, rep, removal, boot, faults, unswept>> /\ boot = "up"
    BY <1>6 DEF Submit
  <2>4. TypeInv' /\ ReportInv'
    BY <1>0, <2>1, <2>2, <2>3 DEF TypeInv, ReportInv
  <2>5. HeldInv'
    BY <1>0, <1>1, <2>1, <2>2, <2>3 DEF TypeInv, HeldInv
  <2> QED
    BY <1>0, <2>4, <2>5
<1>7. CASE Stopping
  <2>1. /\ UNCHANGED <<items, ctxDone, worker, it, n, rep, removal, boot, unswept>> /\ boot = "up"
        /\ handler' = NoHandler /\ faults' \in {faults, faults + 1}
    BY <1>7 DEF Stopping, EndUnfinished, EndUnfinishedFails, Update, Refused, Fault
  <2>2. handler' \in [at : {"idle", "submit", "abandon"}, about : Imports \cup {NoImport}]
    BY <2>1 DEF NoHandler
  <2>3. TypeInv' /\ ReportInv'
    BY <1>0, <2>1, <2>2 DEF TypeInv, ReportInv
  <2>4. HeldInv'
    BY <1>0, <1>1, <2>1 DEF TypeInv, HeldInv, NoHandler
  <2> QED
    BY <1>0, <2>3, <2>4
<1>8. CASE NextTakes
  <2>1. /\ Head(items) \in Imports /\ items' \in Seq(Imports) /\ record[Head(items)] # <<>>
        /\ \A a \in DOMAIN items' : a + 1 \in DOMAIN items /\ items'[a] = items[a + 1]
    <3>1. items # <<>> /\ items' = Tail(items)
      BY <1>8 DEF NextTakes
    <3>2. Head(items) = items[1] /\ 1 \in DOMAIN items
      BY <1>1, <3>1
    <3> QED
      BY <1>1, <3>1, <3>2 DEF HeldInv
  <2>2. /\ UNCHANGED <<record, ctxDone, rep, removal, handler, boot, faults, unswept>>
        /\ boot = "up" /\ it' = Head(items) /\ worker' = "took"
    BY <1>8 DEF NextTakes
  <2>3. TypeInv' /\ ReportInv'
    BY <1>0, <2>1, <2>2 DEF TypeInv, ReportInv
  <2>4. HeldInv'
    BY <1>0, <1>1, <2>1, <2>2 DEF TypeInv, HeldInv, Free
  <2> QED
    BY <1>0, <2>3, <2>4
<1>9. CASE NextStops \/ NextWaits \/ NextWakes
  <2>1. /\ UNCHANGED <<record, items, ctxDone, it, n, rep, removal, handler, boot, faults, unswept>>
        /\ boot = "up" /\ worker \in Free /\ worker' \in Free
    BY <1>9 DEF NextStops, NextWaits, NextWakes, GoTo, Free
  <2>2. TypeInv' /\ ReportInv'
    BY <2>1 DEF TypeInv, ReportInv, Free
  <2>3. HeldInv'
    BY <2>1 DEF HeldInv
  <2> QED
    BY <1>0, <2>2, <2>3
<1>10. CASE Begin
  <2>1. /\ it \in Imports /\ record[it] # <<>> /\ n' = Len(record[it])
        /\ worker' \in {"began", "abandoning"} /\ faults' \in {faults, faults + 1}
    BY <1>10, BeginFact
  <2>2. UNCHANGED <<items, ctxDone, it, rep, removal, handler, boot, unswept>> /\ boot = "up"
    BY <1>10 DEF Begin
  <2>3. n' \in DOMAIN record[it]
    BY <2>1, LatestFact
  <2>4. TypeInv' /\ ReportInv'
    BY <1>0, <2>1, <2>2 DEF TypeInv, ReportInv, Active
  <2>5. HeldInv'
    BY <1>0, <1>1, <2>1, <2>2, <2>3 DEF TypeInv, HeldInv, Free
  <2> QED
    BY <1>0, <2>4, <2>5
\* The worker goes on with what it holds.
<1>11. ASSUME it' = it, n' = n, worker \notin Free \cup {"took"}, boot = "up",
              UNCHANGED <<items, ctxDone, handler, boot, unswept>>, faults' \in {faults, faults + 1},
              rep' \in Reports, removal' \in Removals,
              worker' \in Active \cup After \cup {"abandoning"},
              worker' \in {"returned", "finishing"} => Quiet(rep'.packages)
       PROVE  Base'
  <2>1. TypeInv' /\ ReportInv'
    BY <1>0, <1>11 DEF TypeInv, ReportInv
  <2>2. HeldInv'
    BY <1>0, <1>1, <1>11 DEF TypeInv, HeldInv, Free, Active, After
  <2> QED
    BY <1>0, <2>1, <2>2
\* It comes to the end of process.
<1>12. ASSUME ProcessReturns, boot = "up", UNCHANGED <<items, ctxDone, handler, boot, unswept>>,
              faults' \in {faults, faults + 1}
       PROVE  Base'
  <2>1. TypeInv' /\ ReportInv'
    BY <1>0, <1>3, <1>12 DEF TypeInv, ReportInv, Free
  <2>2. HeldInv'
    BY <1>0, <1>1, <1>3, <1>12 DEF TypeInv, HeldInv, Free
  <2> QED
    BY <1>0, <2>1, <2>2
<1>13. rep \in Reports /\ removal \in Removals /\ faults \in Nat
  BY DEF TypeInv
<1>14. CASE Get
  <2>1. /\ it' = it /\ n' = n /\ worker = "began" /\ boot = "up" /\ rep' = rep /\ removal' = removal
        /\ UNCHANGED <<items, ctxDone, handler, boot, unswept>>
        /\ faults' \in {faults, faults + 1} /\ worker' \in {"running", "abandoning"}
    BY <1>14 DEF Get, GoTo, Refused, Fault
  <2> QED
    BY <1>11, <1>13, <2>1 DEF Active, Free
<1>15. CASE Listed \/ Checked \/ (\E p \in Packages, s \in {"published", "present", "failed"} : Ended(p, s))
  <2>1. rep' \in Reports
    BY <1>15, RunTells
  <2>2. /\ it' = it /\ n' = n /\ worker = "running" /\ worker' = worker /\ boot = "up"
        /\ removal' = removal /\ UNCHANGED <<items, ctxDone, handler, boot, unswept>>
        /\ faults' \in {faults, faults + 1}
    BY <1>15 DEF Listed, Checked, Ended, Tell, Update, Refused, Fault
  <2> QED
    BY <1>11, <1>13, <2>1, <2>2 DEF Active, Free
<1>16. ASSUME NEW o \in Outcomes, NEW rm \in BOOLEAN, RunReturns(o, rm),
              o = "refused" \/ \A p \in Packages : rep.packages[p] # "pending"
       PROVE  Base'
  <2> DEFINE q == IF o = "refused" THEN Every("unlisted") ELSE rep.packages
  <2>1. q \in [Packages -> PackageStates] /\ Quiet(q)
    BY <1>2, <1>13, <1>16 DEF Reports, Quiet
  <2>2. rep' = [rep EXCEPT !.outcome = o, !.packages = q]
    BY <1>16 DEF RunReturns
  <2> HIDE DEF q
  <2>3. rep' \in Reports /\ Quiet(rep'.packages)
    BY <1>13, <2>1, <2>2 DEF Reports
  <2> QED
    <3>1. /\ it' = it /\ n' = n /\ worker = "running" /\ worker' = "returned" /\ boot = "up"
          /\ removal' = removal /\ UNCHANGED <<items, ctxDone, handler, boot, unswept, faults>>
      BY <1>16 DEF RunReturns
    <3> QED
      BY <1>11, <1>13, <2>3, <3>1 DEF Active, Free
<1>17. CASE Judge
  <2>1. rep' \in Reports /\ rep'.packages = rep.packages
    BY <1>13, <1>17 DEF Judge, Reports, Outcomes
  <2>2. Quiet(rep.packages)
    BY <1>17 DEF Judge, ReportInv
  <2>3. /\ it' = it /\ n' = n /\ worker = "returned" /\ worker' = "finishing" /\ boot = "up"
        /\ removal' = removal /\ UNCHANGED <<items, ctxDone, handler, boot, unswept, faults>>
    BY <1>17 DEF Judge
  <2> QED
    BY <1>11, <1>13, <2>1, <2>2, <2>3 DEF Active, Free
<1>18. CASE Finish
  <2>1. /\ it' = it /\ n' = n /\ worker = "finishing" /\ worker' \in {"cleaning", "abandoning"}
        /\ boot = "up" /\ rep' = rep /\ removal' = removal
        /\ UNCHANGED <<items, ctxDone, handler, boot, unswept>> /\ faults' \in {faults, faults + 1}
    BY <1>18 DEF Finish, Update, Refused, Fault, GoTo
  <2> QED
    BY <1>11, <1>13, <2>1 DEF Active, After, Free
<1>19. CASE Clean
  <2>1. /\ worker = "cleaning" /\ boot = "up" /\ UNCHANGED <<items, ctxDone, handler, boot, unswept>>
        /\ faults' \in {faults, faults + 1}
        /\ \/ ProcessReturns
           \/ /\ worker' \in {"removing", "abandoning"}
              /\ it' = it /\ n' = n /\ rep' = rep /\ removal' = removal
    BY <1>19 DEF Clean, Refused, Fault, GoTo
  <2>2. CASE ProcessReturns
    BY <1>12, <2>1, <2>2
  <2>3. CASE ~ProcessReturns
    BY <1>11, <1>13, <2>1, <2>3 DEF Active, After, Free
  <2> QED
    BY <2>2, <2>3
<1>20. ASSUME NEW rm \in Removals, RemoverReturns(rm) PROVE Base'
  <2>1. /\ it' = it /\ n' = n /\ worker = "removing" /\ worker' = "removed" /\ boot = "up"
        /\ rep' = rep /\ removal' \in Removals
        /\ UNCHANGED <<items, ctxDone, handler, boot, unswept, faults>>
    BY <1>20 DEF RemoverReturns
  <2> QED
    BY <1>11, <1>13, <2>1 DEF Active, After, Free
<1>21. CASE Removed
  <2>1. /\ ProcessReturns /\ boot = "up" /\ UNCHANGED <<items, ctxDone, handler, boot, unswept>>
        /\ faults' \in {faults, faults + 1}
    BY <1>21 DEF Removed, Update, Refused, Fault
  <2> QED
    BY <1>12, <2>1
<1>22. CASE RunPanics
  <2>1. /\ worker = "running" /\ boot = "up" /\ UNCHANGED <<items, ctxDone, handler, boot, unswept>>
        /\ faults' \in {faults, faults + 1}
        /\ \/ ProcessReturns
           \/ worker' = "abandoning" /\ it' = it /\ n' = n /\ rep' = rep /\ removal' = removal
    BY <1>22 DEF RunPanics, EndUnfinished, EndUnfinishedFails, Update, Refused, Fault, GoTo
  <2>2. CASE ProcessReturns
    BY <1>12, <2>1, <2>2
  <2>3. CASE ~ProcessReturns
    BY <1>11, <1>13, <2>1, <2>3 DEF Active, Free
  <2> QED
    BY <2>2, <2>3
<1>23. CASE Abandon
  <2>1. /\ ProcessReturns /\ boot = "up" /\ UNCHANGED <<items, ctxDone, handler, boot, unswept>>
        /\ faults' \in {faults, faults + 1}
    BY <1>23 DEF Abandon, EndUnfinished, EndUnfinishedFails, Update, Refused, Fault
  <2> QED
    BY <1>12, <2>1
<1>24. CASE Close
  <2>1. /\ UNCHANGED <<record, items, worker, it, n, rep, removal, handler, boot, faults, unswept>>
        /\ ctxDone' /\ boot = "up"
    BY <1>24 DEF Close
  <2> QED
    BY <1>0, <2>1 DEF TypeInv, HeldInv, ReportInv
<1>25. CASE Stop
  <2>1. /\ ProcessReturns /\ items' = <<>> /\ ctxDone' = FALSE /\ handler' = NoHandler
        /\ boot' = "down" /\ UNCHANGED <<faults, unswept>>
    BY <1>25 DEF Stop
  <2>2. handler' \in [at : {"idle", "submit", "abandon"}, about : Imports \cup {NoImport}]
    BY <2>1 DEF NoHandler
  <2>3. TypeInv' /\ ReportInv'
    BY <1>0, <1>3, <2>1, <2>2 DEF TypeInv, ReportInv, Free
  <2>4. HeldInv'
    BY <1>3, <2>1 DEF HeldInv, Free, NoHandler
  <2> QED
    BY <1>0, <2>3, <2>4
<1>26. CASE Sweep
  <2>1. /\ UNCHANGED <<items, ctxDone, worker, it, n, rep, removal, handler>>
        /\ boot = "down" /\ boot' = "swept"
    BY <1>26 DEF Sweep
  <2>2. /\ unswept' \subseteq Imports /\ faults' \in Nat
        /\ unswept' # {} => faults' > 0
    <3>1. CASE unswept' = {} /\ UNCHANGED faults
      BY <1>13, <3>1
    <3>2. CASE faults' = faults + 1 /\ unswept' \in SUBSET {i \in Imports : record[i] # <<>>}
      BY <1>13, <3>2
    <3> QED
      BY <1>26, <3>1, <3>2 DEF Sweep
  <2>3. TypeInv' /\ ReportInv'
    BY <1>0, <2>1, <2>2 DEF TypeInv, ReportInv
  <2>4. HeldInv'
    BY <2>1, <2>2 DEF HeldInv, Free
  <2> QED
    BY <1>0, <2>3, <2>4
<1>27. CASE SweepWork
  <2>1. /\ UNCHANGED <<record, items, ctxDone, worker, it, n, rep, removal, handler, faults, unswept>>
        /\ boot' = "up"
    BY <1>27 DEF SweepWork
  <2> QED
    BY <1>0, <2>1 DEF TypeInv, HeldInv, ReportInv
<1>28. CASE RunStep
  <2>1. \/ Listed \/ Checked \/ RunPanics
        \/ \E p \in Packages, s \in {"published", "present", "failed"} : Ended(p, s)
        \/ \E o \in Outcomes, rm \in BOOLEAN :
             RunReturns(o, rm) /\ (o = "refused" \/ \A p \in Packages : rep.packages[p] # "pending")
        \/ \E rm \in Removals : RemoverReturns(rm)
    BY <1>28 DEF RunStep, Outcomes, Removals
  <2> QED
    BY <1>15, <1>16, <1>20, <1>22, <2>1
<1>29. CASE QueueStep
  BY <1>6, <1>7, <1>8, <1>9, <1>10, <1>14, <1>17, <1>18, <1>19, <1>21, <1>23, <1>24, <1>25, <1>26, <1>27,
     <1>29 DEF QueueStep
<1> QED
  BY <1>0, <1>4, <1>5, <1>28, <1>29 DEF ImportNext

LEMMA BaseInit == ImportInit => Base
<1> SUFFICES ASSUME ImportInit PROVE Base
  OBVIOUS
<1>1. NoReport \in Reports /\ "none" \in Removals
  BY DEF NoReport, Reports, Every, PackageStates, Removals
<1>2. TypeInv
  BY <1>1 DEF ImportInit, TypeInv, NoHandler, Free
<1> QED
  BY <1>2 DEF ImportInit, Base, HeldInv, ReportInv, EndedInv, NoHandler, Free

LEMMA BaseInvariance == ImportSpec => []Base
<1> QED
  BY BaseInit, BaseStep, PTL DEF ImportSpec

\* Whatever comes late, an attempt that has ended keeps its report, and a
\* complete one gets its removal once.
THEOREM EndedStay == ImportSpec => EndedStays
<1>1. Base /\ [ImportNext]_importVars => [EndedKept]_importVars
  BY BaseStep
<1>2. ImportSpec => [][EndedKept]_importVars
  BY <1>1, BaseInvariance, PTL DEF ImportSpec
<1> QED
  BY <1>2 DEF EndedStays, EndedKept

-----------------------------------------------------------------------------
(* Nothing is forgotten                                                     *)

LEMMA StatusType ==
  ASSUME TypeInv, NEW i \in Imports
  PROVE  /\ Status(i) \in {"none", "queued", "running", "ended"}
         /\ Unended(i) <=> Status(i) \in Open
         /\ Status(i) = "none" <=> record[i] = <<>>
BY LatestFact DEF Status, Unended, Open, Attempts

LEMMA KeepsStatus ==
  ASSUME Keeps PROVE \A k \in Imports : Status(k)' = Status(k) /\ Len(record'[k]) = Len(record[k])
BY DEF Keeps, Status, Latest

LEMMA RewritesStatus ==
  ASSUME TypeInv, NEW i \in Imports, NEW a \in Attempts, Rewrites(i, a)
  PROVE  /\ Status(i) \in Open /\ Status(i)' = a.status
         /\ \A k \in Imports : k # i => Status(k)' = Status(k)
         /\ \A k \in Imports : Len(record'[k]) = Len(record[k])
<1>1. record[i] # <<>> /\ record' = [record EXCEPT ![i][Len(record[i])] = a]
  BY DEF Rewrites
<1>2. /\ record'[i] # <<>> /\ Latest(i)' = a
      /\ \A k \in Imports : k # i => record'[k] = record[k]
      /\ \A k \in Imports : Len(record'[k]) = Len(record[k])
  BY <1>1, RewriteFact
<1>3. Status(i) \in Open
  BY <1>1, LatestFact DEF Rewrites, Status, Open, Attempts
<1> QED
  BY <1>2, <1>3 DEF Status, Latest

LEMMA NotedStatus ==
  ASSUME TypeInv, NEW r \in Removals, Noted(r)
  PROVE  \A k \in Imports : Status(k)' = Status(k)
<1> DEFINE a == [record[it][n] EXCEPT !.removal = r]
           t == [record[it] EXCEPT ![n] = a]
<1>1. it \in Imports /\ n \in DOMAIN record[it] /\ record' = [record EXCEPT ![it] = t]
  BY DEF Noted
<1>2. record[it] \in Seq(Attempts) /\ record[it][n] \in Attempts
  BY <1>1 DEF TypeInv
<1>3. a \in Attempts /\ a.status = record[it][n].status
  BY <1>2 DEF Attempts
<1> HIDE DEF a
<1>4. /\ t \in Seq(Attempts) /\ Len(t) = Len(record[it]) /\ t # <<>> /\ t[n] = a
      /\ \A k \in DOMAIN record[it] : k # n => t[k] = record[it][k]
  BY <1>1, <1>2, <1>3, ExceptFact
<1> HIDE DEF t
<1>5. record'[it] = t /\ \A k \in Imports : k # it => record'[k] = record[k]
  BY <1>1 DEF TypeInv
<1>6. record[it] # <<>>
  BY <1>1
<1>7. Len(record[it]) \in DOMAIN record[it] /\ Last(record[it]) = record[it][Len(record[it])]
      /\ Last(t) = t[Len(record[it])]
  BY <1>2, <1>4, <1>6, SeqFact
<1>8. Last(t).status = Last(record[it]).status
  BY <1>3, <1>4, <1>7
<1> QED
  BY <1>4, <1>5, <1>6, <1>8 DEF Status, Latest

LEMMA AddsStatus ==
  ASSUME TypeInv, NEW i \in Imports, Adds(i)
  PROVE  /\ Status(i) \notin Open /\ Status(i)' = "queued"
         /\ \A k \in Imports : k # i => Status(k)' = Status(k) /\ Len(record'[k]) = Len(record[k])
<1> DEFINE t == Append(record[i], NewAttempt)
<1>1. ~Unended(i) /\ record' = [record EXCEPT ![i] = t]
  BY DEF Adds
<1>2. record[i] \in Seq(Attempts)
  BY DEF TypeInv
<1>3. t # <<>> /\ t[Len(t)] = NewAttempt
  <2> HIDE DEF NewAttempt
  <2> QED
    BY <1>2
<1> HIDE DEF t
<1>4. record'[i] = t /\ \A k \in Imports : k # i => record'[k] = record[k]
  BY <1>1 DEF TypeInv
<1>5. Last(t).status = "queued"
  BY <1>3 DEF Last, NewAttempt
<1> QED
  BY <1>1, <1>3, <1>4, <1>5, StatusType DEF Status, Latest

LEMMA SweepsStatus ==
  ASSUME TypeInv, EndedInv, Sweeps
  PROVE  \A i \in Imports : IF i \in unswept' THEN Status(i)' = Status(i) ELSE Status(i)' \notin Open
<1>1. ASSUME NEW i \in Imports, i \in unswept' PROVE Status(i)' = Status(i)
  BY <1>1 DEF Sweeps, Status, Latest
<1>2. ASSUME NEW i \in Imports, i \notin unswept' PROVE Status(i)' \notin Open
  <2>1. CASE record'[i] = <<>>
    BY <2>1 DEF Status, Open
  <2>2. CASE record'[i] # <<>>
    <3>1. record' \in [Imports -> Seq(Attempts)]
      BY EffectFact DEF Effect, WorkEffect
    <3>2. /\ Len(record'[i]) \in DOMAIN record'[i] /\ Last(record'[i]) = record'[i][Len(record'[i])]
          /\ record'[i] \in Seq(Attempts)
      BY <2>2, <3>1, SeqFact
    <3>3. DOMAIN record'[i] = DOMAIN record[i]
      BY DEF Sweeps
    <3> DEFINE m == Len(record'[i])
    <3>4. record'[i][m].status = "ended"
      <4>1. m \in DOMAIN record[i] /\ record[i][m] \in Attempts
        BY <3>2, <3>3 DEF TypeInv
      <4>2. \/ record[i][m].status = "ended" /\ record'[i][m] = record[i][m]
            \/ record'[i][m] = CutShort(record[i][m], "interrupted")
        BY <1>2, <4>1 DEF Sweeps
      <4> HIDE DEF m
      <4> QED
        BY <4>1, <4>2, CutShortFact DEF Outcomes
    <3> QED
      BY <2>2, <3>2, <3>4 DEF Status, Latest, Open
  <2> QED
    BY <2>1, <2>2
<1> QED
  BY <1>1, <1>2

LEMMA EndUnfinishedStatus ==
  ASSUME TypeInv, NEW i \in Imports, NEW o \in Outcomes
  PROVE  /\ EndUnfinished(i, o) \/ EndUnfinishedFails(i, o) =>
              /\ \A k \in Imports : k # i => Status(k)' = Status(k)
              /\ Status(i)' \in {Status(i), "ended"}
         /\ EndUnfinished(i, o) => Status(i)' \notin Open /\ faults' = faults
         /\ EndUnfinishedFails(i, o) => faults' = faults + 1
<1>1. ASSUME EndsLatest(i, o), ~Keeps
      PROVE  (\A k \in Imports : k # i => Status(k)' = Status(k)) /\ Status(i)' = "ended"
  <2>1. /\ record[i] # <<>> /\ Latest(i).status # "ended"
        /\ record' = [record EXCEPT ![i][Len(record[i])] = CutShort(Latest(i), o)]
    BY <1>1 DEF EndsLatest
  <2>2. /\ CutShort(Latest(i), o) \in Attempts /\ CutShort(Latest(i), o).status = "ended"
        /\ Quiet(CutShort(Latest(i), o).packages)
    BY <2>1, LatestFact, CutShortFact
  <2>3. Rewrites(i, CutShort(Latest(i), o))
    BY <2>1, <2>2 DEF Rewrites
  <2> QED
    BY <2>2, <2>3, RewritesStatus
<1>2. EndUnfinished(i, o) \/ EndUnfinishedFails(i, o) =>
        /\ \A k \in Imports : k # i => Status(k)' = Status(k)
        /\ Status(i)' \in {Status(i), "ended"}
  BY <1>1, EndUnfinishedFact, KeepsStatus
<1>3. ASSUME EndUnfinished(i, o) PROVE Status(i)' \notin Open /\ faults' = faults
  <2>1. faults' = faults
    BY <1>3 DEF EndUnfinished, Update, Refused
  <2>2. CASE Keeps
    <3>1. ~Unended(i)
      <4> SUFFICES ASSUME Unended(i) PROVE FALSE
        OBVIOUS
      <4>1. record[i] # <<>> /\ Latest(i).status # "ended"
            /\ record' = [record EXCEPT ![i][Len(record[i])] = CutShort(Latest(i), o)]
        BY <1>3 DEF EndUnfinished, Update, Unended
      <4>2. CutShort(Latest(i), o) \in Attempts /\ CutShort(Latest(i), o).status = "ended"
        BY <4>1, LatestFact, CutShortFact
      <4>3. Latest(i)' = CutShort(Latest(i), o)
        BY <4>1, <4>2, RewriteFact
      <4> QED
        BY <2>2, <4>1, <4>2, <4>3 DEF Keeps, Latest
    <3> QED
      BY <2>1, <2>2, <3>1, KeepsStatus, StatusType
  <2>3. CASE ~Keeps
    BY <1>1, <1>3, <2>1, <2>3, EndUnfinishedFact DEF Open
  <2> QED
    BY <2>2, <2>3
<1>4. EndUnfinishedFails(i, o) => faults' = faults + 1
  BY DEF EndUnfinishedFails, Fault
<1> QED
  BY <1>2, <1>3, <1>4

\* IInv while the service is up and nobody has closed the queue.
UpInv ==
  /\ worker \in Active => n = Len(record[it]) /\ Status(it) = "running"
  /\ faults = 0 => \A i \in Imports : Status(i) = "running" => i = it /\ worker \in Active
  /\ (worker = "abandoning" /\ faults = 0) \/ (worker \in After /\ faults <= 1) =>
       (Status(it) \in Open => Waits(it))
  /\ faults <= 1 => \A i \in Imports \ unswept : Status(i) \in Open => Waits(i) \/ i = it

LEMMA UpFact ==
  ASSUME TypeInv, boot = "up", ~ctxDone
  PROVE  UpInv <=> ActiveInv /\ RunningInv /\ SweptInv /\ LeftInv /\ HeldSomewhere
BY DEF UpInv, ActiveInv, RunningInv, SweptInv, LeftInv, HeldSomewhere

LEMMA UpStep ==
  ASSUME Base, Base', UpInv, ImportNext, boot = "up", boot' = "up", ~ctxDone, ~ctxDone'
  PROVE  UpInv'
<1> USE DEF storeVars, queueVars, localVars, processVars, worldVars
<1>1. PICK S : S = [i \in Imports |-> Status(i)]
  OBVIOUS
<1>2. PICK T : T = [i \in Imports |-> Status(i)']
  OBVIOUS
<1>3. PICK W : W = {i \in Imports : Waits(i)}
  OBVIOUS
<1>4. PICK V : V = {i \in Imports : Waits(i)'}
  OBVIOUS
<1>5. /\ TypeInv /\ HeldInv /\ ReportInv /\ EndedInv
      /\ NoImport \notin Imports /\ faults \in Nat /\ faults' \in Nat
      /\ worker \in Free => it = NoImport
      /\ worker \notin Free => it \in Imports
      /\ worker' \in Free => it' = NoImport
      /\ worker' \notin Free => it' \in Imports
  BY ImportAssumption DEF Base, TypeInv, HeldInv
<1>6. /\ worker \in Active => n = Len(record[it]) /\ S[it] = "running"
      /\ faults = 0 => \A i \in Imports : S[i] = "running" => i = it /\ worker \in Active
      /\ (worker = "abandoning" /\ faults = 0) \/ (worker \in After /\ faults <= 1) =>
           (S[it] \in Open => it \in W)
      /\ faults <= 1 => \A i \in Imports \ unswept : S[i] \in Open => i \in W \/ i = it
  BY <1>1, <1>3, <1>5 DEF UpInv, Active, After, Free
<1> DEFINE Goal ==
      /\ worker' \in Active => n' = Len(record'[it']) /\ T[it'] = "running"
      /\ faults' = 0 => \A i \in Imports : T[i] = "running" => i = it' /\ worker' \in Active
      /\ (worker' = "abandoning" /\ faults' = 0) \/ (worker' \in After /\ faults' <= 1) =>
           (T[it'] \in Open => it' \in V)
      /\ faults' <= 1 => \A i \in Imports \ unswept' : T[i] \in Open => i \in V \/ i = it'
<1>7. ASSUME Goal PROVE UpInv'
  BY <1>2, <1>4, <1>5, <1>7 DEF UpInv, Active, After, Free
<1> SUFFICES Goal
  BY <1>7
<1> HIDE DEF Goal
<1>8. ASSUME Keeps PROVE T = S /\ \A k \in Imports : Len(record'[k]) = Len(record[k])
  BY <1>1, <1>2, <1>8, KeepsStatus
<1>9. ASSUME NEW a \in Attempts, Rewrites(it, a)
      PROVE  /\ it \in Imports /\ T[it] = a.status /\ \A k \in Imports : k # it => T[k] = S[k]
             /\ S[it] \in Open /\ Len(record'[it]) = Len(record[it])
  <2>1. it \in Imports
    BY <1>9 DEF Rewrites
  <2> QED
    BY <1>1, <1>2, <1>5, <1>9, <2>1, RewritesStatus
<1>10. ASSUME UNCHANGED <<items, handler>> PROVE V = W
  BY <1>3, <1>4, <1>10 DEF Waits
<1>11. ASSUME it \in Imports
       PROVE  S[it] \in {"none", "queued", "running", "ended"} /\ (Unended(it) <=> S[it] \in Open)
  BY <1>1, <1>5, <1>11, StatusType
<1>12. ASSUME ProcessReturns PROVE worker' = "checking" /\ it' = NoImport
  BY <1>12 DEF ProcessReturns
<1>13. ASSUME NEW i \in Imports, Create(i) \/ Retry(i) PROVE Goal
  <2>1. /\ UNCHANGED <<items, worker, it, n, faults, unswept>>
        /\ handler.at = "idle" /\ handler' = [at |-> "submit", about |-> i]
    BY <1>13 DEF Create, Retry
  <2>2. Adds(i)
    BY <1>5, <1>13, AddsFact
  <2>3. /\ S[i] \notin Open /\ T[i] = "queued"
        /\ \A k \in Imports : k # i => T[k] = S[k] /\ Len(record'[k]) = Len(record[k])
    BY <1>1, <1>2, <1>5, <2>2, AddsStatus
  <2>4. i \in V /\ W \subseteq V
    BY <1>3, <1>4, <2>1 DEF Waits
  <2> QED
    BY <1>5, <1>6, <2>1, <2>3, <2>4 DEF Goal, Open, Active, After, Free
<1>14. CASE Submit
  <2>1. /\ UNCHANGED <<record, worker, it, n, faults, unswept>>
        /\ handler.at = "submit" /\ items' = Append(items, handler.about) /\ handler' = NoHandler
    BY <1>14 DEF Submit
  <2>2. W \subseteq V
    <3>1. items \in Seq(Imports) /\ handler.about \in Imports
      BY <1>5, <2>1 DEF TypeInv, HeldInv
    <3>2. /\ \A a \in DOMAIN items : a \in DOMAIN items' /\ items'[a] = items[a]
          /\ \E a \in DOMAIN items' : items'[a] = handler.about
      <4>1. Len(items) + 1 \in DOMAIN items' /\ items'[Len(items) + 1] = handler.about
        BY <2>1, <3>1
      <4> QED
        BY <2>1, <3>1, <4>1
    <3> QED
      BY <1>3, <1>4, <3>2 DEF Waits
  <2>3. T = S
    BY <1>8, <2>1 DEF Keeps
  <2> QED
    BY <1>5, <1>6, <2>1, <2>2, <2>3 DEF Goal
<1>15. CASE NextTakes
  <2>1. /\ UNCHANGED <<record, n, faults, unswept, handler>> /\ worker = "checking" /\ worker' = "took"
        /\ items # <<>> /\ it' = Head(items) /\ items' = Tail(items)
    BY <1>15 DEF NextTakes
  <2>2. \A k \in W : k \in V \/ k = it'
    <3>1. items \in Seq(Imports)
      BY <1>5 DEF TypeInv
    <3>2. \A a \in DOMAIN items : a = 1 \/ (a - 1 \in DOMAIN items' /\ items'[a - 1] = items[a])
      BY <2>1, <3>1
    <3>3. it' = items[1]
      BY <2>1, <3>1
    <3> QED
      BY <1>3, <1>4, <2>1, <3>2, <3>3 DEF Waits
  <2>3. T = S
    BY <1>8, <2>1 DEF Keeps
  <2> QED
    BY <1>5, <1>6, <2>1, <2>2, <2>3 DEF Goal, Free, Active, After
<1>16. CASE NextStops \/ NextWaits \/ NextWakes
  <2>1. UNCHANGED <<record, items, it, n, handler, faults, unswept>> /\ worker \in Free /\ worker' \in Free
    BY <1>16 DEF NextStops, NextWaits, NextWakes, GoTo, Free
  <2>2. T = S
    BY <1>8, <2>1 DEF Keeps
  <2>3. V = W
    BY <1>10, <2>1
  <2> QED
    BY <1>5, <1>6, <2>1, <2>2, <2>3 DEF Goal, Free, Active, After
<1>17. CASE Begin
  <2>1. /\ UNCHANGED <<items, it, handler, unswept>> /\ worker = "took"
    BY <1>17 DEF Begin
  <2>2. V = W
    BY <1>10, <2>1
  <2>3. /\ it \in Imports /\ record[it] # <<>> /\ n' = Len(record[it])
        /\ \/ /\ worker' = "began" /\ faults' = faults
              /\ \E a \in Attempts : a.status = "running" /\ Rewrites(it, a)
           \/ /\ worker' = "abandoning" /\ Keeps
              /\ (faults' = faults + 1) \/ (faults' = faults /\ Latest(it).status # "queued")
    BY <1>5, <1>17, BeginFact
  <2>4. S[it] = Latest(it).status
    BY <1>1, <2>3 DEF Status
  <2>5. CASE worker' = "began"
    <3>1. /\ faults' = faults /\ T[it] = "running" /\ Len(record'[it]) = Len(record[it])
          /\ S[it] \in Open /\ \A k \in Imports : k # it => T[k] = S[k]
      BY <1>9, <2>3, <2>5
    <3> QED
      BY <1>5, <1>6, <2>1, <2>2, <2>3, <2>5, <3>1 DEF Goal, Open, Active, After, Free
  <2>6. CASE worker' = "abandoning"
    <3>1. T = S /\ (faults' = faults + 1 \/ (faults' = faults /\ S[it] # "queued"))
      BY <1>8, <2>3, <2>4, <2>6
    <3> QED
      BY <1>5, <1>6, <2>1, <2>2, <2>3, <2>6, <3>1 DEF Goal, Open, Active, After, Free
  <2> QED
    BY <2>3, <2>5, <2>6
\* The records keep what they have, and so does the worker.
<1>18. ASSUME Keeps, UNCHANGED <<items, handler, unswept, it, n>>, worker \in Active \cup After,
              \/ worker' \in Active /\ worker \in Active /\ faults' = faults
              \/ worker' \in After /\ worker \in After /\ faults' = faults
              \/ worker' = "abandoning" /\ faults' = faults + 1
       PROVE  Goal
  <2>1. T = S /\ V = W /\ \A k \in Imports : Len(record'[k]) = Len(record[k])
    BY <1>8, <1>10, <1>18
  <2> QED
    BY <1>5, <1>6, <1>18, <2>1 DEF Goal, Active, After, Free
<1>19. CASE Get
  <2>1. /\ Keeps /\ UNCHANGED <<items, handler, unswept, it, n>> /\ worker = "began"
        /\ (worker' = "running" /\ faults' = faults) \/ (worker' = "abandoning" /\ faults' = faults + 1)
    BY <1>19 DEF Get, GoTo, Refused, Fault, Keeps
  <2> QED
    BY <1>18, <2>1 DEF Active
<1>20. CASE Listed \/ Checked \/ (\E p \in Packages, s \in {"published", "present", "failed"} : Ended(p, s))
  <2>1. /\ UNCHANGED <<items, handler, unswept, it, n, worker>> /\ worker = "running"
        /\ faults' \in {faults, faults + 1}
    BY <1>20 DEF Listed, Checked, Ended, Tell, Update, Refused, Fault
  <2>2. V = W
    BY <1>10, <2>1
  <2>3. it \in Imports /\ S[it] = "running"
    BY <1>5, <1>6, <2>1 DEF Active, Free
  <2>4. Keeps \/ \E a \in Attempts : a.status = "running" /\ Rewrites(it, a)
    BY <1>5, <1>20, RunTells DEF TellsMore
  <2>5. (\A k \in Imports : T[k] = S[k]) /\ Len(record'[it]) = Len(record[it])
    BY <1>8, <1>9, <2>3, <2>4
  <2> QED
    BY <1>5, <1>6, <2>1, <2>2, <2>3, <2>5 DEF Goal, Active, After, Free
<1>21. ASSUME NEW o \in Outcomes, NEW rm \in BOOLEAN, RunReturns(o, rm) PROVE Goal
  <2>1. /\ Keeps /\ UNCHANGED <<items, handler, unswept, it, n, faults>> /\ worker = "running"
        /\ worker' = "returned"
    BY <1>21 DEF RunReturns, Keeps
  <2> QED
    BY <1>18, <2>1 DEF Active
<1>22. CASE Judge
  <2>1. /\ Keeps /\ UNCHANGED <<items, handler, unswept, it, n, faults>> /\ worker = "returned"
        /\ worker' = "finishing"
    BY <1>22 DEF Judge, Keeps
  <2> QED
    BY <1>18, <2>1 DEF Active
<1>23. CASE Finish
  <2>1. /\ UNCHANGED <<items, handler, unswept, it, n>> /\ worker = "finishing"
    BY <1>23 DEF Finish, GoTo
  <2>2. V = W
    BY <1>10, <2>1
  <2>3. /\ it \in Imports
        /\ \/ /\ worker' = "cleaning" /\ faults' = faults
              /\ \E a \in Attempts : a.status = "ended" /\ Rewrites(it, a)
           \/ /\ worker' = "abandoning" /\ Keeps
              /\ \/ faults' = faults + 1
                 \/ faults' = faults /\ ~(Len(record[it]) = n /\ Unended(it))
    BY <1>5, <1>23, FinishFact
  <2>4. S[it] = "running" /\ Len(record[it]) = n /\ Unended(it)
    BY <1>6, <1>11, <2>1, <2>3 DEF Active, Open
  <2>5. CASE worker' = "cleaning"
    <3>1. faults' = faults /\ T[it] = "ended" /\ \A k \in Imports : k # it => T[k] = S[k]
      BY <1>9, <2>3, <2>5
    <3> QED
      BY <1>5, <1>6, <2>1, <2>2, <2>3, <2>5, <3>1 DEF Goal, Open, Active, After, Free
  <2>6. CASE worker' = "abandoning"
    BY <1>18, <2>1, <2>3, <2>4, <2>6 DEF Active
  <2> QED
    BY <2>3, <2>5, <2>6
\* process comes to its end, and the attempt is over or waits.
<1>24. ASSUME ProcessReturns, UNCHANGED <<items, handler, unswept>>, it \in Imports,
              faults' \in {faults, faults + 1}, \A k \in Imports : k # it => T[k] = S[k],
              faults' = 0 => T[it] # "running", faults' <= 1 => (T[it] \in Open => it \in W)
       PROVE  Goal
  <2>1. V = W
    BY <1>10, <1>24
  <2> QED
    BY <1>5, <1>6, <1>12, <1>24, <2>1 DEF Goal, Active, After, Free
<1>25. CASE Clean
  <2>1. /\ Keeps /\ worker = "cleaning" /\ UNCHANGED <<items, handler, unswept>>
        /\ \/ ProcessReturns /\ faults' = faults
           \/ worker' = "removing" /\ UNCHANGED <<it, n, faults>>
           \/ worker' = "abandoning" /\ UNCHANGED <<it, n>> /\ faults' = faults + 1
    BY <1>25 DEF Clean, Refused, Fault, GoTo, Keeps
  <2>2. CASE ProcessReturns /\ faults' = faults
    BY <1>5, <1>6, <1>8, <1>24, <2>1, <2>2 DEF Active, After, Free
  <2>3. CASE ~(ProcessReturns /\ faults' = faults)
    BY <1>18, <2>1, <2>3 DEF After
  <2> QED
    BY <2>2, <2>3
<1>26. ASSUME NEW rm \in Removals, RemoverReturns(rm) PROVE Goal
  <2>1. /\ Keeps /\ UNCHANGED <<items, handler, unswept, it, n, faults>> /\ worker = "removing"
        /\ worker' = "removed"
    BY <1>26 DEF RemoverReturns, Keeps
  <2> QED
    BY <1>18, <2>1 DEF After
<1>27. CASE Removed
  <2>1. /\ ProcessReturns /\ worker = "removed" /\ UNCHANGED <<items, handler, unswept>>
        /\ faults' \in {faults, faults + 1}
    BY <1>27 DEF Removed, Update, Refused, Fault
  <2>2. \A k \in Imports : T[k] = S[k]
    <3>1. Keeps \/ \E r \in Removals : Noted(r)
      BY <1>5, <1>27, RemovedFact
    <3> QED
      BY <1>1, <1>2, <1>5, <1>8, <3>1, NotedStatus
  <2> QED
    BY <1>5, <1>6, <1>24, <2>1, <2>2 DEF Active, After, Free
<1>28. ASSUME it \in Imports, NEW o \in Outcomes
       PROVE  /\ EndUnfinished(it, o) \/ EndUnfinishedFails(it, o) =>
                   (\A k \in Imports : k # it => T[k] = S[k]) /\ T[it] \in {S[it], "ended"}
              /\ EndUnfinished(it, o) => T[it] \notin Open /\ faults' = faults
              /\ EndUnfinishedFails(it, o) => faults' = faults + 1
  BY <1>1, <1>2, <1>5, <1>28, EndUnfinishedStatus
<1>29. CASE RunPanics
  <2>1. /\ worker = "running" /\ UNCHANGED <<items, handler, unswept>>
        /\ \/ EndUnfinished(it, "incomplete") /\ ProcessReturns
           \/ EndUnfinishedFails(it, "incomplete") /\ worker' = "abandoning" /\ UNCHANGED <<it, n>>
    BY <1>29 DEF RunPanics, GoTo
  <2>2. it \in Imports /\ "incomplete" \in Outcomes
    BY <1>5, <2>1 DEF Free, Outcomes
  <2>3. CASE EndUnfinished(it, "incomplete") /\ ProcessReturns
    BY <1>5, <1>24, <1>28, <2>1, <2>2, <2>3 DEF Open
  <2>4. CASE EndUnfinishedFails(it, "incomplete") /\ worker' = "abandoning" /\ UNCHANGED <<it, n>>
    <3>1. /\ \A k \in Imports : k # it => T[k] = S[k]
          /\ T[it] \in {S[it], "ended"} /\ faults' = faults + 1 /\ V = W
      BY <1>10, <1>28, <2>1, <2>2, <2>4
    <3> QED
      BY <1>5, <1>6, <2>1, <2>2, <2>4, <3>1 DEF Goal, Open, Active, After, Free
  <2> QED
    BY <2>1, <2>3, <2>4
<1>30. CASE Abandon
  <2>1. /\ worker = "abandoning" /\ UNCHANGED <<items, handler, unswept>> /\ ProcessReturns
        /\ EndUnfinished(it, "interrupted") \/ EndUnfinishedFails(it, "interrupted")
    BY <1>30 DEF Abandon
  <2>2. it \in Imports /\ "interrupted" \in Outcomes
    BY <1>5, <2>1 DEF Free, Outcomes
  <2>3. CASE EndUnfinished(it, "interrupted")
    BY <1>5, <1>24, <1>28, <2>1, <2>2, <2>3 DEF Open
  <2>4. CASE EndUnfinishedFails(it, "interrupted")
    <3>1. /\ \A k \in Imports : k # it => T[k] = S[k]
          /\ T[it] \in {S[it], "ended"} /\ faults' = faults + 1
      BY <1>28, <2>2, <2>4
    <3>2. faults' <= 1 => (T[it] \in Open => it \in W)
      BY <1>5, <1>6, <2>1, <3>1 DEF Open
    <3> QED
      BY <1>5, <1>24, <2>1, <2>2, <3>1, <3>2
  <2> QED
    BY <2>1, <2>3, <2>4
\* A handler abandons only once the queue is closed, and the rest leave boot "up" not.
<1>31. ~Stopping /\ ~Close /\ ~Stop /\ ~Sweep /\ ~SweepWork
  BY <1>5 DEF Stopping, Close, Stop, Sweep, SweepWork, HeldInv
<1>32. CASE RunStep
  <2>1. \/ Listed \/ Checked \/ RunPanics
        \/ \E p \in Packages, s \in {"published", "present", "failed"} : Ended(p, s)
        \/ \E o \in Outcomes, rm \in BOOLEAN : RunReturns(o, rm)
        \/ \E rm \in Removals : RemoverReturns(rm)
    BY <1>32 DEF RunStep, Outcomes, Removals
  <2> QED
    BY <1>20, <1>21, <1>26, <1>29, <2>1
<1>33. CASE QueueStep
  BY <1>14, <1>15, <1>16, <1>17, <1>19, <1>22, <1>23, <1>25, <1>27, <1>30, <1>31, <1>33 DEF QueueStep
<1> QED
  BY <1>13, <1>32, <1>33 DEF ImportNext

LEMMA IInvStep ==
  ASSUME IInv, [ImportNext]_importVars
  PROVE  IInv'
<1> USE DEF storeVars, queueVars, localVars, processVars, worldVars
<1>1. /\ Base /\ Base' /\ TypeInv /\ TypeInv' /\ HeldInv /\ HeldInv' /\ ReportInv /\ EndedInv
      /\ NoImport \notin Imports
  BY BaseStep, ImportAssumption DEF IInv, Base
<1> SUFFICES ActiveInv' /\ RunningInv' /\ SweptInv' /\ LeftInv' /\ HeldSomewhere'
  BY <1>1 DEF IInv
<1>2. CASE ctxDone'
  BY <1>1, <1>2 DEF ActiveInv, RunningInv, SweptInv, LeftInv, HeldSomewhere, HeldInv
<1>3. CASE UNCHANGED importVars
  BY <1>3 DEF IInv, importVars, ActiveInv, RunningInv, SweptInv, LeftInv, HeldSomewhere, Status, Latest,
              Waits
<1>4. CASE Stop
  BY <1>4 DEF Stop, ProcessReturns, ActiveInv, RunningInv, SweptInv, LeftInv, HeldSomewhere, Active, After
<1>5. CASE Sweep
  <2>1. boot' = "swept" /\ worker' = "checking"
    BY <1>1, <1>5 DEF Sweep, HeldInv
  <2>2. \A i \in Imports : IF i \in unswept' THEN TRUE ELSE Status(i)' \notin Open
    BY <1>1, <1>5, SweepFact, SweepsStatus
  <2>3. unswept' # {} => faults' > 0
    BY <1>1 DEF HeldInv
  <2>4. faults' = 0 => unswept' = {}
    BY <1>1, <2>3
  <2>5. RunningInv' /\ SweptInv'
    BY <2>2, <2>4 DEF RunningInv, SweptInv, Open
  <2> QED
    BY <2>1, <2>5 DEF ActiveInv, LeftInv, HeldSomewhere, Active, After
<1>6. CASE SweepWork
  <2>1. /\ boot = "swept" /\ boot' = "up" /\ worker' = worker /\ it' = it /\ faults' = faults
        /\ unswept' = unswept /\ ctxDone' = ctxDone /\ Keeps
    BY <1>6 DEF SweepWork, Keeps
  <2>2. worker = "checking"
    BY <1>1, <2>1 DEF HeldInv
  <2>3. \A i \in Imports : Status(i)' = Status(i)
    BY <2>1, KeepsStatus
  <2>4. RunningInv'
    BY <2>1, <2>3 DEF IInv, RunningInv
  <2>5. HeldSomewhere'
    BY <2>1, <2>3 DEF IInv, SweptInv, HeldSomewhere
  <2> QED
    BY <2>1, <2>2, <2>4, <2>5 DEF ActiveInv, SweptInv, LeftInv, Active, After
<1>7. CASE ImportNext /\ ~Stop /\ ~Sweep /\ ~SweepWork /\ ~ctxDone'
  <2>1. boot = "up" /\ boot' = "up" /\ ~ctxDone
    <3>1. CASE \E i \in Imports : Create(i) \/ Retry(i)
      BY <1>7, <3>1 DEF Create, Retry
    <3>2. CASE Submit \/ Stopping \/ NextStops \/ NextTakes \/ NextWaits \/ NextWakes \/ Close
      BY <1>7, <3>2 DEF Submit, Stopping, NextStops, NextTakes, NextWaits, NextWakes, Close
    <3>3. CASE Begin \/ Get \/ Abandon \/ Judge \/ Finish \/ Clean \/ Removed
      BY <1>7, <3>3 DEF Begin, Get, Abandon, Judge, Finish, Clean, Removed
    <3>4. CASE RunStep
      <4>1. \/ Listed \/ Checked \/ RunPanics
            \/ \E p \in Packages, s \in {"published", "present", "failed"} : Ended(p, s)
            \/ \E o \in Outcomes, rm \in BOOLEAN : RunReturns(o, rm)
            \/ \E rm \in Removals : RemoverReturns(rm)
        BY <3>4 DEF RunStep, Outcomes, Removals
      <4>2. boot = "up" /\ boot' = boot /\ ctxDone' = ctxDone
        BY <4>1 DEF Listed, Checked, Ended, RunPanics, RunReturns, RemoverReturns
      <4> QED
        BY <1>7, <4>2
    <3> QED
      BY <1>7, <3>1, <3>2, <3>3, <3>4 DEF ImportNext, QueueStep
  <2>2. UpInv
    BY <1>1, <2>1, UpFact DEF IInv
  <2>3. UpInv'
    BY <1>1, <1>7, <2>1, <2>2, UpStep
  <2>4. (TypeInv /\ boot = "up" /\ ~ctxDone =>
          (UpInv <=> ActiveInv /\ RunningInv /\ SweptInv /\ LeftInv /\ HeldSomewhere))'
    BY UpFact, PTL
  <2> QED
    BY <1>1, <1>7, <2>1, <2>3, <2>4
<1> QED
  BY <1>2, <1>3, <1>4, <1>5, <1>6, <1>7

LEMMA IInvInit == ImportInit => IInv
<1> SUFFICES ASSUME ImportInit PROVE IInv
  OBVIOUS
<1>1. \A i \in Imports : Status(i) = "none"
  BY DEF ImportInit, Status
<1> QED
  BY <1>1, BaseInit DEF ImportInit, IInv, ActiveInv, RunningInv, SweptInv, LeftInv, HeldSomewhere, Open,
                        Active, After

LEMMA IInvGives == IInv => NothingForgotten
<1> SUFFICES ASSUME IInv, boot = "up", ~ctxDone, faults <= 1, NEW i \in Imports \ unswept, Unended(i)
             PROVE  \/ i \in Range(items) \/ i = it
                    \/ handler.at = "submit" /\ handler.about = i
  BY DEF NothingForgotten
<1>1. Status(i) \in Open
  BY StatusType DEF IInv, Base
<1>2. Waits(i) \/ i = it
  BY <1>1 DEF IInv, HeldSomewhere
<1> QED
  BY <1>2 DEF Waits, Range

\* Whichever one store operation fails, an attempt that has not ended is in the
\* queue, the worker's or a handler's.
THEOREM Remembered == ImportSpec => []NothingForgotten
<1> QED
  BY IInvInit, IInvStep, IInvGives, PTL DEF ImportSpec

-----------------------------------------------------------------------------
(* ImportQueue implements ImportLifecycle                                   *)

\* Only the latest attempt may be short of its end.
LaterInv ==
  \A i \in Imports : \A m \in DOMAIN record[i] : m # Len(record[i]) => record[i][m].status = "ended"

\* What the worker works at was begun, ...
BegunInv == worker \in Active => record[it][n].status # "queued"

\* ... and, as long as nothing has failed, nothing else runs.
SoleInv ==
  boot # "down" /\ faults = 0 =>
    \A i \in Imports : Status(i) = "running" =>
      i = it /\ worker \in Active /\ n = Len(record[it])

\* A report that is returned is one that ImportLifecycle takes.
Reported ==
  [state |-> rep.outcome, packages |-> rep.packages, checked |-> rep.checked, removal |-> "none"]
ToldInv ==
  /\ rep.checked => \A p \in Packages : rep.packages[p] # "unlisted"
  /\ worker \in {"returned", "finishing"} => rep.outcome \in Outcomes /\ Lifecycle!True(Reported)

LifeInv == Base /\ LaterInv /\ BegunInv /\ SoleInv /\ ToldInv

LEMMA LaterStep ==
  ASSUME TypeInv, EndedInv, LaterInv, Effect
  PROVE  LaterInv'
<1>0. /\ record \in [Imports -> Seq(Attempts)]
      /\ \A i \in Imports : Len(record[i]) \in Nat /\ DOMAIN record[i] = 1..Len(record[i])
  BY DEF TypeInv
<1>1. CASE Keeps
  BY <1>1 DEF Keeps, LaterInv
<1>2. ASSUME NEW i \in Imports, NEW a \in Attempts, Rewrites(i, a) PROVE LaterInv'
  <2>1. record[i] # <<>> /\ record' = [record EXCEPT ![i][Len(record[i])] = a]
    BY <1>2 DEF Rewrites
  <2>2. /\ \A k \in Imports : DOMAIN record'[k] = DOMAIN record[k] /\ Len(record'[k]) = Len(record[k])
        /\ \A k \in Imports : k # i => record'[k] = record[k]
        /\ \A m \in DOMAIN record[i] : m # Len(record[i]) => record'[i][m] = record[i][m]
    BY <2>1, RewriteFact
  <2> QED
    BY <2>2 DEF LaterInv
<1>3. ASSUME NEW r \in Removals, Noted(r) PROVE LaterInv'
  <2> DEFINE a == [record[it][n] EXCEPT !.removal = r]
             t == [record[it] EXCEPT ![n] = a]
  <2>1. it \in Imports /\ n \in DOMAIN record[it] /\ record' = [record EXCEPT ![it] = t]
    BY <1>3 DEF Noted
  <2>2. record[it] \in Seq(Attempts) /\ record[it][n] \in Attempts
    BY <1>0, <2>1
  <2>3. a \in Attempts /\ a.status = record[it][n].status
    BY <2>2 DEF Attempts
  <2> HIDE DEF a
  <2>4. /\ Len(t) = Len(record[it]) /\ DOMAIN t = DOMAIN record[it] /\ t[n] = a
        /\ \A k \in DOMAIN record[it] : k # n => t[k] = record[it][k]
    BY <2>1, <2>2, <2>3, ExceptFact
  <2> HIDE DEF t
  <2>5. record'[it] = t /\ \A k \in Imports : k # it => record'[k] = record[k]
    BY <1>0, <2>1
  <2> QED
    BY <2>3, <2>4, <2>5 DEF LaterInv
<1>4. ASSUME NEW i \in Imports, Adds(i) PROVE LaterInv'
  <2>1. record[i] # <<>> => record[i][Len(record[i])].status = "ended"
    BY <1>4, LatestFact DEF Adds, Unended
  <2>2. /\ Len(Append(record[i], NewAttempt)) = Len(record[i]) + 1
        /\ DOMAIN Append(record[i], NewAttempt) = 1..Len(record[i]) + 1
        /\ \A m \in 1..Len(record[i]) : Append(record[i], NewAttempt)[m] = record[i][m]
    <3>1. record[i] \in Seq(Attempts)
      BY <1>0
    <3> HIDE DEF NewAttempt
    <3> QED
      BY <3>1
  <2>3. /\ record'[i] = Append(record[i], NewAttempt)
        /\ \A k \in Imports : k # i => record'[k] = record[k]
    BY <1>0, <1>4 DEF Adds
  <2>4. record[i] # <<>> <=> Len(record[i]) > 0
    BY <1>0
  <2> HIDE DEF NewAttempt
  <2>5. \A m \in 1..Len(record[i]) : record'[i][m].status = "ended"
    <3> SUFFICES ASSUME NEW m \in 1..Len(record[i]) PROVE record[i][m].status = "ended"
      BY <2>2, <2>3
    <3> QED
      BY <1>0, <2>1, <2>4 DEF LaterInv
  <2>6. \A m \in DOMAIN record'[i] : m # Len(record'[i]) => record'[i][m].status = "ended"
    BY <1>0, <2>2, <2>3, <2>5
  <2> QED
    BY <2>3, <2>6 DEF LaterInv
<1>5. CASE Sweeps
  <2>1. \A i \in Imports : /\ DOMAIN record'[i] = DOMAIN record[i] /\ Len(record'[i]) = Len(record[i])
    <3> SUFFICES ASSUME NEW i \in Imports
                 PROVE  DOMAIN record'[i] = DOMAIN record[i] /\ Len(record'[i]) = Len(record[i])
      OBVIOUS
    <3>1. DOMAIN record'[i] = DOMAIN record[i]
      BY <1>5 DEF Sweeps
    <3>2. record'[i] \in Seq(Attempts)
      BY <1>5, EffectFact DEF Effect, WorkEffect
    <3> QED
      BY <1>0, <3>1, <3>2
  <2>2. \A i \in Imports : \A m \in DOMAIN record[i] :
          record[i][m].status = "ended" => record'[i][m].status = "ended"
    BY <1>5 DEF Sweeps
  <2> QED
    BY <2>1, <2>2 DEF LaterInv
<1> QED
  BY <1>1, <1>2, <1>3, <1>4, <1>5 DEF Effect, WorkEffect

LEMMA FaultsGrow ==
  ASSUME Base, [ImportNext]_importVars
  PROVE  faults \in Nat /\ faults' \in Nat /\ faults' >= faults
<1> USE DEF storeVars, queueVars, localVars, processVars, worldVars
<1>1. faults \in Nat
  BY DEF Base, TypeInv
<1>2. CASE UNCHANGED importVars
  BY <1>1, <1>2 DEF importVars
<1>3. ASSUME NEW i \in Imports, Create(i) \/ Retry(i) PROVE faults' = faults
  BY <1>3 DEF Create, Retry
<1>4. CASE RunStep
  <2>1. faults' \in {faults, faults + 1}
    BY <1>4 DEF RunStep, Listed, Checked, Ended, RunPanics, RunReturns, RemoverReturns, Tell, Update,
                Refused, Fault, EndUnfinished, EndUnfinishedFails
  <2> QED
    BY <1>1, <2>1
<1>5. CASE QueueStep /\ ~Sweep
  <2>1. CASE Submit \/ NextStops \/ NextTakes \/ NextWaits \/ NextWakes \/ Judge \/ Close \/ Stop \/ SweepWork
    BY <1>1, <2>1 DEF Submit, NextStops, NextTakes, NextWaits, NextWakes, Judge, Close, Stop, SweepWork
  <2>2. CASE Stopping \/ Begin \/ Get \/ Abandon \/ Finish \/ Clean \/ Removed
    <3>1. faults' \in {faults, faults + 1}
      BY <2>2 DEF Stopping, Begin, Get, Abandon, Finish, Clean, Removed, Update, Refused, Fault,
                  EndUnfinished, EndUnfinishedFails
    <3> QED
      BY <1>1, <3>1
  <2> QED
    BY <1>5, <2>1, <2>2 DEF QueueStep
<1>6. CASE Sweep
  <2>1. faults' \in {faults, faults + 1}
    BY <1>6 DEF Sweep
  <2> QED
    BY <1>1, <2>1
<1> QED
  BY <1>1, <1>2, <1>3, <1>4, <1>5, <1>6 DEF ImportNext

\* No attempt goes back into the queue.
LEMMA NeverRequeued ==
  ASSUME TypeInv, EndedInv, Effect, NEW i \in Imports, NEW m \in DOMAIN record[i],
         record[i][m].status # "queued"
  PROVE  record'[i][m].status # "queued"
<1>1. CASE record[i][m].status = "ended"
  <2>1. EndedKept
    BY EffectFact
  <2>2. CASE record'[i][m] = record[i][m]
    BY <1>1, <2>2
  <2>3. CASE record'[i][m] = [record[i][m] EXCEPT !.removal = record'[i][m].removal]
    <3>1. record[i][m] \in Attempts
      BY DEF TypeInv
    <3>2. DOMAIN record[i][m] = {"status", "outcome", "packages", "checked", "removal"}
      BY <3>1 DEF Attempts
    <3> QED
      BY <1>1, <2>3, <3>2
  <2> QED
    BY <1>1, <2>1, <2>2, <2>3 DEF EndedKept
<1>2. CASE record[i][m].status # "ended"
  <2>1. CASE Keeps
    BY <2>1 DEF Keeps
  <2>2. ASSUME NEW k \in Imports, NEW a \in Attempts, Rewrites(k, a) PROVE record'[i][m].status # "queued"
    <3>1. /\ record[k] # <<>> /\ record' = [record EXCEPT ![k][Len(record[k])] = a]
          /\ a.status # "queued"
      BY <2>2 DEF Rewrites
    <3>2. /\ record'[k][Len(record[k])] = a
          /\ \A j \in Imports : j # k => record'[j] = record[j]
          /\ \A j \in DOMAIN record[k] : j # Len(record[k]) => record'[k][j] = record[k][j]
      BY <3>1, RewriteFact
    <3> QED
      BY <3>1, <3>2
  <2>3. ASSUME NEW r \in Removals, Noted(r) PROVE record'[i][m].status # "queued"
    <3> DEFINE t == [record[it] EXCEPT ![n] = [record[it][n] EXCEPT !.removal = r]]
    <3>1. it \in Imports /\ n \in DOMAIN record[it] /\ record[it][n].status = "ended" /\ record' = [record EXCEPT ![it] = t]
      BY <2>3 DEF Noted
    <3>2. \A k \in DOMAIN record[it] : k # n => t[k] = record[it][k]
      BY <3>1 DEF TypeInv
    <3> HIDE DEF t
    <3>3. record'[it] = t /\ \A k \in Imports : k # it => record'[k] = record[k]
      BY <3>1 DEF TypeInv
    <3> QED
      BY <1>2, <3>1, <3>2, <3>3
  <2>4. ASSUME NEW k \in Imports, Adds(k) PROVE record'[i][m].status # "queued"
    <3>1. record[k] \in Seq(Attempts)
      BY DEF TypeInv
    <3>2. record'[k] = Append(record[k], NewAttempt) /\ \A j \in Imports : j # k => record'[j] = record[j]
      BY <2>4 DEF Adds, TypeInv
    <3> HIDE DEF NewAttempt
    <3>3. \A j \in DOMAIN record[k] : record'[k][j] = record[k][j]
      BY <3>1, <3>2
    <3> QED
      BY <3>2, <3>3
  <2>5. CASE Sweeps
    <3>1. record'[i][m] = record[i][m] \/ record'[i][m] = CutShort(record[i][m], "interrupted")
      BY <2>5 DEF Sweeps
    <3>2. record[i][m] \in Attempts /\ "interrupted" \in Outcomes
      BY DEF TypeInv, Outcomes
    <3> QED
      BY <3>1, <3>2, CutShortFact
  <2> QED
    BY <2>1, <2>2, <2>3, <2>4, <2>5 DEF Effect, WorkEffect
<1> QED
  BY <1>1, <1>2

LEMMA BegunStep ==
  ASSUME Base, BegunInv, [ImportNext]_importVars
  PROVE  BegunInv'
<1> USE DEF storeVars, queueVars, localVars, processVars, worldVars, Active
<1>1. TypeInv /\ HeldInv /\ ReportInv /\ EndedInv /\ Effect
  BY EffectHolds DEF Base
<1>2. CASE worker \in Active /\ it' = it /\ n' = n
  <2>1. it \in Imports /\ n \in DOMAIN record[it]
    BY <1>1, <1>2 DEF HeldInv, Free
  <2> QED
    BY <1>1, <1>2, <2>1, NeverRequeued DEF BegunInv
<1>3. CASE Begin
  <2>1. CASE worker' = "began"
    <3>1. PICK a \in Attempts : a.status = "running" /\ Rewrites(it, a) /\ n' = Len(record[it]) /\ it' = it
      BY <1>1, <1>3, <2>1, BeginFact DEF Begin
    <3>2. it \in Imports /\ record'[it][Len(record[it])] = a
      BY <1>1, <3>1, RewriteFact DEF Rewrites
    <3> QED
      BY <3>1, <3>2 DEF BegunInv
  <2> QED
    BY <1>3, <2>1 DEF Begin, BegunInv
<1>4. CASE ~Begin /\ worker' \in Active
  <2>1. worker \in Active /\ it' = it /\ n' = n
    <3>1. CASE UNCHANGED importVars
      BY <1>4, <3>1 DEF importVars
    <3>2. ASSUME NEW i \in Imports, Create(i) \/ Retry(i) PROVE worker \in Active /\ it' = it /\ n' = n
      BY <1>4, <3>2 DEF Create, Retry
    <3>3. CASE RunStep
      BY <1>4, <3>3 DEF RunStep, Listed, Checked, Ended, RunPanics, RunReturns, RemoverReturns, GoTo, ProcessReturns
    <3>4. CASE QueueStep
      BY <1>4, <3>4 DEF QueueStep, Submit, Stopping, NextStops, NextTakes, NextWaits, NextWakes, Get, Abandon,
                        Judge, Finish, Clean, Removed, Close, Stop, Sweep, SweepWork, GoTo, ProcessReturns
    <3> QED
      BY <3>1, <3>2, <3>3, <3>4 DEF ImportNext
  <2> QED
    BY <1>2, <2>1
<1> QED
  BY <1>3, <1>4 DEF BegunInv

LEMMA ToldStep ==
  ASSUME Base, ToldInv, [ImportNext]_importVars
  PROVE  ToldInv'
<1> USE DEF storeVars, queueVars, localVars, processVars, worldVars
<1>1. rep \in Reports
  BY DEF Base, TypeInv
<1>2. CASE rep' = rep /\ (worker' \notin {"returned", "finishing"} \/ worker' = worker)
  BY <1>2 DEF ToldInv, Reported
<1>3. CASE ProcessReturns
  BY <1>3 DEF ProcessReturns, NoReport, ToldInv
<1>4. CASE Listed
  <2>1. worker' = "running" /\ rep' = [rep EXCEPT !.packages = Every("pending")]
    BY <1>4 DEF Listed
  <2> QED
    BY <1>1, <2>1 DEF ToldInv, Reports, Every
<1>5. CASE Checked
  <2>1. worker' = "running" /\ rep' = [rep EXCEPT !.checked = TRUE] /\ rep.packages = Every("pending")
    BY <1>5 DEF Checked
  <2> QED
    BY <1>1, <2>1 DEF ToldInv, Reports, Every
<1>6. ASSUME NEW p \in Packages, NEW s \in {"published", "present", "failed"}, Ended(p, s) PROVE ToldInv'
  <2>1. worker' = "running" /\ rep' = [rep EXCEPT !.packages[p] = s]
    BY <1>6 DEF Ended
  <2> QED
    BY <1>1, <2>1 DEF ToldInv, Reports
<1>7. CASE ~rep.checked /\ RunReturns("refused", FALSE)
  <2>1. rep' = [rep EXCEPT !.outcome = "refused", !.packages = Every("unlisted")]
    BY <1>7 DEF RunReturns
  <2>2. rep' = [outcome |-> "refused", packages |-> Every("unlisted"), checked |-> FALSE]
    BY <1>1, <1>7, <2>1 DEF Reports
  <2> QED
    BY <2>2 DEF ToldInv, Reported, Lifecycle!True, Every, Outcomes
<1>8. CASE RunReturns("incomplete", FALSE)
  <2>1. rep' = [rep EXCEPT !.outcome = "incomplete", !.packages = @]
    BY <1>8 DEF RunReturns
  <2>2. rep' = [outcome |-> "incomplete", packages |-> rep.packages, checked |-> rep.checked]
    BY <1>1, <2>1 DEF Reports
  <2> QED
    BY <2>2 DEF ToldInv, Reported, Lifecycle!True, Outcomes
<1>9. ASSUME NEW rm \in BOOLEAN, RunReturns("complete", rm), rep.checked,
             \A p \in Packages : rep.packages[p] \notin {"pending", "failed"}
      PROVE  ToldInv'
  <2>1. rep' = [rep EXCEPT !.outcome = "complete", !.packages = @]
    BY <1>9 DEF RunReturns
  <2>2. rep' = [outcome |-> "complete", packages |-> rep.packages, checked |-> TRUE]
    BY <1>1, <1>9, <2>1 DEF Reports
  <2>3. \A p \in Packages : rep.packages[p] \in {"published", "present"}
    BY <1>1, <1>9 DEF ToldInv, Reports, PackageStates
  <2>4. rep'.packages = rep.packages /\ \A p \in Packages : rep.packages[p] # "unlisted"
    BY <1>9, <2>2 DEF ToldInv
  <2>5. Reported' = [state |-> "complete", packages |-> rep.packages, checked |-> TRUE, removal |-> "none"]
    BY <2>2 DEF Reported
  <2> QED
    BY <2>2, <2>3, <2>4, <2>5 DEF ToldInv, Lifecycle!True, Lifecycle!Claims, Outcomes
<1>10. CASE Judge
  <2>1. CASE rep' = rep
    BY <1>10, <2>1 DEF ToldInv, Reported, Judge
  <2>2. CASE rep' = [rep EXCEPT !.outcome = "interrupted"]
    <3>1. rep' = [outcome |-> "interrupted", packages |-> rep.packages, checked |-> rep.checked]
      BY <1>1, <2>2 DEF Reports
    <3> QED
      BY <3>1 DEF ToldInv, Reported, Lifecycle!True, Outcomes
  <2> QED
    BY <1>10, <2>1, <2>2 DEF Judge
<1>11. CASE UNCHANGED importVars
  BY <1>2, <1>11 DEF importVars
<1>12. ASSUME NEW i \in Imports, Create(i) \/ Retry(i) PROVE ToldInv'
  BY <1>2, <1>12 DEF Create, Retry
<1>13. CASE RunStep
  BY <1>2, <1>3, <1>4, <1>5, <1>6, <1>7, <1>8, <1>9, <1>13 DEF RunStep, RunPanics, RemoverReturns, GoTo
<1>14. CASE QueueStep
  BY <1>2, <1>3, <1>10, <1>14
     DEF QueueStep, Submit, Stopping, NextStops, NextTakes, NextWaits, NextWakes, Begin, Get, Abandon,
         Finish, Clean, Removed, Close, Stop, Sweep, SweepWork, GoTo
<1> QED
  BY <1>11, <1>12, <1>13, <1>14 DEF ImportNext

LEMMA SoleStep ==
  ASSUME Base, Base', SoleInv, [ImportNext]_importVars
  PROVE  SoleInv'
<1> USE DEF storeVars, queueVars, localVars, processVars, worldVars
<1>1. /\ TypeInv /\ HeldInv /\ ReportInv /\ EndedInv
      /\ faults \in Nat /\ faults' \in Nat /\ faults' >= faults
  BY FaultsGrow DEF Base
<1> DEFINE Runs(k) == Status(k) = "running"
           Good == boot # "down" /\ faults = 0
<1> SUFFICES ASSUME boot' # "down", faults' = 0 PROVE \A i \in Imports : Runs(i)' => i = it' /\ worker' \in Active /\ n' = Len(record'[it'])
  BY DEF SoleInv
<1>2. faults = 0 /\ (boot # "down" => \A i \in Imports : Runs(i) => i = it /\ worker \in Active /\ n = Len(record[it]))
  BY <1>1 DEF SoleInv
\* Nothing runs, and nothing starts to; or it goes on.
<1>3. ASSUME boot # "down", worker \notin Active, \A k \in Imports : Runs(k)' => Runs(k)
      PROVE  \A k \in Imports : ~Runs(k)'
  BY <1>2, <1>3
<1>4. ASSUME boot # "down", it' = it, n' = n, worker \in Active => worker' \in Active,
             \A k \in Imports : Runs(k)' => Runs(k) /\ Len(record'[k]) = Len(record[k])
      PROVE  \A i \in Imports : Runs(i)' => i = it' /\ worker' \in Active /\ n' = Len(record'[it'])
  <2> SUFFICES ASSUME NEW i \in Imports, Runs(i)' PROVE i = it' /\ worker' \in Active /\ n' = Len(record'[it'])
    OBVIOUS
  <2>1. Runs(i) /\ Len(record'[i]) = Len(record[i])
    BY <1>4
  <2>2. i = it /\ worker \in Active /\ n = Len(record[it])
    BY <1>2, <1>4, <2>1
  <2> QED
    BY <1>4, <2>1, <2>2
<1>5. Keeps => \A k \in Imports : (Runs(k)' <=> Runs(k)) /\ Len(record'[k]) = Len(record[k])
  BY KeepsStatus
<1>6. ASSUME NEW i \in Imports, NEW o \in Outcomes, EndUnfinished(i, o) \/ EndUnfinishedFails(i, o)
      PROVE  /\ \A k \in Imports : Runs(k)' => Runs(k)
             /\ \A k \in Imports : Len(record'[k]) = Len(record[k])
             /\ EndUnfinished(i, o) /\ ~Runs(i)'
  <2>1. /\ \A k \in Imports : k # i => Status(k)' = Status(k)
        /\ Status(i)' \in {Status(i), "ended"}
        /\ EndUnfinished(i, o) => Status(i)' \notin Open /\ faults' = faults
        /\ EndUnfinishedFails(i, o) => faults' = faults + 1
    BY <1>1, <1>6, EndUnfinishedStatus
  <2>2. EndUnfinished(i, o) /\ Status(i)' \notin Open
    BY <1>1, <1>2, <1>6, <2>1
  <2>3. \A k \in Imports : Len(record'[k]) = Len(record[k])
    <3>1. EndsLatest(i, o)
      BY <1>1, <1>6, EndUnfinishedFact
    <3>2. CASE Keeps
      BY <3>2 DEF Keeps
    <3>3. CASE ~Keeps
      <4>1. /\ record[i] # <<>>
            /\ record' = [record EXCEPT ![i][Len(record[i])] = CutShort(Latest(i), o)]
        BY <3>1, <3>3 DEF EndsLatest
      <4>2. CutShort(Latest(i), o) \in Attempts
        BY <1>1, <4>1, LatestFact, CutShortFact
      <4> QED
        BY <1>1, <4>1, <4>2, RewriteFact
    <3> QED
      BY <3>2, <3>3
  <2> QED
    BY <2>1, <2>2, <2>3 DEF Open
<1>7. CASE UNCHANGED importVars
  <2>1. Keeps /\ UNCHANGED <<boot, it, n, worker>>
    BY <1>7 DEF importVars, Keeps
  <2> QED
    BY <1>4, <1>5, <2>1
<1>8. ASSUME NEW i \in Imports, Create(i) \/ Retry(i)
      PROVE  \A k \in Imports : Runs(k)' => k = it' /\ worker' \in Active /\ n' = Len(record'[it'])
  <2>1. boot # "down" /\ UNCHANGED <<it, n, worker>>
    BY <1>8 DEF Create, Retry
  <2>2. /\ Status(i)' = "queued"
        /\ \A k \in Imports : k # i => Status(k)' = Status(k) /\ Len(record'[k]) = Len(record[k])
    BY <1>1, <1>8, AddsFact, AddsStatus
  <2> QED
    BY <1>4, <2>1, <2>2
<1>9. CASE Still /\ ~Stop
  <2>1. Keeps
    BY <1>9, StillKeeps
  <2>2. CASE Submit \/ Get \/ Judge \/ Close \/ (\E o \in Outcomes, rm \in BOOLEAN : RunReturns(o, rm))
    <3>1. boot # "down" /\ UNCHANGED <<it, n>>
      BY <2>2 DEF Submit, Get, Judge, Close, RunReturns, GoTo
    <3>2. Get => worker' \in Active
      BY <1>1, <1>2 DEF Get, GoTo, Fault, Active
    <3>3. worker \in Active => worker' \in Active
      BY <2>2, <3>2 DEF Submit, Judge, Close, RunReturns, Active
    <3> QED
      BY <1>4, <1>5, <2>1, <3>1, <3>3
  <2>3. CASE \/ NextStops \/ NextTakes \/ NextWaits \/ NextWakes \/ Clean
             \/ \E rm \in Removals : RemoverReturns(rm)
    <3>1. boot # "down" /\ worker \notin Active
      BY <2>3 DEF NextStops, NextTakes, NextWaits, NextWakes, Clean, RemoverReturns, Active
    <3> QED
      BY <1>3, <1>5, <2>1, <3>1
  <2>4. CASE SweepWork
    <3>1. boot # "down" /\ UNCHANGED <<it, n, worker>>
      BY <2>4 DEF SweepWork
    <3> QED
      BY <1>4, <1>5, <2>1, <3>1
  <2> QED
    BY <1>9, <2>2, <2>3, <2>4 DEF Still
<1>10. CASE Stopping
  <2>1. boot # "down" /\ UNCHANGED <<it, n, worker>> /\ handler.about \in Imports /\ "interrupted" \in Outcomes
    BY <1>1, <1>10 DEF Stopping, HeldInv, Outcomes
  <2>2. EndUnfinished(handler.about, "interrupted") \/ EndUnfinishedFails(handler.about, "interrupted")
    BY <1>10 DEF Stopping
  <2> QED
    BY <1>4, <1>6, <2>1, <2>2
<1>11. CASE Abandon
  <2>1. boot # "down" /\ worker \notin Active /\ it \in Imports /\ "interrupted" \in Outcomes
    BY <1>1, <1>11 DEF Abandon, HeldInv, Free, Active, Outcomes
  <2>2. EndUnfinished(it, "interrupted") \/ EndUnfinishedFails(it, "interrupted")
    BY <1>11 DEF Abandon
  <2> QED
    BY <1>3, <1>6, <2>1, <2>2
<1>12. CASE RunPanics
  <2>1. boot # "down" /\ it \in Imports /\ "incomplete" \in Outcomes
    BY <1>1, <1>12 DEF RunPanics, HeldInv, Free, Outcomes
  <2>2. PICK j \in Imports : j = it
    BY <2>1
  <2>3. EndUnfinished(j, "incomplete") \/ EndUnfinishedFails(j, "incomplete")
    BY <1>12, <2>2 DEF RunPanics
  <2>4. ~Runs(j)' /\ \A k \in Imports : Runs(k)' => Runs(k)
    BY <1>6, <2>1, <2>3
  <2>5. \A k \in Imports : Runs(k) => k = j
    BY <1>2, <2>1, <2>2
  <2> QED
    BY <2>4, <2>5
<1>13. CASE Begin
  <2>1. boot # "down" /\ it' = it /\ worker \notin Active
    BY <1>13 DEF Begin, Active
  <2>2. it \in Imports /\ n' = Len(record[it])
    BY <1>1, <1>13, BeginFact
  <2>3. CASE worker' = "began" /\ \E a \in Attempts : Rewrites(it, a)
    <3>1. /\ \A k \in Imports : k # it => Status(k)' = Status(k)
          /\ Len(record'[it]) = Len(record[it])
      BY <1>1, <2>2, <2>3, RewritesStatus
    <3> QED
      BY <1>2, <2>1, <2>2, <2>3, <3>1 DEF Active
  <2>4. CASE Keeps
    BY <1>3, <1>5, <2>1, <2>4
  <2> QED
    BY <1>1, <1>13, <2>3, <2>4, BeginFact
<1>14. CASE Finish
  <2>1. boot # "down" /\ it' = it /\ n' = n /\ it \in Imports
    BY <1>1, <1>14, FinishFact DEF Finish, GoTo
  <2>2. ASSUME NEW a \in Attempts, a.status = "ended", Rewrites(it, a) PROVE \A k \in Imports : ~Runs(k)'
    <3>1. Status(it)' = "ended" /\ \A k \in Imports : k # it => Status(k)' = Status(k)
      BY <1>1, <2>1, <2>2, RewritesStatus
    <3> QED
      BY <1>2, <2>1, <3>1
  <2>3. CASE Keeps /\ faults' = faults /\ ~(Len(record[it]) = n /\ Unended(it))
    <3>1. \A k \in Imports : ~Runs(k)
      BY <1>1, <1>2, <2>1, <2>3, StatusType DEF Open
    <3> QED
      BY <1>5, <2>3, <3>1
  <2> QED
    BY <1>1, <1>2, <1>14, <2>2, <2>3, FinishFact
<1>15. CASE Listed \/ Checked \/ (\E p \in Packages, s \in {"published", "present", "failed"} : Ended(p, s))
  <2>1. boot # "down" /\ UNCHANGED <<it, n, worker>>
    BY <1>15 DEF Listed, Checked, Ended
  <2>2. ASSUME NEW a \in Attempts, TellsMore(a), it \in Imports, record[it] # <<>>
        PROVE  \A k \in Imports : Status(k)' = Status(k) /\ Len(record'[k]) = Len(record[k])
    BY <1>1, <2>2, RewritesStatus DEF TellsMore, Status
  <2> QED
    BY <1>1, <1>4, <1>5, <1>15, <2>1, <2>2, RunTells
<1>16. CASE Removed
  <2>1. boot # "down" /\ worker \notin Active
    BY <1>16 DEF Removed, Active
  <2>2. \A k \in Imports : Status(k)' = Status(k)
    BY <1>1, <1>5, <1>16, RemovedFact, NotedStatus, KeepsStatus
  <2> QED
    BY <1>3, <2>1, <2>2
<1>17. CASE Sweep
  <2>1. unswept' = {}
    BY <1>1, <1>2 DEF Base, HeldInv
  <2>2. \A k \in Imports : Status(k)' \notin Open
    BY <1>1, <1>17, <2>1, SweepFact, SweepsStatus
  <2> QED
    BY <2>2 DEF Open
<1>18. CASE Stop
  BY <1>18 DEF Stop
<1>19. CASE RunStep
  <2>1. \/ (Still /\ ~Stop) \/ RunPanics \/ Listed \/ Checked
        \/ \E p \in Packages, s \in {"published", "present", "failed"} : Ended(p, s)
    <3>1. \A o \in Outcomes, rm \in BOOLEAN : RunReturns(o, rm) => boot' = boot
      BY DEF RunReturns
    <3>2. \A rm \in Removals : RemoverReturns(rm) => boot' = boot
      BY DEF RemoverReturns
    <3>3. Stop => boot' # boot
      BY DEF Stop
    <3> QED
      BY <1>19, <3>1, <3>2, <3>3 DEF RunStep, Still, Outcomes, Removals
  <2> QED
    BY <1>9, <1>12, <1>15, <2>1
<1>20. CASE QueueStep
  BY <1>9, <1>10, <1>11, <1>13, <1>14, <1>16, <1>17, <1>18, <1>20 DEF QueueStep, Still
<1> QED
  BY <1>7, <1>8, <1>19, <1>20 DEF ImportNext

LEMMA LifeInvStep ==
  ASSUME LifeInv, [ImportNext]_importVars
  PROVE  LifeInv'
<1>1. Base' /\ Effect
  BY BaseStep, EffectHolds DEF LifeInv, Base
<1> QED
  BY <1>1, LaterStep, BegunStep, SoleStep, ToldStep DEF LifeInv, Base

LEMMA LifeInvInit == ImportInit => LifeInv
<1> SUFFICES ASSUME ImportInit PROVE LifeInv
  OBVIOUS
<1>1. \A i \in Imports : record[i] = <<>> /\ Status(i) = "none"
  BY DEF ImportInit, Status
<1> QED
  BY <1>1, BaseInit DEF ImportInit, LifeInv, LaterInv, BegunInv, SoleInv, ToldInv, Active, NoReport

\* The attempts as ImportLifecycle sees them.
Views ==
  [state : Open \cup Outcomes \cup {"none"}, packages : [Packages -> PackageStates],
   checked : BOOLEAN, removal : Removals]
Shows == [i \in Imports |-> [m \in DOMAIN record[i] |-> Shown(record[i][m])]]

LEMMA ShownFact ==
  ASSUME NEW a \in Attempts
  PROVE  /\ Shown(a) \in Views
         /\ Shown(a).state \in Open <=> a.status # "ended"
         /\ \A s \in Open : Shown(a).state = s <=> a.status = s
<1>1. Every("unlisted") \in [Packages -> PackageStates]
  BY DEF Every, PackageStates
<1> QED
  BY <1>1 DEF Attempts, Shown, Views, Open, Outcomes

LEMMA ShowsFact ==
  ASSUME TypeInv
  PROVE  /\ Shows \in [Imports -> Seq(Views)]
         /\ \A i \in Imports :
              /\ Len(Shows[i]) = Len(record[i]) /\ DOMAIN Shows[i] = DOMAIN record[i]
              /\ \A m \in DOMAIN record[i] : Shows[i][m] = Shown(record[i][m])
              /\ Shows[i] = <<>> <=> record[i] = <<>>
              /\ record[i] # <<>> => Last(Shows[i]) = Shown(Latest(i))
<1> SUFFICES ASSUME NEW i \in Imports
             PROVE  /\ Shows[i] \in Seq(Views)
                    /\ Len(Shows[i]) = Len(record[i]) /\ DOMAIN Shows[i] = DOMAIN record[i]
                    /\ \A m \in DOMAIN record[i] : Shows[i][m] = Shown(record[i][m])
                    /\ Shows[i] = <<>> <=> record[i] = <<>>
                    /\ record[i] # <<>> => Last(Shows[i]) = Shown(Latest(i))
  BY DEF Shows
<1>1. record[i] \in Seq(Attempts) /\ Len(record[i]) \in Nat /\ DOMAIN record[i] = 1..Len(record[i])
  BY DEF TypeInv
<1>2. /\ Shows[i] = [m \in 1..Len(record[i]) |-> Shown(record[i][m])]
      /\ \A m \in DOMAIN record[i] : Shows[i][m] = Shown(record[i][m])
  BY <1>1 DEF Shows
<1>3. \A m \in 1..Len(record[i]) : Shown(record[i][m]) \in Views
  BY <1>1, ShownFact
<1>4. Shows[i] \in Seq(Views) /\ Len(Shows[i]) = Len(record[i]) /\ DOMAIN Shows[i] = DOMAIN record[i]
  BY <1>1, <1>2, <1>3
<1>5. Shows[i] = <<>> <=> record[i] = <<>>
  BY <1>1, <1>4
<1>6. record[i] # <<>> => Last(Shows[i]) = Shown(Latest(i))
  <2> SUFFICES ASSUME record[i] # <<>> PROVE Last(Shows[i]) = Shown(Latest(i))
    OBVIOUS
  <2>1. Latest(i) = record[i][Len(record[i])] /\ Len(record[i]) \in DOMAIN record[i]
    BY LatestFact
  <2>2. Last(Shows[i]) = Shows[i][Len(Shows[i])]
    BY <1>4, <1>5, SeqFact
  <2> QED
    BY <1>2, <1>4, <2>1, <2>2
<1> QED
  BY <1>2, <1>4, <1>5, <1>6

LEMMA OverFact ==
  ASSUME TypeInv, NEW i \in Imports
  PROVE  /\ Lifecycle!Over(i) <=> ~Unended(i)
         /\ \A s \in Open : Lifecycle!Is(i, s) <=> Status(i) = s
<1>1. /\ Shows[i] = <<>> <=> record[i] = <<>>
      /\ record[i] # <<>> => Last(Shows[i]) = Shown(Latest(i))
  BY ShowsFact
<1>2. Lifecycle!Over(i) <=> Shows[i] = <<>> \/ Last(Shows[i]).state \notin Open
  BY DEF Lifecycle!Over, Lifecycle!Open, Lifecycle!Last, Last, Open, Shows
<1>3. \A s : Lifecycle!Is(i, s) <=> ~Lifecycle!Over(i) /\ Last(Shows[i]).state = s
  BY DEF Lifecycle!Is, Lifecycle!Last, Last, Shows
<1>4. record[i] # <<>> => Latest(i) \in Attempts
  BY LatestFact
<1>5. /\ record[i] # <<>> => (Last(Shows[i]).state \in Open <=> Latest(i).status # "ended")
      /\ \A s \in Open : record[i] # <<>> => (Last(Shows[i]).state = s <=> Latest(i).status = s)
  BY <1>1, <1>4, ShownFact
<1> QED
  BY <1>1, <1>2, <1>3, <1>5 DEF Unended, Status, Open

LEMMA ShowsRewrite ==
  ASSUME TypeInv, record' \in [Imports -> Seq(Attempts)],
         NEW i \in Imports, NEW m \in DOMAIN record[i], NEW a \in Attempts,
         \A k \in Imports : DOMAIN record'[k] = DOMAIN record[k],
         \A k \in Imports \ {i} : record'[k] = record[k],
         \A k \in DOMAIN record[i] \ {m} : record'[i][k] = record[i][k],
         record'[i][m] = a
  PROVE  Shows' = [Shows EXCEPT ![i] = [Shows[i] EXCEPT ![m] = Shown(a)]]
<1>1. \A k \in Imports : Shows'[k] = [j \in DOMAIN record'[k] |-> Shown(record'[k][j])]
  BY DEF Shows, Shown
<1>2. \A k \in Imports : Shows[k] = [j \in DOMAIN record[k] |-> Shown(record[k][j])]
  BY DEF Shows
<1>3. Shows'[i] = [Shows[i] EXCEPT ![m] = Shown(a)]
  <2>1. [Shows[i] EXCEPT ![m] = Shown(a)]
          = [j \in DOMAIN record[i] |-> IF j = m THEN Shown(a) ELSE Shown(record[i][j])]
    <3>1. PICK s : s = Shows[i]
      OBVIOUS
    <3>2. s = [j \in DOMAIN record[i] |-> Shown(record[i][j])]
      BY <1>2, <3>1
    <3>3. [s EXCEPT ![m] = Shown(a)]
            = [j \in DOMAIN record[i] |-> IF j = m THEN Shown(a) ELSE Shown(record[i][j])]
      BY <3>2
    <3> QED
      BY <3>1, <3>3
  <2>2. Shows'[i] = [j \in DOMAIN record[i] |-> Shown(record'[i][j])]
    BY <1>1
  <2>3. \A j \in DOMAIN record[i] : Shown(record'[i][j]) = IF j = m THEN Shown(a) ELSE Shown(record[i][j])
    OBVIOUS
  <2> QED
    BY <2>1, <2>2, <2>3
<1>4. ASSUME NEW k \in Imports, k # i PROVE Shows'[k] = Shows[k]
  <2>1. record'[k] = record[k]
    BY <1>4
  <2>2. Shows'[k] = [j \in DOMAIN record[k] |-> Shown(record[k][j])]
    BY <1>1, <2>1
  <2> QED
    BY <1>2, <2>2
<1>5. DOMAIN Shows' = Imports /\ DOMAIN Shows = Imports
  BY DEF Shows
<1>6. Shows' = [k \in Imports |-> Shows'[k]]
  BY DEF Shows
<1>7. [Shows EXCEPT ![i] = [Shows[i] EXCEPT ![m] = Shown(a)]]
        = [k \in Imports |-> IF k = i THEN [Shows[i] EXCEPT ![m] = Shown(a)] ELSE Shows[k]]
  BY <1>5
<1> QED
  BY <1>3, <1>4, <1>6, <1>7

LEMMA ShowsLatest ==
  ASSUME TypeInv, NEW i \in Imports, NEW a \in Attempts, Rewrites(i, a)
  PROVE  Shows' = [Shows EXCEPT ![i] = [Shows[i] EXCEPT ![Len(Shows[i])] = Shown(a)]]
<1>1. record[i] # <<>> /\ record' = [record EXCEPT ![i][Len(record[i])] = a]
  BY DEF Rewrites
<1>2. Len(record[i]) \in DOMAIN record[i] /\ Len(Shows[i]) = Len(record[i])
  BY <1>1, LatestFact, ShowsFact
<1>3. /\ record' \in [Imports -> Seq(Attempts)]
      /\ \A k \in Imports : DOMAIN record'[k] = DOMAIN record[k]
      /\ record'[i][Len(record[i])] = a
      /\ \A k \in Imports : k # i => record'[k] = record[k]
      /\ \A m \in DOMAIN record[i] : m # Len(record[i]) => record'[i][m] = record[i][m]
  BY <1>1, RewriteFact
<1> QED
  BY <1>2, <1>3, ShowsRewrite

\* A step of ImportLifecycle, but for the failing disk.
LifeStep ==
  \/ \E i \in Imports : \/ Lifecycle!Try(i) \/ Lifecycle!Run(i) \/ Lifecycle!End(i)
                        \/ \E m \in DOMAIN Shows[i] : Lifecycle!Note(i, m)
  \/ \E S \in SUBSET Imports : Lifecycle!CutShort(S)
  \/ Shows' = Shows

LEMMA KeepsLife == Keeps => LifeStep
BY DEF Keeps, LifeStep, Shows, Shown

\* Create and Retry.
LEMMA AddsLife ==
  ASSUME TypeInv, NEW i \in Imports, Adds(i)
  PROVE  Lifecycle!Try(i)
<1>1. Lifecycle!Over(i)
  BY OverFact DEF Adds
<1>2. record[i] \in Seq(Attempts)
  BY DEF TypeInv
<1>3. Shown(NewAttempt) = Lifecycle!Waiting
  BY DEF Shown, NewAttempt, Every, Lifecycle!Waiting
<1>4. /\ record'[i] = Append(record[i], NewAttempt)
      /\ \A k \in Imports : k # i => record'[k] = record[k]
  BY DEF Adds, TypeInv
<1> DEFINE L == Len(record[i])
           new == NewAttempt
<1>5. L \in Nat /\ DOMAIN record[i] = 1..L
  BY <1>2
<1> HIDE DEF new
<1>6. /\ DOMAIN Append(record[i], new) = 1..L + 1
      /\ \A m \in 1..L + 1 : Append(record[i], new)[m] = IF m = L + 1 THEN new ELSE record[i][m]
  BY <1>2
<1>7. Shows[i] = [m \in 1..L |-> Shown(record[i][m])]
  BY <1>5 DEF Shows
<1>8. Append(Shows[i], Shown(new)) = [m \in 1..L + 1 |-> IF m = L + 1 THEN Shown(new) ELSE Shown(record[i][m])]
  <2>1. Shows[i] \in Seq(Views) /\ Len(Shows[i]) = L /\ \A m \in 1..L : Shows[i][m] = Shown(record[i][m])
    BY <1>5, ShowsFact
  <2> QED
    BY <1>5, <2>1
<1>9. Shows'[i] = [m \in 1..L + 1 |-> Shown(record'[i][m])]
  <2>1. Shows'[i] = [m \in DOMAIN record'[i] |-> Shown(record'[i][m])]
    BY DEF Shows, Shown
  <2> QED
    BY <1>4, <1>6, <2>1 DEF new
<1>10. Shows'[i] = Append(Shows[i], Shown(new))
  <2>1. \A m \in 1..L + 1 : Shown(record'[i][m]) = IF m = L + 1 THEN Shown(new) ELSE Shown(record[i][m])
    BY <1>4, <1>6 DEF new
  <2> QED
    BY <1>8, <1>9, <2>1
<1>11. \A k \in Imports \ {i} : Shows'[k] = Shows[k]
  BY <1>4 DEF Shows, Shown
<1>12. Shows' = [Shows EXCEPT ![i] = Append(Shows[i], Lifecycle!Waiting)]
  <2>1. Shows' = [k \in Imports |-> Shows'[k]] /\ DOMAIN Shows = Imports
    BY DEF Shows
  <2>2. [Shows EXCEPT ![i] = Append(Shows[i], Lifecycle!Waiting)]
          = [k \in Imports |-> IF k = i THEN Append(Shows[i], Lifecycle!Waiting) ELSE Shows[k]]
    BY <2>1
  <2>3. Shows'[i] = Append(Shows[i], Lifecycle!Waiting)
    BY <1>3, <1>10 DEF new
  <2> HIDE DEF Shows
  <2> QED
    BY <1>11, <2>1, <2>2, <2>3
<1> QED
  BY <1>1, <1>12 DEF Lifecycle!Try, Shows

\* Stopping, Abandon and Break.
LEMMA CutReport ==
  ASSUME NEW a \in Attempts, NEW o \in {"interrupted", "incomplete"}
  PROVE  /\ CutShort(a, o) \in Attempts /\ CutShort(a, o).status = "ended"
         /\ Shown(CutShort(a, o)) \in Lifecycle!Reports(Lifecycle!Cut)
<1>1. a.packages \in [Packages -> PackageStates] /\ o \in Outcomes
  BY DEF Attempts, Outcomes
<1>2. PICK q : q = Failing(a.packages)
  OBVIOUS
<1>3. q \in [Packages -> PackageStates] /\ Quiet(q)
  BY <1>1, <1>2, FailingFact
<1>4. CutShort(a, o) = [a EXCEPT !.status = "ended", !.outcome = o, !.removal = "none", !.packages = q]
  BY <1>2 DEF CutShort
<1>5. Shown(CutShort(a, o)) = [state |-> o, packages |-> q, checked |-> a.checked, removal |-> "none"]
  BY <1>4 DEF Shown, Attempts
<1>6. q \in [Packages -> {"published", "present"} \cup {"unlisted", "failed"}]
  BY <1>3 DEF Quiet, PackageStates
<1>7. a.checked \in BOOLEAN
  BY DEF Attempts
<1> QED
  BY <1>1, <1>5, <1>6, <1>7, CutShortFact DEF Lifecycle!Reports, Lifecycle!Cut, Lifecycle!Claims

LEMMA CutLife ==
  ASSUME TypeInv, NEW i \in Imports, NEW o \in {"interrupted", "incomplete"},
         EndUnfinished(i, o) \/ EndUnfinishedFails(i, o)
  PROVE  LifeStep
<1>1. EndsLatest(i, o)
  BY EndUnfinishedFact DEF Outcomes
<1>2. CASE ~Keeps
  <2>1. /\ record[i] # <<>> /\ Latest(i).status # "ended" /\ Latest(i) \in Attempts
        /\ record' = [record EXCEPT ![i][Len(record[i])] = CutShort(Latest(i), o)]
    BY <1>1, <1>2, LatestFact DEF EndsLatest
  <2>2. PICK a \in Attempts : a = CutShort(Latest(i), o) /\ a.status = "ended" /\ Quiet(a.packages)
                              /\ Shown(a) \in Lifecycle!Reports(Lifecycle!Cut)
    BY <2>1, CutReport, CutShortFact DEF Outcomes
  <2>3. Rewrites(i, a)
    BY <2>1, <2>2 DEF Rewrites
  <2> DEFINE r == [k \in {i} |-> Shown(a)]
  <2>4. Shows' = [Shows EXCEPT ![i] = [Shows[i] EXCEPT ![Len(Shows[i])] = r[i]]]
    BY <2>3, ShowsLatest
  <2>5. DOMAIN Shows = Imports
    BY DEF Shows
  <2>6. Shows' = [k \in Imports |-> IF k \in {i} THEN [Shows[k] EXCEPT ![Len(Shows[k])] = r[k]] ELSE Shows[k]]
    BY <2>4, <2>5
  <2>7. r \in [{i} -> Lifecycle!Reports(Lifecycle!Cut)]
    BY <2>2
  <2>8. \A k \in {i} : ~Lifecycle!Over(k)
    BY <2>1, OverFact DEF Unended
  <2> HIDE DEF r
  <2>9. Lifecycle!CutShort({i})
    BY <2>6, <2>7, <2>8 DEF Lifecycle!CutShort, Shows
  <2> QED
    BY <2>9 DEF LifeStep
<1> QED
  BY <1>2, KeepsLife

LEMMA RewriteLife ==
  ASSUME TypeInv, NEW i \in Imports, NEW a \in Attempts, Rewrites(i, a)
  PROVE  Lifecycle!Becomes(i, Shown(a)) /\ ~Lifecycle!Over(i)
<1>1. Shows' = [Shows EXCEPT ![i] = [Shows[i] EXCEPT ![Len(Shows[i])] = Shown(a)]]
  BY ShowsLatest
<1>2. Unended(i)
  BY DEF Rewrites, Unended
<1> QED
  BY <1>1, <1>2, OverFact DEF Lifecycle!Becomes, Shows

\* Begin: by SoleInv nothing else runs, unless the disk has failed.
LEMMA RunLife ==
  ASSUME LifeInv, Begin
  PROVE  LifeStep
<1>1. TypeInv /\ HeldInv /\ SoleInv /\ boot = "up" /\ worker \notin Active
  BY DEF LifeInv, Base, Begin, Active
<1>2. PICK j \in Imports : j = it
  BY <1>1, BeginFact
<1>3. ASSUME NEW a \in Attempts, a = [Latest(j) EXCEPT !.status = "running"], a.status = "running",
             Latest(j).status = "queued", Rewrites(j, a)
      PROVE  LifeStep
  <2>1. Lifecycle!Becomes(j, Shown(a))
    BY <1>1, <1>3, RewriteLife
  <2>2. record[j] # <<>> /\ Latest(j) \in Attempts /\ Last(Shows[j]) = Shown(Latest(j))
    BY <1>1, <1>3, LatestFact, ShowsFact DEF Rewrites
  <2>3. Shown(a) = [Shown(Latest(j)) EXCEPT !.state = "running"]
    <3>1. PICK b \in Attempts : b = Latest(j)
      BY <2>2
    <3>2. b.status = "queued" /\ a.status = "running" /\ a.removal = b.removal
      BY <1>3, <3>1 DEF Attempts
    <3>3. PICK e, c : e = Every("unlisted") /\ c = FALSE
      OBVIOUS
    <3>4. /\ Shown(a) = [state |-> "running", packages |-> e, checked |-> c, removal |-> b.removal]
          /\ Shown(b) = [state |-> "queued", packages |-> e, checked |-> c, removal |-> b.removal]
      BY <3>2, <3>3 DEF Shown
    <3>5. [[state |-> "queued", packages |-> e, checked |-> c, removal |-> b.removal]
             EXCEPT !.state = "running"]
            = [state |-> "running", packages |-> e, checked |-> c, removal |-> b.removal]
      OBVIOUS
    <3> QED
      BY <3>1, <3>4, <3>5
  <2>4. Lifecycle!Is(j, "queued")
    BY <1>1, <1>3, <2>2, OverFact DEF Status, Open
  <2>5. faults > 0 \/ \A k \in Imports : ~Lifecycle!Is(k, "running")
    <3>1. faults \in Nat
      BY <1>1 DEF TypeInv
    <3>2. faults = 0 => \A k \in Imports : Status(k) # "running"
      BY <1>1 DEF SoleInv
    <3>3. \A k \in Imports : Lifecycle!Is(k, "running") <=> Status(k) = "running"
      BY <1>1, OverFact DEF Open
    <3> QED
      BY <3>1, <3>2, <3>3
  <2>6. Lifecycle!Becomes(j, [Last(Shows[j]) EXCEPT !.state = "running"])
    BY <2>1, <2>2, <2>3 DEF Lifecycle!Becomes
  <2>7. Lifecycle!Run(j)
    BY <2>4, <2>5, <2>6 DEF Lifecycle!Run, Lifecycle!Last, Last, Shows
  <2> QED
    BY <2>7 DEF LifeStep
<1> QED
  BY <1>1, <1>2, <1>3, BeginFact, KeepsLife

\* Listed, Checked and Ended: nothing of it is final.
LEMMA TellLife ==
  ASSUME LifeInv, it \in Imports, record[it] # <<>>, NEW a \in Attempts, TellsMore(a)
  PROVE  LifeStep
<1>1. TypeInv
  BY DEF LifeInv, Base
<1>2. PICK j \in Imports : j = it
  OBVIOUS
<1>3. record[j] # <<>> /\ Rewrites(j, a) /\ a.status = Latest(j).status /\ a.removal = Latest(j).removal
      /\ a.status = "running"
  BY <1>2 DEF TellsMore
<1>4. Shown(a) = Shown(Latest(j))
  BY <1>3 DEF Shown
<1>5. Shows' = [Shows EXCEPT ![j] = [Shows[j] EXCEPT ![Len(Shows[j])] = Shown(a)]]
  BY <1>1, <1>3, ShowsLatest
<1>6. Shows \in [Imports -> Seq(Views)] /\ Shows[j] # <<>> /\ Last(Shows[j]) = Shown(Latest(j))
  BY <1>1, <1>3, ShowsFact
<1>7. Shows[j][Len(Shows[j])] = Shown(a)
  BY <1>4, <1>6, SeqFact
<1> HIDE DEF Shows
<1>8. Shows' = Shows
  BY <1>5, <1>6, <1>7
<1> QED
  BY <1>8 DEF LifeStep

\* Finish.
LEMMA EndLife ==
  ASSUME LifeInv, Finish
  PROVE  LifeStep
<1>1. TypeInv /\ HeldInv /\ ReportInv /\ BegunInv /\ ToldInv /\ worker = "finishing"
  BY DEF LifeInv, Base, Finish
<1>2. PICK j \in Imports : j = it
  BY <1>1, FinishFact
<1>3. ASSUME NEW a \in Attempts, a.status = "ended", a.outcome = rep.outcome,
             a.packages = rep.packages, a.checked = rep.checked, a.removal = "none",
             Rewrites(j, a), Len(record[j]) = n
      PROVE  Lifecycle!End(j)
  <2>1. Lifecycle!Becomes(j, Shown(a))
    BY <1>1, <1>3, RewriteLife
  <2>2. Shown(a) = Reported
    BY <1>3 DEF Shown, Reported
  <2>3. Lifecycle!True(Reported) /\ rep.outcome \in Outcomes
    BY <1>1 DEF ToldInv
  <2>4. Reported \in Lifecycle!Reports({"complete", "refused"} \cup Lifecycle!Cut)
    <3>1. rep.packages \in [Packages -> PackageStates] /\ rep.checked \in BOOLEAN
      BY <1>1 DEF TypeInv, Reports
    <3>2. rep.packages \in [Packages -> {"published", "present"} \cup {"unlisted", "failed"}]
      BY <1>3, <3>1 DEF Rewrites, Quiet, PackageStates
    <3> QED
      BY <2>3, <3>1, <3>2
         DEF Reported, Outcomes, Lifecycle!Reports, Lifecycle!Cut, Lifecycle!Claims
  <2>5. Lifecycle!Is(j, "running")
    <3>1. record[j] # <<>> /\ Latest(j) = record[j][n] /\ Latest(j).status # "ended"
          /\ Latest(j) \in Attempts
      BY <1>1, <1>3, LatestFact DEF Rewrites
    <3>2. Latest(j).status # "queued"
      BY <1>1, <1>2, <3>1 DEF BegunInv, Active
    <3>3. Status(j) = "running"
      BY <3>1, <3>2 DEF Status, Attempts
    <3> QED
      BY <1>1, <3>3, OverFact DEF Open
  <2> QED
    BY <2>1, <2>2, <2>3, <2>4, <2>5 DEF Lifecycle!End
<1> QED
  BY <1>1, <1>2, <1>3, FinishFact, KeepsLife DEF LifeStep

\* Removed.
LEMMA NoteLife ==
  ASSUME TypeInv, NEW r \in Removals, Noted(r)
  PROVE  LifeStep
<1>1. PICK j \in Imports, m \in DOMAIN record[it] :
        /\ j = it /\ m = n /\ m \in DOMAIN record[j]
        /\ record[j][m].status = "ended" /\ record[j][m].outcome = "complete"
        /\ record[j][m].removal = "none"
        /\ record' = [record EXCEPT ![j][m] = [record[j][m] EXCEPT !.removal = r]]
  BY DEF Noted
<1>2. record[j] \in Seq(Attempts) /\ record[j][m] \in Attempts
  BY <1>1 DEF TypeInv
<1> DEFINE a == [record[j][m] EXCEPT !.removal = r]
           t == [record[j] EXCEPT ![m] = a]
<1>3. a \in Attempts /\ Shown(a) = [Shown(record[j][m]) EXCEPT !.removal = r]
  <2>1. PICK b \in Attempts : b = record[j][m]
    BY <1>2
  <2>2. [b EXCEPT !.removal = r] \in Attempts
    BY DEF Attempts
  <2>3. Shown([b EXCEPT !.removal = r]) = [Shown(b) EXCEPT !.removal = r]
    BY <1>1, <2>1 DEF Attempts, Shown
  <2> QED
    BY <2>1, <2>2, <2>3
<1>4. Shown(record[j][m]).state = "complete" /\ Shown(record[j][m]).removal = "none"
      /\ Shown(record[j][m]) \in Views
  BY <1>1, <1>2, ShownFact DEF Shown
<1>5. record' = [record EXCEPT ![j] = t]
  BY <1>1
<1> HIDE DEF a
<1>6. /\ t \in Seq(Attempts) /\ DOMAIN t = DOMAIN record[j] /\ t[m] = a
      /\ \A k \in DOMAIN record[j] : k # m => t[k] = record[j][k]
  BY <1>1, <1>2, <1>3, ExceptFact
<1> HIDE DEF t
<1>7. /\ record' \in [Imports -> Seq(Attempts)] /\ record'[j] = t
      /\ \A k \in Imports : k # j => record'[k] = record[k]
  BY <1>5, <1>6 DEF TypeInv
<1>8. Shows' = [Shows EXCEPT ![j] = [Shows[j] EXCEPT ![m] = Shown(a)]]
  BY <1>1, <1>3, <1>6, <1>7, ShowsRewrite
<1>9. /\ Shows \in [Imports -> Seq(Views)] /\ m \in DOMAIN Shows[j]
      /\ Shows[j][m] = Shown(record[j][m])
  BY <1>1, ShowsFact
<1>10. CASE r = "none"
  <2>1. Shown(a) = Shows[j][m]
    BY <1>3, <1>4, <1>9, <1>10 DEF Views
  <2> HIDE DEF Shows
  <2>2. Shows' = Shows
    BY <1>8, <1>9, <2>1
  <2> QED
    BY <2>2 DEF LifeStep
<1>11. CASE r # "none"
  <2>1. r \in {"kept", "removed"}
    BY <1>11 DEF Removals
  <2>2. Shows' = [Shows EXCEPT ![j][m].removal = r]
    <3> HIDE DEF Shows
    <3> QED
      BY <1>3, <1>8, <1>9
  <2>3. Shows[j][m].state = "complete" /\ Shows[j][m].removal = "none"
    BY <1>4, <1>9
  <2>4. Lifecycle!Note(j, m)
    BY <2>1, <2>2, <2>3 DEF Lifecycle!Note, Shows
  <2> QED
    BY <1>9, <2>4 DEF LifeStep
<1> QED
  BY <1>10, <1>11

\* Sweep: every import it can write loses its open attempt, which is its latest.
LEMMA SweepLife ==
  ASSUME LifeInv, Sweeps
  PROVE  LifeStep
<1>1. TypeInv /\ LaterInv
  BY DEF LifeInv, Base
<1>2. PICK S \in SUBSET Imports : S = {i \in Imports : i \notin unswept' /\ Unended(i)}
  OBVIOUS
<1>3. PICK r : r = [i \in S |-> Shown(CutShort(Latest(i), "interrupted"))]
  OBVIOUS
<1>4. r \in [S -> Lifecycle!Reports(Lifecycle!Cut)]
  <2>1. \A i \in S : Latest(i) \in Attempts
    BY <1>1, <1>2, LatestFact DEF Unended
  <2>2. \A i \in S : Shown(CutShort(Latest(i), "interrupted")) \in Lifecycle!Reports(Lifecycle!Cut)
    BY <2>1, CutReport
  <2> QED
    BY <1>3, <2>2
<1>5. \A i \in S : ~Lifecycle!Over(i)
  BY <1>1, <1>2, OverFact
<1>6. ASSUME NEW i \in Imports
      PROVE  Shows'[i] = IF i \in S THEN [Shows[i] EXCEPT ![Len(Shows[i])] = r[i]] ELSE Shows[i]
  <2>1. /\ DOMAIN record'[i] = DOMAIN record[i] /\ DOMAIN Shows[i] = DOMAIN record[i]
        /\ Len(Shows[i]) = Len(record[i])
        /\ \A m \in DOMAIN record[i] : Shows[i][m] = Shown(record[i][m])
        /\ Shows[i] = [m \in DOMAIN record[i] |-> Shown(record[i][m])]
    BY <1>1, ShowsFact DEF Sweeps, Shows
  <2>2. Shows'[i] = [m \in DOMAIN record[i] |-> Shown(record'[i][m])]
    <3>1. Shows'[i] = [m \in DOMAIN record'[i] |-> Shown(record'[i][m])]
      BY DEF Shows, Shown
    <3> QED
      BY <2>1, <3>1
  <2>3. CASE i \in S
    <3>1. /\ record[i] # <<>> /\ Latest(i) = record[i][Len(record[i])] /\ Latest(i).status # "ended"
          /\ Len(record[i]) \in DOMAIN record[i] /\ i \notin unswept'
      BY <1>1, <1>2, <2>3, LatestFact DEF Unended
    <3>2. record'[i][Len(record[i])] = CutShort(Latest(i), "interrupted")
      BY <3>1 DEF Sweeps
    <3>3. Shown(record'[i][Len(record[i])]) = r[i]
      BY <1>3, <2>3, <3>2
    <3>4. \A m \in DOMAIN record[i] : m # Len(record[i]) => record'[i][m] = record[i][m]
      BY <1>1, <3>1 DEF LaterInv, Sweeps
    <3>5. \A m \in DOMAIN record[i] :
            Shown(record'[i][m]) = IF m = Len(record[i]) THEN r[i] ELSE Shows[i][m]
      BY <2>1, <3>3, <3>4
    <3>6. [Shows[i] EXCEPT ![Len(Shows[i])] = r[i]]
            = [m \in DOMAIN record[i] |-> IF m = Len(record[i]) THEN r[i] ELSE Shows[i][m]]
      <4> HIDE DEF Shows
      <4> QED
        BY <2>1
    <3> QED
      BY <2>2, <2>3, <3>5, <3>6
  <2>4. CASE i \notin S
    <3>1. \A m \in DOMAIN record[i] : record'[i][m] = record[i][m]
      <4>1. CASE i \in unswept'
        BY <4>1 DEF Sweeps
      <4>2. CASE i \notin unswept' /\ ~Unended(i)
        <5>1. \A m \in DOMAIN record[i] : record[i][m].status = "ended"
          <6>1. CASE record[i] = <<>>
            BY <6>1
          <6>2. CASE record[i] # <<>>
            <7>1. Latest(i) = record[i][Len(record[i])] /\ Latest(i).status = "ended"
              BY <1>1, <4>2, <6>2, LatestFact DEF Unended
            <7> QED
              BY <1>1, <7>1 DEF LaterInv
          <6> QED
            BY <6>1, <6>2
        <5> QED
          BY <4>2, <5>1 DEF Sweeps
      <4> QED
        BY <1>2, <2>4, <4>1, <4>2
    <3>2. \A m \in DOMAIN record[i] : Shown(record'[i][m]) = Shown(record[i][m])
      BY <3>1
    <3> QED
      BY <2>1, <2>2, <2>4, <3>2
  <2> QED
    BY <2>3, <2>4
<1>7. Shows' = [i \in Imports |-> Shows'[i]]
  BY DEF Shows
<1>8. Shows' = [i \in Imports |->
        IF i \in S THEN [Shows[i] EXCEPT ![Len(Shows[i])] = r[i]] ELSE Shows[i]]
  <2> HIDE DEF Shows
  <2> QED
    BY <1>6, <1>7
<1>9. Lifecycle!CutShort(S)
  BY <1>4, <1>5, <1>8 DEF Lifecycle!CutShort, Shows
<1> QED
  BY <1>9 DEF LifeStep

LEMMA LifeStepHolds ==
  ASSUME LifeInv, [ImportNext]_importVars
  PROVE  LifeStep
<1>1. TypeInv /\ HeldInv /\ ReportInv /\ EndedInv
  BY DEF LifeInv, Base
<1>2. CASE UNCHANGED importVars
  BY <1>2, KeepsLife DEF importVars, storeVars, Keeps
<1>3. CASE Still
  BY <1>3, StillKeeps, KeepsLife
<1>4. CASE Stopping
  <2>1. handler.about \in Imports
    BY <1>1, <1>4 DEF Stopping, HeldInv
  <2> QED
    BY <1>1, <1>4, <2>1, CutLife DEF Stopping
<1>5. CASE Abandon \/ RunPanics
  <2>1. it \in Imports
    BY <1>1, <1>5 DEF Abandon, RunPanics, HeldInv, Free
  <2>2. PICK j \in Imports : j = it
    BY <2>1
  <2>3. PICK o \in {"interrupted", "incomplete"} : EndUnfinished(j, o) \/ EndUnfinishedFails(j, o)
    BY <1>5, <2>2 DEF Abandon, RunPanics
  <2> QED
    BY <1>1, <2>3, CutLife
<1>6. CASE Begin
  BY <1>6, RunLife
<1>7. CASE Finish
  BY <1>7, EndLife
<1>8. CASE Removed
  BY <1>1, <1>8, RemovedFact, NoteLife, KeepsLife
<1>9. CASE Sweep
  BY <1>1, <1>9, SweepFact, SweepLife
<1>10. CASE Listed \/ Checked \/ (\E p \in Packages, s \in {"published", "present", "failed"} : Ended(p, s))
  BY <1>1, <1>10, RunTells, TellLife, KeepsLife
<1>11. ASSUME NEW i \in Imports, Create(i) \/ Retry(i) PROVE LifeStep
  BY <1>1, <1>11, AddsFact, AddsLife DEF LifeStep
<1>12. RunStep => Still \/ RunPanics \/ Listed \/ Checked
                  \/ (\E p \in Packages, s \in {"published", "present", "failed"} : Ended(p, s))
  BY DEF RunStep, Still, Outcomes, Removals
<1>13. QueueStep => Still \/ Stopping \/ Begin \/ Abandon \/ Finish \/ Removed \/ Sweep
  BY DEF QueueStep, Still
<1> QED
  BY <1>2, <1>3, <1>4, <1>5, <1>6, <1>7, <1>8, <1>9, <1>10, <1>11, <1>12, <1>13 DEF ImportNext

LEMMA LifeNext ==
  ASSUME LifeInv, [ImportNext]_importVars
  PROVE  [Lifecycle!Next]_(Lifecycle!vars)
<1>1. (faults > 0)' \in {faults > 0, TRUE}
  <2>1. faults \in Nat /\ faults' \in Nat /\ faults' >= faults
    BY FaultsGrow DEF LifeInv
  <2>2. CASE faults' > 0
    <3>1. (faults > 0)' = TRUE
      BY <2>2
    <3> QED
      BY <3>1, Zenon
  <2>3. CASE ~(faults' > 0)
    <3>1. (faults > 0)' = (faults > 0)
      BY <2>1, <2>3
    <3> QED
      BY <3>1, Zenon
  <2> QED
    BY <2>2, <2>3
<1>2. \/ \E i \in Imports : \/ Lifecycle!Try(i) \/ Lifecycle!Run(i) \/ Lifecycle!End(i)
                            \/ \E m \in DOMAIN Shows[i] : Lifecycle!Note(i, m)
      \/ \E S \in SUBSET Imports : Lifecycle!CutShort(S)
      \/ Shows' = Shows
  BY LifeStepHolds DEF LifeStep
<1>3. Lifecycle!Next
  BY <1>1, <1>2 DEF Lifecycle!Next, Shows
<1> QED
  BY <1>3

LEMMA LifeInit == ImportInit => Lifecycle!Init
<1> SUFFICES ASSUME ImportInit PROVE Lifecycle!Init
  OBVIOUS
<1>1. record = [i \in Imports |-> <<>>] /\ faults = 0
  BY DEF ImportInit
<1>2. \A i \in Imports : [m \in DOMAIN record[i] |-> Shown(record[i][m])] = <<>>
  BY <1>1
<1>3. ~(faults > 0)
  BY <1>1
<1> QED
  BY <1>2, <1>3 DEF Lifecycle!Init

\* Whatever fails, stops or comes late, the store and the queue keep what
\* ImportLifecycle promises: an import is tried again only when its last attempt
\* is over, attempts run one at a time and once, what an ended one says is true
\* and stays, and one that did not run to its end says so.
THEOREM CycleImplemented == ImportSpec => ImplementsImportLifecycle
<1>1. LifeInv /\ [ImportNext]_importVars => LifeInv'
  BY LifeInvStep
<1>2. LifeInv /\ [ImportNext]_importVars => [Lifecycle!Next]_(Lifecycle!vars)
  BY LifeNext
<1> QED
  BY <1>1, <1>2, LifeInvInit, LifeInit, PTL
     DEF ImportSpec, ImplementsImportLifecycle, Lifecycle!Spec

-----------------------------------------------------------------------------
(* ImportRun: an attempt's run and its remover, step by step                *)

RunTypeInv ==
  /\ objects \in Objects /\ nexus \in [Packages -> Copies]
  /\ described \in [Imports -> Objects] /\ recorded \in [Imports -> Objects]
  /\ raced \in BOOLEAN /\ changes \in Nat
  /\ step \in {"head", "manifest", "archive", "repository", "failing", "fetch", "upload", "readback"}

\* How far the run got is what its report says.
StepInv ==
  /\ worker \notin {"running", "removing"} => step = "head"
  /\ worker = "removing" => step \in {"head", "archive", "manifest"}
  /\ worker \in Free \cup {"took", "began"} => rep = NoReport
  /\ worker = "running" =>
       /\ step \in {"head", "manifest"} => rep.packages = Every("unlisted") /\ ~rep.checked
       /\ step = "archive" => rep.packages = Every("pending") /\ ~rep.checked
       /\ step \notin {"head", "manifest"} => \A p \in Packages : rep.packages[p] # "unlisted"
       /\ step \in {"repository", "fetch", "upload", "readback"} => rep.checked
       /\ step \in {"upload", "readback"} => Pending # {}

\* The packages are taken in their order: while one is pending there is a first.
LEMMA FirstFact ==
  ASSUME Pending # {}
  PROVE  First \in Packages /\ rep.packages[First] = "pending"
<1>1. PackageCount \in Nat /\ Pending \subseteq Nat
  BY ImportAssumption DEF Pending, Packages
<1>2. PICK m \in Pending : \A o \in Pending : ~(<<o, m>> \in OpToRel(<, Nat))
  BY <1>1, WFMin, NatLessThanWellFounded, Zenon
<1>3. ASSUME NEW o \in Pending PROVE ~(o < m)
  BY <1>1, <1>2, <1>3, Zenon DEF OpToRel
<1>4. \A o \in Pending : m <= o
  BY <1>1, <1>3
<1>5. First \in Pending
  BY <1>2, <1>4 DEF First
<1> QED
  BY <1>5 DEF Pending

QueueWork ==
  \/ Submit \/ Stopping \/ NextStops \/ NextTakes \/ NextWaits \/ NextWakes
  \/ Begin \/ Get \/ Abandon \/ Judge \/ Finish \/ Clean \/ Removed
  \/ Close \/ Sweep \/ SweepWork
MinioSteps == HeadObjects \/ ReadManifest \/ ReadArchive
NexusSteps == CheckRepository \/ FailEvery \/ Fetch \/ Upload \/ ReadBack \/ PublishedEach
RemoveSteps == CheckAgain \/ DeleteArchive \/ DeleteManifest
WorldSteps ==
  \/ \E o \in {"archive", "manifest"}, v \in Versions \cup {Gone} : Put(o, v)
  \/ \E p \in Packages, c \in Copies : PublishElsewhere(p, c)

LEMMA RunNextFact ==
  RunNext <=> \/ QueueWork /\ UNCHANGED runVars
              \/ StopRun
              \/ \E i \in Imports : CheckArchive(i) \/ StartImport(i) \/ RetryImport(i)
              \/ boot = "up" /\ (MinioSteps \/ NexusSteps \/ Panic \/ RemoveSteps)
              \/ WorldSteps
BY DEF RunNext, QueueSteps, QueueWork, MinioSteps, NexusSteps, RemoveSteps, WorldSteps

\* A step of the run is one that the queue expects of it, or none of its business.
LEMMA RunStepFact ==
  ASSUME TypeInv, StepInv, [RunNext]_vars
  PROVE  \/ QueueStep \/ RunStep \/ UNCHANGED importVars
         \/ \E i \in Imports : (StartImport(i) /\ Create(i)) \/ (RetryImport(i) /\ Retry(i))
<1>1. CASE UNCHANGED vars
  BY <1>1 DEF vars
<1>2. CASE QueueWork
  BY <1>2 DEF QueueWork, QueueStep
<1>3. CASE StopRun
  BY <1>3 DEF StopRun, QueueStep
<1>4. ASSUME NEW i \in Imports, CheckArchive(i) \/ StartImport(i) \/ RetryImport(i)
      PROVE  \/ UNCHANGED importVars
             \/ (StartImport(i) /\ Create(i)) \/ (RetryImport(i) /\ Retry(i))
  <2>1. CheckArchive(i) => UNCHANGED importVars
    BY DEF CheckArchive
  <2>2. RetryImport(i) => Retry(i)
    BY DEF RetryImport
  <2>3. StartImport(i) => Create(i) \/ UNCHANGED importVars
    BY DEF StartImport
  <2> QED
    BY <1>4, <2>1, <2>2, <2>3
<1>5. CASE MinioSteps
  <2>1. worker = "running" /\ step \in {"head", "manifest", "archive"}
    BY <1>5 DEF MinioSteps, HeadObjects, ReadManifest, ReadArchive, At
  <2>2. ~rep.checked
    BY <2>1 DEF StepInv
  <2>3. step \in {"head", "manifest"} => \A p \in Packages : rep.packages[p] # "pending"
    BY <2>1 DEF StepInv, Every
  <2>4. \/ Listed \/ Checked \/ UNCHANGED importVars \/ RunReturns("refused", FALSE)
        \/ step \in {"head", "manifest"} /\ RunReturns("incomplete", FALSE)
    BY <1>5 DEF MinioSteps, HeadObjects, ReadManifest, ReadArchive, At, Return, QuietQueue
  <2> QED
    BY <2>2, <2>3, <2>4 DEF RunStep
<1>6. CASE NexusSteps
  <2>1. worker = "running" /\ step \notin {"head", "manifest"}
    BY <1>6 DEF NexusSteps, CheckRepository, FailEvery, Fetch, Upload, ReadBack, PublishedEach, At
  <2>2. \/ UNCHANGED importVars
        \/ Pending # {} /\ \E s \in {"published", "present", "failed"} : Ended(First, s)
        \/ Pending = {} /\ RunReturns("incomplete", FALSE)
        \/ /\ Pending = {} /\ step = "fetch" /\ \A p \in Packages : rep.packages[p] # "failed"
           /\ RunReturns("complete", TRUE)
    BY <1>6, <2>1 DEF NexusSteps, CheckRepository, FailEvery, Fetch, Upload, ReadBack, PublishedEach, At,
                      Return, QuietQueue, StepInv
  <2>3. Pending = {} => \A p \in Packages : rep.packages[p] # "pending"
    BY DEF Pending
  <2>4. step = "fetch" => rep.checked
    BY <2>1 DEF StepInv
  <2> QED
    BY <2>2, <2>3, <2>4, FirstFact DEF RunStep
<1>7. CASE Panic
  BY <1>7 DEF Panic, RunStep
<1>8. CASE RemoveSteps
  <2>1. UNCHANGED importVars \/ \E rm \in {"kept", "removed"} : RemoverReturns(rm)
    BY <1>8 DEF RemoveSteps, CheckAgain, DeleteArchive, DeleteManifest, Removes, QuietQueue
  <2> QED
    BY <2>1 DEF RunStep
<1>9. CASE WorldSteps
  BY <1>9 DEF WorldSteps, Put, PublishElsewhere
<1> QED
  BY <1>1, <1>2, <1>3, <1>4, <1>5, <1>6, <1>7, <1>8, <1>9, RunNextFact

LEMMA RunStepRefines ==
  ASSUME TypeInv, StepInv, [RunNext]_vars
  PROVE  [ImportNext]_importVars
BY RunStepFact DEF ImportNext

\* What the steps of the queue do to the worker.
LEMMA QueueWorkFact ==
  ASSUME TypeInv, HeldInv, QueueWork
  PROVE  \/ UNCHANGED <<worker, it, n, rep, remover, removal>>
         \/ ProcessReturns /\ worker \in {"abandoning", "removed", "cleaning"}
         \/ /\ worker \in Free /\ worker' \in Free \cup {"took"}
            /\ UNCHANGED <<rep, remover, removal>>
         \/ /\ worker = "took" /\ worker' \in {"began", "abandoning"}
            /\ UNCHANGED <<it, rep, remover, removal>>
         \/ /\ worker = "began" /\ worker' \in {"running", "abandoning"}
            /\ UNCHANGED <<it, n, rep, remover, removal>>
         \/ /\ worker = "returned" /\ worker' = "finishing" /\ UNCHANGED <<it, n, removal>>
            /\ \/ UNCHANGED <<rep, remover>>
               \/ rep' = [rep EXCEPT !.outcome = "interrupted"] /\ remover' = FALSE
         \/ /\ worker = "finishing" /\ worker' \in {"cleaning", "abandoning"}
            /\ UNCHANGED <<it, n, rep, remover, removal>>
         \/ /\ worker = "cleaning" /\ UNCHANGED <<it, n, rep, remover, removal>>
            /\ (worker' = "removing" /\ remover) \/ worker' = "abandoning"
<1> USE DEF localVars, processVars, storeVars, worldVars
<1>1. CASE Submit \/ Stopping \/ Close \/ Sweep \/ SweepWork
  BY <1>1 DEF Submit, Stopping, Close, Sweep, SweepWork
<1>2. CASE NextStops \/ NextTakes \/ NextWaits \/ NextWakes
  BY <1>2 DEF NextStops, NextTakes, NextWaits, NextWakes, GoTo, Free
<1>3. CASE Begin
  BY <1>3 DEF Begin
<1>4. CASE Get
  BY <1>4 DEF Get, GoTo
<1>5. CASE Abandon \/ Removed
  BY <1>5 DEF Abandon, Removed
<1>6. CASE Judge
  BY <1>6 DEF Judge
<1>7. CASE Finish
  BY <1>7 DEF Finish, GoTo
<1>8. CASE Clean
  BY <1>8 DEF Clean, GoTo
<1> QED
  BY <1>1, <1>2, <1>3, <1>4, <1>5, <1>6, <1>7, <1>8 DEF QueueWork

\* What a package's end does to the report.
LEMMA EndedFact ==
  ASSUME TypeInv, Pending # {}, NEW s \in {"published", "present", "failed"}, Ended(First, s)
  PROVE  /\ worker = "running" /\ worker' = worker /\ it' = it /\ n' = n
         /\ remover' = remover /\ removal' = removal
         /\ rep'.checked = rep.checked /\ rep'.outcome = rep.outcome
         /\ rep'.packages[First] = s
         /\ \A p \in Packages : p # First => rep'.packages[p] = rep.packages[p]
<1>1. First \in Packages
  BY FirstFact
<1>2. rep.packages \in [Packages -> PackageStates] /\ rep \in Reports
  BY DEF TypeInv, Reports
<1>3. PICK q : q = [rep.packages EXCEPT ![First] = s]
  OBVIOUS
<1>4. rep' = [rep EXCEPT !.packages = q] /\ worker = "running"
      /\ UNCHANGED <<worker, it, n, remover, removal>>
  BY <1>3 DEF Ended
<1>5. q[First] = s /\ \A p \in Packages : p # First => q[p] = rep.packages[p]
  BY <1>1, <1>2, <1>3
<1>6. rep'.packages = q /\ rep'.checked = rep.checked /\ rep'.outcome = rep.outcome
  BY <1>2, <1>4 DEF Reports
<1> QED
  BY <1>4, <1>5, <1>6

\* What a step of the run does, by where it is.
LEMMA NexusFact ==
  ASSUME TypeInv, StepInv, NexusSteps
  PROVE  /\ worker = "running" /\ UNCHANGED <<minioVars, pastVars, it, n, removal>>
         /\ step \notin {"head", "manifest", "archive"}
         /\ \/ /\ UNCHANGED <<rep, remover, worker>>
               /\ \/ step = "repository" /\ step' \in {"fetch", "failing"} /\ nexus' = nexus
                  \/ step = "fetch" /\ step' = "upload" /\ Pending # {} /\ nexus' = nexus
                  \/ step = "upload" /\ step' = "readback" /\ nexus' = [nexus EXCEPT ![First] = "shipped"]
            \/ /\ Pending # {} /\ worker' = worker /\ step' \in {"fetch", "failing"}
               /\ step' = "fetch" => step \in {"fetch", "upload", "readback"}
               /\ \E s \in {"published", "present", "failed"} : Ended(First, s) /\ (s \in Claims => Serves(First))
               /\ nexus' \in {nexus, [nexus EXCEPT ![First] = "shipped"]}
            \/ /\ Pending = {} /\ worker' = "returned" /\ step' = "head" /\ nexus' = nexus
               /\ \/ RunReturns("incomplete", FALSE)
                  \/ /\ step = "fetch" /\ \A p \in Packages : rep.packages[p] # "failed"
                     /\ RunReturns("complete", TRUE)
<1> USE DEF QuietRun, QuietQueue, At, Return, importVars, processVars, localVars
<1>1. CASE CheckRepository
  BY <1>1 DEF CheckRepository
<1>2. CASE FailEvery
  <2>1. CASE Pending # {}
    <3>1. Ended(First, "failed") /\ step' = step /\ step = "failing" /\ worker = "running"
          /\ UNCHANGED <<minioVars, nexus, pastVars>>
      BY <1>2, <2>1 DEF FailEvery
    <3>2. worker' = worker /\ UNCHANGED <<it, n, removal>>
      BY <3>1 DEF Ended
    <3> QED
      BY <2>1, <3>1, <3>2 DEF Claims
  <2>2. CASE Pending = {}
    BY <1>2, <2>2 DEF FailEvery, RunReturns
  <2> QED
    BY <2>1, <2>2
<1>3. CASE Fetch
  <2>1. /\ step = "fetch" /\ worker = "running" /\ Pending # {} /\ UNCHANGED <<minioVars, nexus, pastVars>>
        /\ \/ step' = "upload" /\ UNCHANGED importVars
           \/ step' = step /\ Ended(First, "failed")
           \/ step' = step /\ Ended(First, "present") /\ nexus[First] \in {"shipped", "same"}
    BY <1>3 DEF Fetch
  <2>2. \A s : Ended(First, s) => worker' = worker /\ UNCHANGED <<it, n, removal>>
    BY DEF Ended
  <2> QED
    BY <2>1, <2>2 DEF Serves, Claims
<1>4. CASE Upload
  <2>1. /\ step = "upload" /\ worker = "running" /\ UNCHANGED <<minioVars, pastVars>>
        /\ \/ /\ nexus' = [nexus EXCEPT ![First] = "shipped"]
              /\ step' = "readback" /\ UNCHANGED importVars
           \/ /\ nexus' \in {nexus, [nexus EXCEPT ![First] = "shipped"]}
              /\ step' = "fetch" /\ Ended(First, "failed")
    BY <1>4 DEF Upload
  <2>2. \A s : Ended(First, s) => worker' = worker /\ UNCHANGED <<it, n, removal>>
    BY DEF Ended
  <2>3. Pending # {}
    BY <2>1 DEF StepInv
  <2> QED
    BY <2>1, <2>2, <2>3 DEF Claims
<1>5. CASE ReadBack
  <2>1. /\ step = "readback" /\ worker = "running" /\ UNCHANGED <<minioVars, pastVars, nexus>>
        /\ step' = "fetch"
        /\ \/ Ended(First, "published") /\ nexus[First] = "shipped"
           \/ Ended(First, "failed")
    BY <1>5 DEF ReadBack
  <2>2. \A s : Ended(First, s) => worker' = worker /\ UNCHANGED <<it, n, removal>>
    BY DEF Ended
  <2>3. Pending # {}
    BY <2>1 DEF StepInv
  <2> QED
    BY <2>1, <2>2, <2>3 DEF Serves, Claims
<1>6. CASE PublishedEach
  BY <1>6 DEF PublishedEach, RunReturns
<1> QED
  BY <1>1, <1>2, <1>3, <1>4, <1>5, <1>6 DEF NexusSteps

LEMMA MinioFact ==
  ASSUME TypeInv, StepInv, MinioSteps
  PROVE  /\ worker = "running" /\ UNCHANGED <<minioVars, pastVars, nexus, it, n, removal>>
         /\ \/ /\ UNCHANGED <<rep, remover, worker>>
               /\ \/ step = "head" /\ step' = "manifest"
                  \/ step = "archive" /\ step' = "failing"
            \/ /\ step = "manifest" /\ step' = "archive" /\ UNCHANGED <<remover, worker>>
               /\ rep' = [rep EXCEPT !.packages = Every("pending")]
            \/ /\ step = "archive" /\ step' = "repository" /\ UNCHANGED <<remover, worker>>
               /\ rep' = [rep EXCEPT !.checked = TRUE]
               /\ recorded[it].archive = recorded[it].manifest
            \/ /\ worker' = "returned" /\ step' = "head"
               /\ \E o \in {"refused", "incomplete"} : RunReturns(o, FALSE)
<1> USE DEF QuietRun, QuietQueue, At, Return, importVars, processVars, localVars
<1>1. CASE HeadObjects
  BY <1>1 DEF HeadObjects, RunReturns
<1>2. CASE ReadManifest
  BY <1>2 DEF ReadManifest, Listed, RunReturns
<1>3. CASE ReadArchive
  BY <1>3 DEF ReadArchive, Checked, RunReturns
<1> QED
  BY <1>1, <1>2, <1>3 DEF MinioSteps

LEMMA RunStepInv ==
  ASSUME TypeInv, HeldInv, RunTypeInv, StepInv, [RunNext]_vars
  PROVE  RunTypeInv' /\ StepInv'
<1> USE DEF runVars, minioVars, pastVars
<1>1. CASE UNCHANGED vars
  BY <1>1 DEF vars, importVars, processVars, localVars, RunTypeInv, StepInv, Pending
<1>2. CASE QueueWork /\ UNCHANGED runVars
  <2>1. RunTypeInv'
    BY <1>2 DEF RunTypeInv
  <2>2. StepInv'
    <3>1. step' = step
      BY <1>2
    <3>2. CASE ProcessReturns /\ worker \in {"abandoning", "removed", "cleaning"}
      BY <3>1, <3>2 DEF StepInv, ProcessReturns, Free
    <3>3. CASE worker = "returned" /\ worker' = "finishing"
      BY <3>1, <3>3 DEF StepInv, Free
    <3>4. CASE UNCHANGED <<worker, rep>>
      BY <3>1, <3>4 DEF StepInv, Pending
    <3>5. CASE /\ UNCHANGED rep
               /\ \/ worker \in Free /\ worker' \in Free \cup {"took"}
                  \/ worker = "took" /\ worker' \in {"began", "abandoning"}
                  \/ worker = "finishing" /\ worker' \in {"cleaning", "abandoning"}
                  \/ worker = "cleaning" /\ worker' \in {"removing", "abandoning"}
      BY <3>1, <3>5 DEF StepInv, Free
    <3>6. CASE UNCHANGED rep /\ worker = "began" /\ worker' \in {"running", "abandoning"}
      <4>1. rep' = NoReport /\ step' = "head"
        BY <3>1, <3>6 DEF StepInv
      <4> QED
        BY <3>6, <4>1 DEF StepInv, Free, NoReport
    <3> QED
      BY <1>2, <3>2, <3>3, <3>4, <3>5, <3>6, QueueWorkFact
  <2> QED
    BY <2>1, <2>2
<1>3. CASE StopRun
  <2>1. Nowhere \in Objects
    BY DEF Nowhere, Objects
  <2>2. RunTypeInv'
    BY <1>3, <2>1 DEF StopRun, RunTypeInv
  <2>3. StepInv'
    BY <1>3 DEF StopRun, Stop, ProcessReturns, StepInv
  <2> QED
    BY <2>2, <2>3
<1>4. ASSUME NEW i \in Imports, CheckArchive(i) \/ StartImport(i) \/ RetryImport(i)
      PROVE  RunTypeInv' /\ StepInv'
  <2>1. /\ UNCHANGED <<objects, nexus, step, raced, changes, worker, rep>>
        /\ described' \in {described, [described EXCEPT ![i] = objects], [described EXCEPT ![i] = Nowhere]}
        /\ recorded' \in {recorded, [recorded EXCEPT ![i] = described[i]]}
    BY <1>4 DEF CheckArchive, StartImport, RetryImport, Create, Retry, importVars, processVars, localVars
  <2>2. Nowhere \in Objects
    BY DEF Nowhere, Objects
  <2>3. RunTypeInv'
    BY <2>1, <2>2 DEF RunTypeInv
  <2>4. StepInv'
    BY <2>1 DEF StepInv, Pending
  <2> QED
    BY <2>3, <2>4
<1>5. CASE MinioSteps
  <2>1. RunTypeInv'
    BY <1>5, MinioFact DEF RunTypeInv
  <2>2. rep \in Reports
    BY DEF TypeInv
  <2>3. ASSUME worker' = "returned", step' = "head" PROVE StepInv'
    BY <2>3 DEF StepInv, Free
  <2>4. ASSUME UNCHANGED <<rep, worker>>,
               (step = "head" /\ step' = "manifest") \/ (step = "archive" /\ step' = "failing")
        PROVE  StepInv'
    BY <1>5, MinioFact, <2>4 DEF StepInv, Free, Every
  <2>5. ASSUME step' = "archive", worker' = worker, rep' = [rep EXCEPT !.packages = Every("pending")]
        PROVE  StepInv'
    <3>1. rep'.packages = Every("pending") /\ rep'.checked = rep.checked
      BY <2>2, <2>5 DEF Reports
    <3> QED
      BY <1>5, MinioFact, <2>5, <3>1 DEF StepInv, Free, Every
  <2>6. ASSUME step = "archive", step' = "repository", worker' = worker, rep' = [rep EXCEPT !.checked = TRUE]
        PROVE  StepInv'
    <3>1. rep'.packages = rep.packages /\ rep'.checked
      BY <2>2, <2>6 DEF Reports
    <3>2. rep.packages = Every("pending")
      BY <1>5, MinioFact, <2>6 DEF StepInv
    <3> QED
      BY <1>5, MinioFact, <2>6, <3>1, <3>2 DEF StepInv, Free, Every
  <2>7. StepInv'
    <3>1. \/ UNCHANGED <<rep, worker>> /\ step = "head" /\ step' = "manifest"
          \/ UNCHANGED <<rep, worker>> /\ step = "archive" /\ step' = "failing"
          \/ step' = "archive" /\ worker' = worker /\ rep' = [rep EXCEPT !.packages = Every("pending")]
          \/ /\ step = "archive" /\ step' = "repository" /\ worker' = worker
             /\ rep' = [rep EXCEPT !.checked = TRUE]
          \/ worker' = "returned" /\ step' = "head"
      BY <1>5, MinioFact
    <3> QED
      BY <3>1, <2>3, <2>4, <2>5, <2>6
  <2> QED
    BY <2>1, <2>7
<1>6. CASE NexusSteps
  <2>0. Pending # {} => First \in Packages
    BY FirstFact
  <2>1. RunTypeInv'
    BY <1>6, NexusFact, <2>0 DEF RunTypeInv, Copies
  <2>2. ASSUME worker' = "returned", step' = "head" PROVE StepInv'
    BY <2>2 DEF StepInv, Free
  <2>3. ASSUME Pending # {}, worker' = worker, step' \in {"fetch", "failing"},
               step' = "fetch" => step \in {"fetch", "upload", "readback"},
               NEW s \in {"published", "present", "failed"}, Ended(First, s)
        PROVE  StepInv'
    <3>1. worker = "running" /\ rep'.checked = rep.checked
          /\ \A p \in Packages : rep'.packages[p] \in {s, rep.packages[p]}
      BY <2>3, EndedFact
    <3>2. step \notin {"head", "manifest"}
      BY <1>6, NexusFact
    <3> QED
      BY <2>3, <3>1, <3>2 DEF StepInv, Free
  <2>4. ASSUME UNCHANGED <<rep, worker>>, worker = "running",
               \/ step = "repository" /\ step' \in {"fetch", "failing"}
               \/ step = "fetch" /\ step' = "upload" /\ Pending # {}
               \/ step = "upload" /\ step' = "readback"
        PROVE  StepInv'
    BY <2>4 DEF StepInv, Pending, Free
  <2> QED
    BY <1>6, NexusFact, <2>1, <2>2, <2>3, <2>4
<1>7. CASE Panic
  <2>1. RunTypeInv'
    BY <1>7 DEF Panic, QuietRun, RunTypeInv
  <2>2. /\ step' = "head" /\ worker' \in {"checking", "abandoning"}
        /\ worker' = "checking" => rep' = NoReport
    BY <1>7 DEF Panic, RunPanics, ProcessReturns, GoTo
  <2>3. StepInv'
    BY <2>2 DEF StepInv, Free
  <2> QED
    BY <2>1, <2>3
<1>8. CASE RemoveSteps
  <2>1. /\ UNCHANGED <<nexus, described, recorded, changes, rep>> /\ raced' \in BOOLEAN
        /\ objects' \in {objects, [objects EXCEPT !.archive = Gone], [objects EXCEPT !.manifest = Gone]}
        /\ \/ UNCHANGED worker /\ worker = "removing" /\ step' \in {"archive", "manifest"}
           \/ worker' = "removed" /\ step' = "head"
    BY <1>8 DEF RemoveSteps, CheckAgain, DeleteArchive, DeleteManifest, Removing, Removes, RemoverReturns,
                QuietQueue, importVars, processVars, localVars, TakeArchive, RunTypeInv
  <2>2. RunTypeInv'
    BY <2>1 DEF RunTypeInv, Objects
  <2>3. StepInv'
    BY <2>1 DEF StepInv, Free
  <2> QED
    BY <2>2, <2>3
<1>9. CASE WorldSteps
  <2>1. StepInv'
    BY <1>9 DEF WorldSteps, Put, PublishElsewhere, importVars, processVars, localVars, StepInv, Pending
  <2>2. ASSUME NEW o \in {"archive", "manifest"}, NEW v \in Versions \cup {Gone}, Put(o, v)
        PROVE  RunTypeInv'
    BY <2>2 DEF Put, RunTypeInv, Objects
  <2>3. ASSUME NEW p \in Packages, NEW c \in Copies, PublishElsewhere(p, c)
        PROVE  RunTypeInv'
    BY <2>3 DEF PublishElsewhere, RunTypeInv
  <2> QED
    BY <1>9, <2>1, <2>2, <2>3 DEF WorldSteps
<1> QED
  BY <1>1, <1>2, <1>3, <1>4, <1>5, <1>6, <1>7, <1>8, <1>9, RunNextFact

-----------------------------------------------------------------------------
(* No record and no report says more of Nexus than is true                  *)

\* The report, and what the remover may rely on when it is called for.
ReportTrue ==
  /\ \A p \in Packages : rep.packages[p] \in Claims => Serves(p)
  /\ worker \in {"returned", "finishing"} /\ rep.outcome = "complete" =>
       rep.checked /\ \A p \in Packages : rep.packages[p] \in Claims
  /\ remover => rep.outcome = "complete"
  /\ rep.checked => recorded[it].archive = recorded[it].manifest

LEMMA ServesStays ==
  ASSUME TypeInv, RunTypeInv, StepInv, [RunNext]_vars
  PROVE  \A p \in Packages : Serves(p) => Serves(p)'
<1> USE DEF runVars, minioVars, pastVars, Serves
<1>1. CASE nexus' = nexus
  BY <1>1
<1>2. CASE NexusSteps
  BY <1>2, NexusFact DEF RunTypeInv
<1>3. ASSUME NEW q \in Packages, NEW c \in Copies, PublishElsewhere(q, c)
      PROVE  \A p \in Packages : Serves(p) => Serves(p)'
  BY <1>3 DEF PublishElsewhere, RunTypeInv
<1>4. CASE ~NexusSteps /\ ~(\E q \in Packages, c \in Copies : PublishElsewhere(q, c))
  <2>1. StopRun \/ Panic \/ MinioSteps \/ RemoveSteps => nexus' = nexus
    BY DEF StopRun, Panic, MinioSteps, HeadObjects, ReadManifest, ReadArchive, QuietRun, RemoveSteps,
           CheckAgain, DeleteArchive, DeleteManifest
  <2>2. \A i \in Imports : CheckArchive(i) \/ StartImport(i) \/ RetryImport(i) => nexus' = nexus
    BY DEF CheckArchive, StartImport, RetryImport
  <2>3. \A o \in {"archive", "manifest"}, v \in Versions \cup {Gone} : Put(o, v) => nexus' = nexus
    BY DEF Put
  <2>4. nexus' = nexus
    BY <1>4, <2>1, <2>2, <2>3, RunNextFact DEF vars, WorldSteps
  <2> QED
    BY <2>4
<1> QED
  BY <1>2, <1>3, <1>4

\* The ETags of an import are fixed with its record.
LEMMA RecordedStays ==
  ASSUME RunTypeInv, [RunNext]_vars, NEW k \in Imports, record[k] # <<>>
  PROVE  recorded'[k] = recorded[k]
<1> USE DEF runVars, minioVars, pastVars
<1>1. ASSUME NEW i \in Imports, StartImport(i) PROVE recorded'[k] = recorded[k]
  BY <1>1 DEF StartImport, Create, RunTypeInv
<1>2. CASE ~(\E i \in Imports : StartImport(i))
  <2>1. StopRun \/ Panic \/ MinioSteps \/ RemoveSteps \/ NexusSteps => recorded' = recorded
    BY DEF StopRun, Panic, MinioSteps, HeadObjects, ReadManifest, ReadArchive, QuietRun, RemoveSteps,
           CheckAgain, DeleteArchive, DeleteManifest,
           NexusSteps, CheckRepository, FailEvery, Fetch, Upload, ReadBack, PublishedEach
  <2>2. \A i \in Imports : CheckArchive(i) \/ RetryImport(i) => recorded' = recorded
    BY DEF CheckArchive, RetryImport
  <2>3. WorldSteps => recorded' = recorded
    BY DEF WorldSteps, Put, PublishElsewhere
  <2>4. recorded' = recorded
    BY <1>2, <2>1, <2>2, <2>3, RunNextFact DEF vars
  <2> QED
    BY <2>4
<1> QED
  BY <1>1, <1>2

LEMMA ReportTrueStep ==
  ASSUME TypeInv, HeldInv, RunTypeInv, StepInv, ReportTrue, [RunNext]_vars
  PROVE  ReportTrue'
<1> USE DEF Claims, runVars, processVars, localVars
<1>1. /\ rep \in Reports
      /\ \A p \in Packages : rep.packages[p] \in PackageStates /\ (Serves(p) => Serves(p)')
  BY ServesStays DEF TypeInv, Reports
<1>2. rep.checked => (recorded'[it].archive = recorded'[it].manifest /\ worker \notin Free)
  <2>1. CASE worker \in Free
    BY <2>1 DEF StepInv, NoReport
  <2>2. CASE worker \notin Free
    <3>1. it \in Imports /\ record[it] # <<>>
      BY <2>2 DEF HeldInv
    <3> QED
      BY <2>2, <3>1, RecordedStays DEF ReportTrue
  <2> QED
    BY <2>1, <2>2
<1>3. ASSUME ProcessReturns PROVE ReportTrue'
  <2>1. rep' = NoReport /\ remover' = FALSE /\ worker' = "checking"
    BY <1>3 DEF ProcessReturns
  <2> QED
    BY <2>1 DEF ReportTrue, NoReport, Every
\* The report stays as it is.
<1>4. ASSUME UNCHANGED <<rep, remover>>, it' = it \/ worker \in Free,
             worker' \in {"returned", "finishing"} => worker \in {"returned", "finishing"}
      PROVE  ReportTrue'
  BY <1>1, <1>2, <1>4 DEF ReportTrue
\* The run goes on.
<1>5. ASSUME worker' = worker, worker = "running", it' = it, remover' = remover, rep'.outcome = rep.outcome,
             \A p \in Packages : rep'.packages[p] \in Claims => Serves(p)',
             rep'.checked => recorded'[it].archive = recorded'[it].manifest
      PROVE  ReportTrue'
  BY <1>5 DEF ReportTrue
\* It is over.
<1>6. ASSUME NEW o \in Outcomes, NEW rm \in BOOLEAN, RunReturns(o, rm), rm => o = "complete",
             o = "complete" => rep.checked /\ \A p \in Packages : rep.packages[p] \in Claims
      PROVE  ReportTrue'
  <2>1. it' = it /\ remover' = rm
        /\ rep' = [rep EXCEPT !.outcome = o,
                              !.packages = IF o = "refused" THEN Every("unlisted") ELSE @]
    BY <1>6 DEF RunReturns
  <2>2. /\ rep'.outcome = o /\ rep'.checked = rep.checked
        /\ rep'.packages = IF o = "refused" THEN Every("unlisted") ELSE rep.packages
    BY <1>1, <2>1 DEF Reports
  <2>3. \A p \in Packages : rep'.packages[p] \in Claims => rep.packages[p] \in Claims
    BY <2>2 DEF Every
  <2> QED
    BY <1>1, <1>2, <1>6, <2>1, <2>2, <2>3 DEF ReportTrue
<1>7. CASE UNCHANGED vars
  BY <1>4, <1>7 DEF vars, importVars
<1>8. CASE QueueWork
  <2>1. CASE /\ worker = "returned" /\ worker' = "finishing" /\ it' = it
             /\ rep' = [rep EXCEPT !.outcome = "interrupted"] /\ remover' = FALSE
    <3>1. rep'.packages = rep.packages /\ rep'.checked = rep.checked /\ rep'.outcome = "interrupted"
      BY <1>1, <2>1 DEF Reports
    <3> QED
      BY <1>1, <1>2, <2>1, <3>1 DEF ReportTrue
  <2> QED
    BY <1>3, <1>4, <1>8, <2>1, QueueWorkFact DEF Free
<1>9. CASE StopRun
  BY <1>3, <1>9 DEF StopRun, Stop
<1>10. ASSUME NEW i \in Imports, CheckArchive(i) \/ StartImport(i) \/ RetryImport(i)
       PROVE  ReportTrue'
  <2>1. UNCHANGED processVars
    BY <1>10 DEF CheckArchive, StartImport, RetryImport, Create, Retry, importVars
  <2> QED
    BY <1>4, <2>1
<1>11. CASE MinioSteps
  <2>1. CASE UNCHANGED <<rep, remover, worker>>
    BY <1>4, <1>11, <2>1, MinioFact
  <2>2. CASE /\ step = "manifest" /\ step' = "archive" /\ UNCHANGED <<remover, worker>>
             /\ rep' = [rep EXCEPT !.packages = Every("pending")]
    <3>1. rep'.packages = Every("pending") /\ rep'.checked = rep.checked /\ rep'.outcome = rep.outcome
      BY <1>1, <2>2 DEF Reports
    <3>2. \A p \in Packages : rep'.packages[p] \notin Claims
      BY <3>1 DEF Every
    <3> QED
      BY <1>2, <1>5, <1>11, <2>2, <3>1, <3>2, MinioFact
  <2>3. CASE /\ step = "archive" /\ step' = "repository" /\ UNCHANGED <<remover, worker>>
             /\ rep' = [rep EXCEPT !.checked = TRUE]
             /\ recorded[it].archive = recorded[it].manifest
    <3>1. rep'.packages = rep.packages /\ rep'.outcome = rep.outcome
      BY <1>1, <2>3 DEF Reports
    <3>2. worker = "running" /\ it' = it /\ UNCHANGED minioVars
      BY <1>11, MinioFact
    <3>3. recorded' = recorded
      BY <3>2 DEF minioVars
    <3> QED
      BY <1>1, <1>5, <2>3, <3>1, <3>2, <3>3 DEF ReportTrue
  <2>4. CASE \E o \in {"refused", "incomplete"} : RunReturns(o, FALSE)
    BY <1>6, <2>4 DEF Outcomes
  <2> QED
    BY <1>11, <2>1, <2>2, <2>3, <2>4, MinioFact
<1>12. CASE NexusSteps
  <2>0. worker = "running" /\ it' = it /\ UNCHANGED minioVars /\ step \notin {"head", "manifest"}
    BY <1>12, NexusFact
  <2>1. CASE UNCHANGED <<rep, remover, worker>>
    BY <1>4, <2>0, <2>1
  <2>2. ASSUME Pending # {}, NEW s \in {"published", "present", "failed"}, Ended(First, s),
               s \in Claims => Serves(First)
        PROVE  ReportTrue'
    <3>1. First \in Packages
      BY <2>2, FirstFact
    <3>2. /\ worker' = worker /\ remover' = remover
          /\ rep'.checked = rep.checked /\ rep'.outcome = rep.outcome /\ rep'.packages[First] = s
          /\ \A p \in Packages : p # First => rep'.packages[p] = rep.packages[p]
      BY <2>2, EndedFact
    <3>3. \A p \in Packages : rep'.packages[p] \in Claims => Serves(p)'
      BY <1>1, <2>2, <3>1, <3>2 DEF ReportTrue
    <3> QED
      BY <1>2, <1>5, <2>0, <3>2, <3>3
  <2>3. CASE RunReturns("incomplete", FALSE)
    BY <1>6, <2>3 DEF Outcomes
  <2>4. CASE /\ Pending = {} /\ step = "fetch" /\ RunReturns("complete", TRUE)
             /\ \A p \in Packages : rep.packages[p] # "failed"
    <3>1. rep.checked /\ \A p \in Packages : rep.packages[p] # "unlisted"
      BY <2>0, <2>4 DEF StepInv
    <3>2. \A p \in Packages : rep.packages[p] # "pending"
      BY <2>4 DEF Pending
    <3>3. \A p \in Packages : rep.packages[p] \in Claims
      BY <1>1, <2>4, <3>1, <3>2 DEF PackageStates
    <3> QED
      BY <1>6, <2>4, <3>1, <3>3 DEF Outcomes
  <2> QED
    BY <1>12, <2>1, <2>2, <2>3, <2>4, NexusFact
<1>13. CASE Panic
  <2>1. \/ ProcessReturns
        \/ UNCHANGED <<rep, remover, it>> /\ worker' = "abandoning"
    BY <1>13 DEF Panic, RunPanics, GoTo
  <2> QED
    BY <1>3, <1>4, <2>1
<1>14. CASE RemoveSteps
  <2>1. UNCHANGED <<rep, remover, it>> /\ worker' \in {worker, "removed"}
    BY <1>14 DEF RemoveSteps, CheckAgain, DeleteArchive, DeleteManifest, Removes, RemoverReturns,
                 QuietQueue, importVars
  <2> QED
    BY <1>4, <2>1
<1>15. CASE WorldSteps
  BY <1>4, <1>15 DEF WorldSteps, Put, PublishElsewhere, importVars
<1> QED
  BY <1>7, <1>8, <1>9, <1>10, <1>11, <1>12, <1>13, <1>14, <1>15, RunNextFact

-----------------------------------------------------------------------------
(* The records                                                              *)

\* What an attempt may say once the step is taken.
TrueAfter(a) ==
  /\ \A p \in Packages : a.packages[p] \in Claims => Serves(p)'
  /\ Completed(a) => \A p \in Packages : a.packages[p] \in Claims

\* The five ways again, and that what is written is true.
TrueEffect ==
  \/ Keeps
  \/ \E i \in Imports, a \in Attempts :
       Rewrites(i, a) /\ TrueAfter(a) /\ a.removal \in {"none", Latest(i).removal}
  \/ worker = "removed" /\ removal \in Removals /\ Noted(removal)
  \/ \E i \in Imports : Adds(i)
  \/ Sweeps

LEMMA CutShortTrue ==
  ASSUME NEW a \in Attempts, NEW o \in {"interrupted", "incomplete"},
         \A p \in Packages : a.packages[p] \in Claims => Serves(p)'
  PROVE  CutShort(a, o) \in Attempts /\ TrueAfter(CutShort(a, o)) /\ CutShort(a, o).removal = "none"
<1>1. a.packages \in [Packages -> PackageStates]
  BY DEF Attempts
<1>2. PICK q : q = Failing(a.packages)
  OBVIOUS
<1>3. \A p \in Packages : q[p] \in Claims => a.packages[p] \in Claims
  BY <1>1, <1>2 DEF Failing, Claims
<1>4. CutShort(a, o) = [a EXCEPT !.status = "ended", !.outcome = o, !.removal = "none", !.packages = q]
  BY <1>2 DEF CutShort
<1>5. PICK b : b = CutShort(a, o)
  OBVIOUS
<1>6. b.packages = q /\ b.outcome = o /\ b.removal = "none"
  BY <1>4, <1>5 DEF Attempts
<1>7. b \in Attempts
  BY <1>5, CutShortFact DEF Outcomes
<1> QED
  BY <1>3, <1>5, <1>6, <1>7 DEF TrueAfter, Completed

LEMMA AttemptType ==
  ASSUME TypeInv, NEW i \in Imports, NEW m \in DOMAIN record[i]
  PROVE  record[i][m] \in Attempts
BY DEF TypeInv

\* Each attempt on record after the step is one of these.
LEMMA AttemptsAfter ==
  ASSUME TypeInv, TrueEffect, NEW i \in Imports, NEW m \in DOMAIN record'[i]
  PROVE  \/ m \in DOMAIN record[i] /\ record'[i][m] = record[i][m]
         \/ /\ m \in DOMAIN record[i] /\ TrueAfter(record'[i][m])
            /\ record'[i][m].removal \in {"none", record[i][m].removal}
         \/ /\ m \in DOMAIN record[i] /\ i = it /\ worker = "removed" /\ removal \in Removals
            /\ record'[i][m] = [record[i][m] EXCEPT !.removal = removal]
         \/ record'[i][m] = NewAttempt
         \/ m \in DOMAIN record[i] /\ record'[i][m] = CutShort(record[i][m], "interrupted")
<1>0. record \in [Imports -> Seq(Attempts)]
  BY DEF TypeInv
<1>1. CASE Keeps
  BY <1>1 DEF Keeps
<1>2. ASSUME NEW k \in Imports, NEW a \in Attempts, Rewrites(k, a), TrueAfter(a),
             a.removal \in {"none", Latest(k).removal}
      PROVE  /\ m \in DOMAIN record[i]
             /\ \/ record'[i][m] = record[i][m]
                \/ TrueAfter(record'[i][m]) /\ record'[i][m].removal \in {"none", record[i][m].removal}
  <2>1. record[k] # <<>> /\ record' = [record EXCEPT ![k][Len(record[k])] = a]
    BY <1>2 DEF Rewrites
  <2>2. /\ DOMAIN record'[i] = DOMAIN record[i] /\ record'[k][Len(record[k])] = a
        /\ i # k => record'[i] = record[i]
        /\ \A o \in DOMAIN record[k] : o # Len(record[k]) => record'[k][o] = record[k][o]
    BY <2>1, RewriteFact
  <2>3. Latest(k) = record[k][Len(record[k])]
    BY <2>1, LatestFact
  <2> QED
    BY <1>2, <2>2, <2>3
<1>3. CASE worker = "removed" /\ removal \in Removals /\ Noted(removal)
  <2>1. /\ it \in Imports /\ n \in DOMAIN record[it]
        /\ record' = [record EXCEPT ![it][n] = [record[it][n] EXCEPT !.removal = removal]]
    BY <1>3 DEF Noted
  <2>2. /\ DOMAIN record'[i] = DOMAIN record[i]
        /\ i # it => record'[i] = record[i]
        /\ i = it /\ m # n => record'[i][m] = record[i][m]
        /\ i = it /\ m = n => record'[i][m] = [record[it][n] EXCEPT !.removal = removal]
    BY <1>0, <2>1
  <2> QED
    BY <1>3, <2>2
<1>4. ASSUME NEW k \in Imports, Adds(k)
      PROVE  \/ m \in DOMAIN record[i] /\ record'[i][m] = record[i][m]
             \/ record'[i][m] = NewAttempt
  <2>1. record' = [record EXCEPT ![k] = Append(@, NewAttempt)]
    BY <1>4 DEF Adds
  <2>2. i # k => record'[i] = record[i]
    BY <1>0, <2>1
  <2>3. record'[k] = Append(record[k], NewAttempt) /\ record[k] \in Seq(Attempts)
    BY <1>0, <2>1
  <2>4. \A o \in DOMAIN Append(record[k], NewAttempt) :
          \/ o \in DOMAIN record[k] /\ Append(record[k], NewAttempt)[o] = record[k][o]
          \/ Append(record[k], NewAttempt)[o] = NewAttempt
    <3> HIDE DEF NewAttempt
    <3> QED
      BY <2>3
  <2> QED
    BY <2>2, <2>3, <2>4
<1>5. CASE Sweeps
  <2>1. /\ record'[i] = [o \in DOMAIN record[i] |-> record'[i][o]]
        /\ \/ record'[i] = record[i]
           \/ IF record[i][m].status = "ended" THEN record'[i][m] = record[i][m]
              ELSE record'[i][m] = CutShort(record[i][m], "interrupted")
    BY <1>5 DEF Sweeps
  <2> QED
    BY <2>1
<1> QED
  BY <1>1, <1>2, <1>3, <1>4, <1>5 DEF TrueEffect

LEMMA TrueEffectHolds ==
  ASSUME Base, RunTypeInv, StepInv, ReportTrue, ReportTrue', RecordsAreTrue, [RunNext]_vars
  PROVE  TrueEffect
<1> USE DEF Base
<1>0. /\ \A p \in Packages : Serves(p) => Serves(p)'
      /\ [ImportNext]_importVars
  BY ServesStays, RunStepRefines
<1>1. ASSUME NEW i \in Imports, record[i] # <<>>
      PROVE  /\ Latest(i) \in Attempts
             /\ \A p \in Packages : Latest(i).packages[p] \in Claims => Serves(p)'
  BY <1>0, <1>1, LatestFact DEF RecordsAreTrue, Claims
<1>2. ASSUME NEW i \in Imports, NEW o \in {"interrupted", "incomplete"},
             EndUnfinished(i, o) \/ EndUnfinishedFails(i, o)
      PROVE  TrueEffect
  <2>1. EndsLatest(i, o)
    BY <1>2, EndUnfinishedFact DEF Outcomes
  <2>2. CASE Keeps
    BY <2>2 DEF TrueEffect
  <2>3. CASE /\ record[i] # <<>> /\ Latest(i).status # "ended"
             /\ record' = [record EXCEPT ![i][Len(record[i])] = CutShort(Latest(i), o)]
    <3>1. /\ CutShort(Latest(i), o) \in Attempts /\ TrueAfter(CutShort(Latest(i), o))
          /\ CutShort(Latest(i), o).removal = "none"
      BY <1>1, <2>3, CutShortTrue
    <3>2. PICK a \in Attempts :
            /\ a = CutShort(Latest(i), o) /\ a.status = "ended" /\ Quiet(a.packages)
            /\ TrueAfter(a) /\ a.removal = "none"
      BY <1>1, <2>3, <3>1, CutShortFact DEF Outcomes
    <3>3. Rewrites(i, a)
      BY <2>3, <3>2 DEF Rewrites
    <3> QED
      BY <3>2, <3>3 DEF TrueEffect
  <2> QED
    BY <2>1, <2>2, <2>3 DEF EndsLatest
<1>3. CASE Still \/ UNCHANGED importVars
  BY <1>3, StillKeeps DEF TrueEffect, importVars, storeVars, Keeps
<1>4. CASE Stopping
  <2>1. handler.about \in Imports
    BY <1>4 DEF Stopping, HeldInv
  <2> QED
    BY <1>2, <1>4, <2>1 DEF Stopping
<1>5. CASE Abandon \/ RunPanics
  <2>1. it \in Imports
    BY <1>5 DEF Abandon, RunPanics, HeldInv, Free
  <2> QED
    BY <1>2, <1>5, <2>1 DEF Abandon, RunPanics
<1>6. CASE Begin
  <2> DEFINE a == [Latest(it) EXCEPT !.status = "running"]
  <2>1. it \in Imports /\ record[it] # <<>> /\ (Keeps \/ (a \in Attempts /\ Rewrites(it, a)))
    BY <1>6, BeginFact
  <2>2. Latest(it) \in Attempts /\ \A p \in Packages : Latest(it).packages[p] \in Claims => Serves(p)'
    BY <1>1, <2>1
  <2>3. a.status = "running" /\ a.removal = Latest(it).removal /\ a.packages = Latest(it).packages
    BY <2>2 DEF Attempts
  <2> HIDE DEF a
  <2>4. TrueAfter(a)
    BY <2>2, <2>3 DEF TrueAfter, Completed
  <2> QED
    BY <2>1, <2>3, <2>4 DEF TrueEffect
<1>7. CASE Finish
  <2>1. worker = "finishing" /\ rep' = rep
    BY <1>7 DEF Finish, GoTo, localVars
  <2>2. CASE Keeps
    BY <2>2 DEF TrueEffect
  <2>3. ASSUME NEW a \in Attempts, a.outcome = rep.outcome, a.packages = rep.packages,
               a.removal = "none", Rewrites(it, a)
        PROVE  TrueEffect
    <3>1. TrueAfter(a)
      BY <1>0, <2>1, <2>3 DEF TrueAfter, ReportTrue, Completed
    <3> QED
      BY <2>3, <3>1 DEF TrueEffect, Rewrites
  <2> QED
    BY <1>7, <2>2, <2>3, FinishFact
<1>8. CASE Removed
  BY <1>8, RemovedFact DEF TrueEffect, Removed
<1>9. CASE Sweep
  BY <1>9, SweepFact DEF TrueEffect
<1>10. CASE Listed \/ Checked \/ (\E p \in Packages, s \in {"published", "present", "failed"} : Ended(p, s))
  <2>1. it \in Imports /\ record[it] # <<>> /\ (Keeps \/ \E a \in Attempts : TellsMore(a))
    BY <1>10, RunTells
  <2>2. ASSUME NEW a \in Attempts, TellsMore(a) PROVE TrueEffect
    <3>1. TrueAfter(a)
      BY <1>1, <2>1, <2>2 DEF TellsMore, TrueAfter, ReportTrue, Completed
    <3> QED
      BY <2>1, <2>2, <3>1 DEF TellsMore, TrueEffect
  <2> QED
    BY <2>1, <2>2 DEF TrueEffect
<1>11. CASE \E i \in Imports : Create(i) \/ Retry(i)
  BY <1>11, AddsFact DEF TrueEffect
<1>12. RunStep => Still \/ RunPanics \/ Listed \/ Checked
                  \/ (\E p \in Packages, s \in {"published", "present", "failed"} : Ended(p, s))
  BY DEF RunStep, Still, Outcomes, Removals
<1>13. QueueStep => Still \/ Stopping \/ Begin \/ Abandon \/ Finish \/ Removed \/ Sweep
  BY DEF QueueStep, Still
<1> QED
  BY <1>0, <1>3, <1>4, <1>5, <1>6, <1>7, <1>8, <1>9, <1>10, <1>11, <1>12, <1>13 DEF ImportNext

LEMMA RecordsTrueStep ==
  ASSUME Base, RunTypeInv, StepInv, ReportTrue, RecordsAreTrue, [RunNext]_vars
  PROVE  RecordsAreTrue'
<1>1. TypeInv /\ TrueEffect /\ \A p \in Packages : Serves(p) => Serves(p)'
  BY ReportTrueStep, TrueEffectHolds, ServesStays DEF Base
<1> SUFFICES ASSUME NEW i \in Imports, NEW m \in DOMAIN record'[i]
             PROVE  TrueAfter(record'[i][m])
  BY DEF RecordsAreTrue, TrueAfter, Claims, Completed
<1>2. ASSUME m \in DOMAIN record[i]
      PROVE  record[i][m] \in Attempts /\ TrueAfter(record[i][m])
  BY <1>1, <1>2, AttemptType DEF RecordsAreTrue, TrueAfter, Claims
<1>3. CASE m \in DOMAIN record[i] /\ record'[i][m] = [record[i][m] EXCEPT !.removal = removal]
  <2>1. PICK b : b = record'[i][m]
    OBVIOUS
  <2>2. b.packages = record[i][m].packages /\ b.status = record[i][m].status
        /\ b.outcome = record[i][m].outcome
    BY <1>2, <1>3, <2>1 DEF Attempts
  <2>3. TrueAfter(b)
    BY <1>2, <1>3, <2>2 DEF TrueAfter, Completed
  <2> QED
    BY <2>1, <2>3
<1>4. TrueAfter(NewAttempt)
  BY DEF NewAttempt, TrueAfter, Completed, Every, Claims
<1>5. CASE m \in DOMAIN record[i] /\ record'[i][m] = CutShort(record[i][m], "interrupted")
  BY <1>2, <1>5, CutShortTrue DEF TrueAfter
<1> QED
  BY <1>1, <1>2, <1>3, <1>4, <1>5, AttemptsAfter

LEMMA CompletedStays ==
  ASSUME Base, StepInv, [RunNext]_vars, NEW i \in Imports, NEW m \in DOMAIN record[i],
         Completed(record[i][m])
  PROVE  m \in DOMAIN record'[i] /\ Completed(record'[i][m])
<1>1. TypeInv /\ EndedKept
  BY RunStepRefines, BaseStep DEF Base
<1>2. record[i][m] \in Attempts /\ record[i][m].status = "ended"
  BY <1>1, AttemptType DEF Completed
<1>3. /\ m \in DOMAIN record'[i]
      /\ \/ record'[i][m] = record[i][m]
         \/ record'[i][m] = [record[i][m] EXCEPT !.removal = record'[i][m].removal]
  BY <1>1, <1>2 DEF EndedKept
<1>4. PICK r : r = record'[i][m].removal
  OBVIOUS
<1>5. CASE record'[i][m] = [record[i][m] EXCEPT !.removal = r]
  BY <1>2, <1>3, <1>5 DEF Attempts, Completed
<1> QED
  BY <1>3, <1>4, <1>5

-----------------------------------------------------------------------------
(* What the service deletes                                                 *)

\* A remover is called for a complete end that is on disk, ...
CleanInv ==
  worker \in After /\ (remover \/ worker # "cleaning") =>
    Completed(record[it][n]) /\ recorded[it].archive = recorded[it].manifest

\* ... of the objects it checked, unless the user changed them since.
RemoveInv ==
  /\ worker = "removing" /\ step = "archive" /\ ~raced => objects = recorded[it]
  /\ worker = "removing" /\ step = "manifest" => it \in emptied /\ (~raced => objects.archive = Gone)
  /\ worker = "removed" /\ removal = "removed" => it \in emptied

\* How the worker comes to where a remover may be called.
LEMMA AfterFact ==
  ASSUME TypeInv, HeldInv, StepInv, [RunNext]_vars, worker' \in After
  PROVE  \/ Finish /\ worker = "finishing" /\ UNCHANGED recorded
         \/ /\ worker \in After /\ UNCHANGED <<it, n, remover>>
            /\ worker' # "cleaning" => worker # "cleaning" \/ remover
<1> USE DEF importVars, processVars, localVars, runVars, minioVars, After, Free
<1>1. CASE QueueWork /\ UNCHANGED runVars
  <2>1. CASE Finish
    BY <1>1, <2>1 DEF Finish
  <2>2. worker = "finishing" => Finish \/ worker' = "finishing"
    BY <1>1 DEF QueueWork, Submit, Stopping, NextStops, NextTakes, NextWaits, NextWakes, Begin, Get,
                Abandon, Judge, Clean, Removed, Close, Sweep, SweepWork
  <2> QED
    BY <1>1, <2>1, <2>2, QueueWorkFact DEF ProcessReturns
<1>2. CASE UNCHANGED vars
  BY <1>2 DEF vars
<1>3. CASE StopRun
  BY <1>3 DEF StopRun, Stop, ProcessReturns
<1>4. ASSUME NEW i \in Imports, CheckArchive(i) \/ StartImport(i) \/ RetryImport(i)
      PROVE  UNCHANGED processVars
  BY <1>4 DEF CheckArchive, StartImport, RetryImport, Create, Retry
<1>5. CASE MinioSteps
  BY <1>5, MinioFact
<1>6. CASE NexusSteps
  <2>1. Pending # {} => \A s \in {"published", "present", "failed"} : Ended(First, s) => worker' = worker
    BY DEF Ended
  <2> QED
    BY <1>6, <2>1, NexusFact
<1>7. CASE Panic
  BY <1>7 DEF Panic, RunPanics, ProcessReturns, GoTo
<1>8. CASE RemoveSteps
  BY <1>8 DEF RemoveSteps, CheckAgain, DeleteArchive, DeleteManifest, Removing, Removes, RemoverReturns,
              QuietQueue
<1>9. CASE WorldSteps
  BY <1>9 DEF WorldSteps, Put, PublishElsewhere
<1> QED
  BY <1>1, <1>2, <1>3, <1>4, <1>5, <1>6, <1>7, <1>8, <1>9, RunNextFact

LEMMA CleanStep ==
  ASSUME Base, RunTypeInv, StepInv, ReportTrue, CleanInv, [RunNext]_vars
  PROVE  CleanInv'
<1> USE DEF Base
<1> SUFFICES ASSUME worker' \in After, remover' \/ worker' # "cleaning"
             PROVE  Completed(record'[it'][n']) /\ recorded'[it'].archive = recorded'[it'].manifest
  BY DEF CleanInv
<1>1. CASE Finish /\ worker = "finishing" /\ UNCHANGED recorded
  <2>1. UNCHANGED <<it, n, remover>> /\ worker' \in {"cleaning", "abandoning"}
    BY <1>1 DEF Finish, GoTo, localVars
  <2>2. worker' = "cleaning" /\ remover
    BY <2>1 DEF After
  <2>3. rep.outcome = "complete" /\ recorded[it].archive = recorded[it].manifest
    BY <1>1, <2>2 DEF ReportTrue
  <2>4. PICK a \in Attempts : /\ a.status = "ended" /\ a.outcome = rep.outcome /\ Rewrites(it, a)
                              /\ it \in Imports /\ record[it] # <<>> /\ Len(record[it]) = n
    BY <1>1, <2>2, FinishFact
  <2>5. record' = [record EXCEPT ![it][Len(record[it])] = a]
    BY <2>4 DEF Rewrites
  <2>6. record'[it][n] = a
    <3>1. TypeInv /\ it \in Imports /\ record[it] # <<>> /\ n = Len(record[it])
      BY <2>4
    <3>2. record'[it][Len(record[it])] = a
      BY ONLY <2>5, <3>1, a \in Attempts, RewriteFact
    <3> QED
      BY <3>1, <3>2
  <2> QED
    BY <1>1, <2>1, <2>3, <2>4, <2>6 DEF Completed
<1>2. CASE /\ worker \in After /\ UNCHANGED <<it, n, remover>>
           /\ worker' # "cleaning" => worker # "cleaning" \/ remover
  <2>1. Completed(record[it][n]) /\ recorded[it].archive = recorded[it].manifest
    BY <1>2 DEF CleanInv
  <2>2. it \in Imports /\ record[it] # <<>> /\ n \in DOMAIN record[it]
    BY <1>2 DEF HeldInv, After, Free
  <2>3. Completed(record'[it][n]) /\ recorded'[it] = recorded[it]
    BY <2>1, <2>2, CompletedStays, RecordedStays
  <2> QED
    BY <1>2, <2>1, <2>3
<1> QED
  BY <1>1, <1>2, AfterFact

LEMMA RemoveStep ==
  ASSUME Base, RunTypeInv, StepInv, RemoveInv, [RunNext]_vars
  PROVE  RemoveInv'
<1> USE DEF Base, importVars, processVars, localVars, runVars, minioVars, pastVars
<1>0. worker \in {"removing", "removed"} => recorded'[it] = recorded[it]
  BY RecordedStays DEF HeldInv, Free
<1>1. ASSUME UNCHANGED <<worker, it, removal, step, objects, emptied>>, raced' \in {raced, TRUE}
      PROVE  RemoveInv'
  BY <1>0, <1>1 DEF RemoveInv, RunTypeInv
<1>2. CASE QueueWork /\ UNCHANGED runVars
  <2>1. worker \in {"cleaning"} => step = "head"
    BY DEF StepInv
  <2> QED
    BY <1>1, <1>2, <2>1, QueueWorkFact DEF RemoveInv, ProcessReturns, Free
<1>3. CASE UNCHANGED vars
  BY <1>1, <1>3 DEF vars
<1>4. CASE StopRun
  BY <1>4 DEF StopRun, Stop, ProcessReturns, RemoveInv
<1>5. ASSUME NEW i \in Imports, CheckArchive(i) \/ StartImport(i) \/ RetryImport(i)
      PROVE  RemoveInv'
  BY <1>1, <1>5 DEF CheckArchive, StartImport, RetryImport, Create, Retry
<1>6. CASE MinioSteps
  BY <1>6, MinioFact DEF RemoveInv
<1>7. CASE NexusSteps
  <2>1. worker' \in {"running", "returned"}
    BY <1>7, NexusFact
  <2> QED
    BY <2>1 DEF RemoveInv
<1>8. CASE Panic
  BY <1>8 DEF Panic, RunPanics, ProcessReturns, GoTo, RemoveInv
<1>9. CASE CheckAgain
  <2>1. CASE Removes("kept")
    BY <2>1 DEF Removes, RemoverReturns, RemoveInv
  <2>2. CASE Same("archive") /\ Same("manifest") /\ step' = "archive" /\ QuietQueue
    <3>1. it \in Imports /\ objects' = objects
      BY <1>9 DEF CheckAgain, Removing, HeldInv, Free
    <3>2. objects \in Objects /\ recorded[it] \in Objects
      BY <3>1 DEF RunTypeInv
    <3>3. objects = recorded[it]
      BY <2>2, <3>2 DEF Objects, Same
    <3> QED
      BY <1>0, <1>9, <2>2, <3>1, <3>3 DEF CheckAgain, Removing, QuietQueue, RemoveInv
  <2> QED
    BY <1>9, <2>1, <2>2 DEF CheckAgain
<1>10. CASE DeleteArchive
  <2>1. CASE Removes("kept")
    BY <2>1 DEF Removes, RemoverReturns, RemoveInv
  <2>2. CASE TakeArchive /\ step' = "manifest" /\ QuietQueue
    BY <2>2 DEF TakeArchive, QuietQueue, RemoveInv, RunTypeInv, Objects
  <2> QED
    BY <1>10, <2>1, <2>2 DEF DeleteArchive
<1>11. CASE DeleteManifest
  BY <1>11 DEF DeleteManifest, Removing, Removes, RemoverReturns, RemoveInv
<1>12. CASE WorldSteps
  BY <1>0, <1>12 DEF WorldSteps, Put, PublishElsewhere, RemoveInv
<1> QED
  BY <1>2, <1>3, <1>4, <1>5, <1>6, <1>7, <1>8, <1>9, <1>10, <1>11, <1>12, RunNextFact DEF RemoveSteps

\* What is deleted, and what of it is remembered.
LEMMA TakenFact ==
  ASSUME StepInv, [RunNext]_vars
  PROVE  /\ emptied \subseteq emptied'
         /\ \/ taken' = taken
            \/ /\ worker = "removing" /\ step = "archive" /\ ~raced /\ objects.archive # Gone
               /\ taken' = taken \cup {objects.archive}
<1> USE DEF runVars, minioVars, pastVars
<1>1. CASE DeleteArchive
  BY <1>1 DEF DeleteArchive, TakeArchive, Removing
<1>2. CASE ~DeleteArchive
  <2>1. StopRun \/ Panic \/ MinioSteps \/ NexusSteps => UNCHANGED <<taken, emptied>>
    BY DEF StopRun, Panic, MinioSteps, HeadObjects, ReadManifest, ReadArchive, QuietRun,
           NexusSteps, CheckRepository, FailEvery, Fetch, Upload, ReadBack, PublishedEach
  <2>2. \A i \in Imports : CheckArchive(i) \/ StartImport(i) \/ RetryImport(i) => UNCHANGED <<taken, emptied>>
    BY DEF CheckArchive, StartImport, RetryImport
  <2>3. WorldSteps \/ CheckAgain \/ DeleteManifest => UNCHANGED <<taken, emptied>>
    BY DEF WorldSteps, Put, PublishElsewhere, CheckAgain, DeleteManifest
  <2>4. UNCHANGED <<taken, emptied>>
    BY <1>2, <2>1, <2>2, <2>3, RunNextFact DEF vars, RemoveSteps
  <2> QED
    BY <2>4
<1> QED
  BY <1>1, <1>2

LEMMA DeletesStep ==
  ASSUME Base, RunTypeInv, StepInv, ReportTrue, CleanInv, RemoveInv, RecordsAreTrue,
         DeletesFollowRecords, [RunNext]_vars
  PROVE  DeletesFollowRecords'
<1> USE DEF Base
<1>1. ASSUME NEW v \in taken'
      PROVE  \E i \in Imports : /\ recorded'[i] = [archive |-> v, manifest |-> v]
                                /\ \E m \in DOMAIN record'[i] :
                                     Completed(record'[i][m]) /\ \A p \in Packages : Serves(p)'
  <2>1. \E i \in Imports : /\ recorded[i] = [archive |-> v, manifest |-> v]
                           /\ \E m \in DOMAIN record[i] :
                                Completed(record[i][m]) /\ \A p \in Packages : Serves(p)
    <3>1. CASE v \in taken
      BY <3>1 DEF DeletesFollowRecords
    <3>2. CASE v \notin taken
      <4>1. worker = "removing" /\ step = "archive" /\ ~raced /\ v = objects.archive
        BY <1>1, <3>2, TakenFact
      <4>2. it \in Imports /\ n \in DOMAIN record[it]
        BY <4>1 DEF HeldInv, Free
      <4>3. objects = recorded[it] /\ Completed(record[it][n]) /\ recorded[it].archive = recorded[it].manifest
        BY <4>1 DEF RemoveInv, CleanInv, After
      <4>4. recorded[it] \in Objects
        BY <4>2 DEF RunTypeInv
      <4>5. recorded[it] = [archive |-> v, manifest |-> v]
        BY <4>1, <4>3, <4>4 DEF Objects
      <4>6. \A p \in Packages : Serves(p)
        BY <4>2, <4>3 DEF RecordsAreTrue
      <4> QED
        BY <4>2, <4>3, <4>5, <4>6
    <3> QED
      BY <3>1, <3>2
  <2>2. PICK i \in Imports : /\ recorded[i] = [archive |-> v, manifest |-> v]
                             /\ \E m \in DOMAIN record[i] :
                                  Completed(record[i][m]) /\ \A p \in Packages : Serves(p)
    BY <2>1
  <2>3. PICK m \in DOMAIN record[i] : Completed(record[i][m]) /\ \A p \in Packages : Serves(p)
    BY <2>2
  <2>4. record[i] # <<>>
    BY <2>3
  <2> QED
    BY <2>2, <2>3, <2>4, CompletedStays, RecordedStays, ServesStays
<1>2. ASSUME NEW i \in Imports, NEW m \in DOMAIN record'[i], record'[i][m].removal = "removed"
      PROVE  i \in emptied'
  <2>1. TypeInv /\ TrueEffect /\ emptied \subseteq emptied'
    BY ReportTrueStep, TrueEffectHolds, TakenFact
  <2>2. CASE m \in DOMAIN record[i] /\ record'[i][m].removal \in {"none", record[i][m].removal}
    BY <1>2, <2>1, <2>2 DEF DeletesFollowRecords
  <2>3. CASE /\ m \in DOMAIN record[i] /\ i = it /\ worker = "removed"
             /\ record'[i][m] = [record[i][m] EXCEPT !.removal = removal]
    <3>1. record[i][m] \in Attempts
      BY <2>1, <2>3, AttemptType
    <3>2. removal = "removed"
      BY <1>2, <2>3, <3>1 DEF Attempts
    <3> QED
      BY <2>1, <2>3, <3>2 DEF RemoveInv
  <2>4. CASE record'[i][m] = NewAttempt
    BY <1>2, <2>4 DEF NewAttempt
  <2>5. CASE m \in DOMAIN record[i] /\ record'[i][m] = CutShort(record[i][m], "interrupted")
    <3>1. record[i][m] \in Attempts
      BY <2>1, <2>5, AttemptType
    <3>2. CutShort(record[i][m], "interrupted").removal = "none"
      BY <3>1 DEF CutShort, Attempts
    <3> QED
      BY <1>2, <2>5, <3>2
  <2> QED
    BY <2>1, <2>2, <2>3, <2>4, <2>5, AttemptsAfter
<1> QED
  BY <1>1, <1>2 DEF DeletesFollowRecords

-----------------------------------------------------------------------------
(* One start for the same objects                                           *)

Over == {"complete", "refused"}

\* What becomes of an import that is on record, by the length of its record.
LEMMA OutcomeFact ==
  ASSUME Base, StepInv, [RunNext]_vars, NEW k \in Imports, record[k] # <<>>
  PROVE  /\ record'[k] # <<>>
         /\ Len(record'[k]) \in Nat /\ Len(record'[k]) >= Len(record[k]) /\ Len(record[k]) >= 1
         /\ Outcome(k) \in Over => Outcome(k)' \in Over \/ Len(record'[k]) > 1
<1>1. /\ TypeInv /\ TypeInv' /\ EndedKept
      /\ record' \in [Imports -> Seq(Attempts)] /\ DOMAIN record[k] \subseteq DOMAIN record'[k]
      /\ record'[k] # <<>>
  BY RunStepRefines, BaseStep, EffectHolds, EffectFact DEF Base
<1>2. /\ record[k] \in Seq(Attempts) /\ record'[k] \in Seq(Attempts)
      /\ Latest(k) \in Attempts /\ Latest(k) = record[k][Len(record[k])]
  BY <1>1, LatestFact DEF TypeInv
<1>3. /\ Len(record[k]) \in Nat /\ Len(record[k]) >= 1 /\ Len(record[k]) \in DOMAIN record[k]
      /\ Len(record'[k]) \in Nat /\ DOMAIN record'[k] = 1..Len(record'[k])
      /\ Latest(k)' = record'[k][Len(record'[k])]
  BY <1>1, <1>2, SeqFact DEF Latest
<1>4. Len(record[k]) \in DOMAIN record'[k]
  BY <1>1, <1>3
<1>5. Len(record'[k]) >= Len(record[k])
  BY <1>3, <1>4
<1>6. ASSUME Outcome(k) \in Over, Len(record'[k]) <= 1 PROVE Outcome(k)' = Outcome(k)
  <2>1. Latest(k).status = "ended" /\ Outcome(k) = Latest(k).outcome
    BY <1>2, <1>6 DEF Outcome, Unended, Over, Attempts
  <2>2. Len(record'[k]) = Len(record[k])
    BY <1>3, <1>5, <1>6
  <2>3. PICK m \in DOMAIN record[k] : m = Len(record[k])
    BY <1>3
  <2>4. \/ record'[k][m] = record[k][m]
        \/ record'[k][m] = [record[k][m] EXCEPT !.removal = record'[k][m].removal]
    BY <1>1, <1>2, <2>1, <2>3 DEF EndedKept
  <2>5. record'[k][m].status = "ended" /\ record'[k][m].outcome = record[k][m].outcome
    BY <1>2, <2>1, <2>3, <2>4 DEF Attempts
  <2>6. Latest(k)'.status = "ended" /\ Latest(k)'.outcome = Latest(k).outcome
    BY <1>2, <1>3, <2>2, <2>3, <2>5
  <2> QED
    BY <2>1, <2>6 DEF Outcome, Unended
<1> QED
  BY <1>1, <1>3, <1>5, <1>6

\* A record comes to be by a start only.
LEMMA WorkAddsNone ==
  ASSUME TypeInv, EndedInv, WorkEffect, NEW k \in Imports, record[k] = <<>>
  PROVE  record'[k] = <<>>
<1>1. record \in [Imports -> Seq(Attempts)] /\ record' \in [Imports -> Seq(Attempts)]
  BY EffectFact DEF Effect, TypeInv
<1>2. CASE Keeps
  BY <1>2 DEF Keeps
<1>3. ASSUME NEW i \in Imports, NEW a \in Attempts, Rewrites(i, a) PROVE record'[k] = <<>>
  BY <1>1, <1>3 DEF Rewrites
<1>4. ASSUME NEW r \in Removals, Noted(r) PROVE record'[k] = <<>>
  BY <1>1, <1>4 DEF Noted
<1>5. CASE Sweeps
  <2>1. record'[k] = [m \in DOMAIN record[k] |-> record'[k][m]]
    BY <1>5 DEF Sweeps
  <2>2. DOMAIN record'[k] = DOMAIN record[k]
    BY <2>1
  <2> QED
    BY <1>1, <2>2
<1> QED
  BY <1>2, <1>3, <1>4, <1>5 DEF WorkEffect

LEMMA OneStartStep ==
  ASSUME Base, RunTypeInv, StepInv, OneStartPerObjects, [RunNext]_vars
  PROVE  OneStartPerObjects'
<1> USE DEF Base
<1> SUFFICES ASSUME NEW i \in Imports, NEW k \in Imports, i # k, record'[i] # <<>>, record'[k] # <<>>,
                    recorded'[i] = recorded'[k], Outcome(i)' \notin Over, Outcome(k)' \notin Over
             PROVE  Len(record'[i]) > 1 \/ Len(record'[k]) > 1
  BY DEF OneStartPerObjects, Over
<1>1. CASE record[i] # <<>> /\ record[k] # <<>>
  <2>1. recorded[i] = recorded[k]
    BY <1>1, RecordedStays
  <2>2. CASE Outcome(i) \in Over \/ Outcome(k) \in Over
    BY <1>1, <2>2, OutcomeFact
  <2>3. CASE Outcome(i) \notin Over /\ Outcome(k) \notin Over
    <3>1. Len(record[i]) > 1 \/ Len(record[k]) > 1
      BY <1>1, <2>1, <2>3 DEF OneStartPerObjects, Over
    <3>2. /\ Len(record[i]) \in Nat /\ Len(record'[i]) \in Nat /\ Len(record'[i]) >= Len(record[i])
          /\ Len(record[k]) \in Nat /\ Len(record'[k]) \in Nat /\ Len(record'[k]) >= Len(record[k])
      BY <1>1, OutcomeFact DEF TypeInv
    <3> QED
      BY <3>1, <3>2
  <2> QED
    BY <2>2, <2>3
\* One that is started now would be blocked by the other.
<1>2. ASSUME NEW x \in Imports, NEW y \in Imports, x # y, record[x] = <<>>,
             record'[x] # <<>>, record'[y] # <<>>, recorded'[x] = recorded'[y], Outcome(y)' \notin Over
      PROVE  FALSE
  <2>1. ~(QueueStep \/ RunStep \/ UNCHANGED importVars)
    BY <1>2, WorkEffectHolds, WorkAddsNone
  <2>2. PICK z \in Imports : (StartImport(z) /\ Create(z)) \/ (RetryImport(z) /\ Retry(z))
    BY <2>1, RunStepFact
  <2>3. Adds(z)
    BY <2>2, AddsFact
  <2>4. \A w \in Imports : w # z => record'[w] = record[w]
    BY <2>3 DEF Adds, TypeInv
  <2>5. z = x
    BY <1>2, <2>4
  <2>6. StartImport(x) /\ Create(x)
    BY <1>2, <2>2, <2>5 DEF Retry
  <2>7. record'[y] = record[y] /\ record[y] # <<>> /\ record' # record
    BY <1>2, <2>4, <2>5
  <2>8. /\ \A w \in Imports : ~Blocks(w, described[x])
        /\ recorded' = [recorded EXCEPT ![x] = described[x]]
    BY <2>6, <2>7 DEF StartImport, importVars, storeVars
  <2>9. recorded'[x] = described[x] /\ recorded'[y] = recorded[y]
    BY <1>2, <2>8 DEF RunTypeInv
  <2>10. Outcome(y) \in Over
    BY <1>2, <2>7, <2>8, <2>9 DEF Blocks, Over
  <2>11. Outcome(y)' = Outcome(y)
    BY <2>7 DEF Outcome, Unended, Latest
  <2> QED
    BY <1>2, <2>10, <2>11
<1> QED
  BY <1>1, <1>2

-----------------------------------------------------------------------------
(* ImportRun: the theorems                                                  *)

RunInv ==
  /\ Base /\ RunTypeInv /\ StepInv /\ ReportTrue /\ CleanInv /\ RemoveInv
  /\ RecordsAreTrue /\ DeletesFollowRecords /\ OneStartPerObjects

LEMMA RunInvInit == RunInit => RunInv
<1> SUFFICES ASSUME RunInit PROVE RunInv
  OBVIOUS
<1>1. Base
  BY BaseInit DEF RunInit
<1>2. Nowhere \in Objects /\ Every("absent") \in [Packages -> Copies]
  BY DEF Nowhere, Objects, Every, Copies
<1>3. objects \in Objects
  BY DEF RunInit, Objects
<1>4. RunTypeInv
  BY <1>2, <1>3 DEF RunInit, RunTypeInv
<1>5. /\ worker = "checking" /\ rep = NoReport /\ remover = FALSE /\ step = "head" /\ taken = {}
      /\ record = [i \in Imports |-> <<>>]
  BY DEF RunInit, ImportInit
<1>6. StepInv /\ ReportTrue /\ CleanInv /\ RemoveInv
  BY <1>5 DEF StepInv, ReportTrue, CleanInv, RemoveInv, NoReport, Every, Claims, After
<1>7. RecordsAreTrue /\ DeletesFollowRecords /\ OneStartPerObjects
  BY <1>5 DEF RecordsAreTrue, DeletesFollowRecords, OneStartPerObjects
<1> QED
  BY <1>1, <1>4, <1>6, <1>7 DEF RunInv

LEMMA RunInvStep == RunInv /\ [RunNext]_vars => RunInv'
<1> SUFFICES ASSUME RunInv, [RunNext]_vars PROVE RunInv'
  OBVIOUS
<1> USE DEF RunInv
<1>1. TypeInv /\ HeldInv
  BY DEF Base
<1>2. Base'
  BY <1>1, RunStepRefines, BaseStep
<1>3. RunTypeInv' /\ StepInv'
  BY <1>1, RunStepInv
<1>4. ReportTrue' /\ CleanInv' /\ RemoveInv'
  BY <1>1, ReportTrueStep, CleanStep, RemoveStep
<1>5. RecordsAreTrue' /\ DeletesFollowRecords' /\ OneStartPerObjects'
  BY RecordsTrueStep, DeletesStep, OneStartStep
<1> QED
  BY <1>2, <1>3, <1>4, <1>5

LEMMA RunInvariance == RunSpec => []RunInv
BY RunInvInit, RunInvStep, PTL DEF RunSpec

\* A run and its remover do nothing the queue does not expect of them: with the
\* store, Nexus and MinIO put to it, the queue is still the one that was proved.
THEOREM RunImplementsQueue == RunSpec => ImportSpec
<1>1. RunInit => ImportInit
  BY DEF RunInit
<1>2. RunInv /\ [RunNext]_vars => [ImportNext]_importVars
  BY RunStepRefines DEF RunInv, Base
<1> QED
  BY <1>1, <1>2, RunInvariance, PTL DEF RunSpec, ImportSpec

\* Whatever fails, is lost or stops, no record says more of Nexus than is true.
THEOREM TrueRecords == RunSpec => []RecordsAreTrue
<1>1. RunInv => RecordsAreTrue
  BY DEF RunInv
<1> QED
  BY <1>1, RunInvariance, PTL

\* The service deletes an archive only after its complete import is on disk.
THEOREM DeletesAfterRecords == RunSpec => []DeletesFollowRecords
<1>1. RunInv => DeletesFollowRecords
  BY DEF RunInv
<1> QED
  BY <1>1, RunInvariance, PTL

\* The same objects are not imported twice at once but by a retry.
THEOREM OneImportOfObjects == RunSpec => []OneStartPerObjects
<1>1. RunInv => OneStartPerObjects
  BY DEF RunInv
<1> QED
  BY <1>1, RunInvariance, PTL

ManifestAfter ==
  worker = "removing" /\ ~raced /\ objects'.manifest = Gone /\ objects.manifest # Gone
    => objects.archive = Gone \/ changes' # changes

LEMMA ManifestStep ==
  ASSUME RunInv, [RunNext]_vars
  PROVE  ManifestAfter
<1> USE DEF RunInv, runVars, minioVars, pastVars
<1> SUFFICES ASSUME worker = "removing", ~raced, objects'.manifest = Gone, objects.manifest # Gone
             PROVE  objects.archive = Gone \/ changes' # changes
  BY DEF ManifestAfter
<1>1. objects \in Objects /\ changes \in Nat
  BY DEF RunTypeInv
<1>2. CASE DeleteManifest
  BY <1>2 DEF DeleteManifest, Removing, RemoveInv
<1>3. CASE DeleteArchive
  <2>1. objects' \in {objects, [objects EXCEPT !.archive = Gone]}
    BY <1>3 DEF DeleteArchive, TakeArchive
  <2> QED
    BY <1>1, <2>1 DEF Objects
<1>4. CASE WorldSteps
  BY <1>1, <1>4 DEF WorldSteps, Put, PublishElsewhere
<1>5. CASE ~DeleteManifest /\ ~DeleteArchive /\ ~WorldSteps
  <2>1. StopRun \/ Panic \/ MinioSteps \/ NexusSteps \/ CheckAgain => objects' = objects
    BY DEF StopRun, Panic, MinioSteps, HeadObjects, ReadManifest, ReadArchive, QuietRun, CheckAgain,
           NexusSteps, CheckRepository, FailEvery, Fetch, Upload, ReadBack, PublishedEach
  <2>2. \A i \in Imports : CheckArchive(i) \/ StartImport(i) \/ RetryImport(i) => objects' = objects
    BY DEF CheckArchive, StartImport, RetryImport
  <2>3. objects' = objects
    BY <1>5, <2>1, <2>2, RunNextFact DEF vars, RemoveSteps
  <2> QED
    BY <2>3
<1> QED
  BY <1>2, <1>3, <1>4, <1>5

\* The archive goes before its manifest.
THEOREM ArchiveGoesFirst == RunSpec => NoArchiveWithoutManifest
<1>1. RunInv /\ [RunNext]_vars => [ManifestAfter]_vars
  BY ManifestStep
<1>2. RunSpec => [][ManifestAfter]_vars
  BY <1>1, RunInvariance, PTL DEF RunSpec
<1> QED
  BY <1>2 DEF NoArchiveWithoutManifest, ManifestAfter

\* With the run put to it, the queue still forgets no attempt, changes no end and
\* keeps the life cycle it promises.
THEOREM RunRemembers == RunSpec => []NothingForgotten /\ EndedStays /\ ImplementsImportLifecycle
<1> QED
  BY RunImplementsQueue, Remembered, EndedStay, CycleImplemented, PTL

=============================================================================
