-------------------------- MODULE TokenCheckProofs --------------------------
(***************************************************************************)
(* Proofs about TokenCheck for any identifiers and any times in the order  *)
(* the code has them in: how long a withdrawn key admits, what a 503 and a *)
(* refused key mean.  They rest on what the ages in the cache tell of the  *)
(* realm, which CacheInv says.                                             *)
(***************************************************************************)
EXTENDS TokenCheck, TLAPS

Ages == 0..Oldest

Looks == [busy : {TRUE}, token : Tokens, elapsed : 0..Timeout,
          said : {"nothing", "set", "failure"}, sent : SUBSET Kids]

\* What the realm has said to the fetch on its way holds unless it changed since.
SaidInv ==
  look.busy =>
    /\ look.said = "set" =>
         \A k \in Kids : (k \in look.sent) # (k \in realm) => rotated[k] <= look.elapsed
    /\ look.said = "failure" => ~up \/ turned <= look.elapsed

TypeInv ==
  /\ realm \subseteq Kids /\ up \in BOOLEAN
  /\ rotated \in [Kids -> Ages] /\ {turned, fetchedAge, attemptAge} \subseteq Ages
  /\ keys \subseteq Kids /\ have \in BOOLEAN /\ lastFail \in {"none", "failed"}
  /\ look \in {NoLook} \cup Looks

\* A key the held set has too many, or lacks, left or came since the fetch; a
\* set is missing only because it was too old; and what the last attempt said of
\* the realm holds unless the realm changed since.
CacheInv ==
  /\ have => \A k \in Kids : (k \in keys) # (k \in realm) => rotated[k] <= fetchedAge
  /\ ~have => fetchedAge >= Stale
  /\ look.busy => attemptAge = look.elapsed
  /\ look.busy /\ have => fetchedAge < Stale + look.elapsed
  /\ ~look.busy /\ lastFail = "none" => fetchedAge <= attemptAge
  /\ ~look.busy /\ lastFail = "failed" => ~up \/ turned <= attemptAge

AnswerInv == RevokedKeyDies /\ UnavailableMeansIt /\ RotationIsPickedUp

IInv == TypeInv /\ SaidInv /\ CacheInv /\ AnswerInv

-----------------------------------------------------------------------------
(* What an answer can be                                                    *)

LEMMA TimesFact ==
  /\ {Refetch, TTL, Stale, Timeout, Oldest} \subseteq Nat
  /\ 0 < Timeout /\ Timeout < Refetch /\ Refetch < TTL /\ TTL < Stale /\ Oldest = Stale + Timeout
BY TimesAssumption DEF Oldest

LEMMA OlderFact ==
  ASSUME NEW a \in Ages, NEW b \in Ages
  PROVE  /\ Older(a) \in Ages /\ Older(a) >= a /\ Older(a) <= a + 1
         /\ a <= b => Older(a) <= Older(b)
         /\ a < Oldest => Older(a) = a + 1
BY TimesFact DEF Older, Ages

LEMMA AfterFact == Len(After) = 9 /\ DOMAIN After = 1..9
<1>1. Len(After) = 9
  BY DEF After
<1>2. DOMAIN After = 1..9
  BY DEF After
<1> QED
  BY <1>1, <1>2

LEMMA BeforeFact == DOMAIN Before = 1..5
BY DEF Before

LEMMA FirstFact ==
  ASSUME NEW failed, failed \subseteq ToSet(After), failed # {}
  PROVE  FirstOf(After, failed) \in ToSet(After)
<1>1. Len(After) = 9 /\ DOMAIN After = 1..9
  BY AfterFact
<1> DEFINE I == {i \in 1..Len(After) : After[i] \in failed}
           low == CHOOSE i \in I : \A j \in I : i =< j
<1>2. \A i \in 1..9 : After[i] \in ToSet(After)
  BY <1>1 DEF ToSet
<1>3. I \subseteq 1..9 /\ I # {}
  <2>1. PICK c \in failed : \E i \in 1..9 : c = After[i]
    BY <1>1 DEF ToSet
  <2> QED
    BY <1>1, <2>1
<1>4. \E i \in I : \A j \in I : i =< j
  <2> SUFFICES ASSUME \A i \in I : \E j \in I : j < i PROVE I = {}
    BY <1>3
  <2> HIDE DEF I
  <2>1. 1 \notin I /\ 2 \notin I /\ 3 \notin I
    BY <1>3
  <2>2. 4 \notin I /\ 5 \notin I /\ 6 \notin I
    BY <1>3, <2>1
  <2>3. 7 \notin I /\ 8 \notin I /\ 9 \notin I
    BY <1>3, <2>1, <2>2
  <2> QED
    BY <1>3, <2>1, <2>2, <2>3
<1>5. low \in 1..9
  BY <1>3, <1>4
<1>6. FirstOf(After, failed) = After[low]
  BY <1>3 DEF FirstOf, SelectInSeq, Min
<1> QED
  BY <1>2, <1>5, <1>6

LEMMA ChecksFact ==
  /\ "key" \notin ToSet(After) /\ "key" \notin ToSet(Before)
  /\ "expiry" \in ToSet(After) /\ "not before" \in ToSet(After)
<1>1. "key" \notin ToSet(After)
  <2>1. After[1] # "key" /\ After[2] # "key" /\ After[3] # "key"
    BY DEF After
  <2>2. After[4] # "key" /\ After[5] # "key" /\ After[6] # "key"
    BY DEF After
  <2>3. After[7] # "key" /\ After[8] # "key" /\ After[9] # "key"
    BY DEF After
  <2>4. \A i \in 1..9 : After[i] # "key"
    BY <2>1, <2>2, <2>3
  <2> QED
    BY <2>4, AfterFact DEF ToSet
<1>2. "key" \notin ToSet(Before)
  <2>1. /\ Before[1] # "key" /\ Before[2] # "key" /\ Before[3] # "key"
        /\ Before[4] # "key" /\ Before[5] # "key"
    BY DEF Before
  <2>2. \A i \in 1..5 : Before[i] # "key"
    BY <2>1
  <2> QED
    BY <2>2, BeforeFact DEF ToSet
<1>3. After[6] = "expiry" /\ After[7] = "not before"
  BY DEF After
<1>4. "expiry" \in ToSet(After) /\ "not before" \in ToSet(After)
  <2>1. 6 \in DOMAIN After /\ 7 \in DOMAIN After
    BY AfterFact
  <2> QED
    BY <1>3, <2>1 DEF ToSet
<1> QED
  BY <1>1, <1>2, <1>4

\* An answer never blames the key set, and blames the key only if it is not found.
LEMMA DecideFact ==
  ASSUME NEW t \in Tokens, NEW found \in BOOLEAN, NEW elapsed, Decide(t, found, elapsed)
  PROVE  /\ answer'.kid = t.kid /\ answer'.status # 503
         /\ answer'.status = 200 => found
         /\ answer'.status = 401 /\ answer'.check = "key" => ~found
<1> DEFINE failed == FailedAfter(t, elapsed)
<1>1. CASE ~found \/ failed = {}
  BY <1>1 DEF Decide, Answer
<1>2. CASE found /\ failed # {}
  <2>1. failed \subseteq ToSet(After)
    BY ChecksFact DEF FailedAfter
  <2> DEFINE c == FirstOf(After, failed)
  <2>2. c \in ToSet(After)
    <3> HIDE DEF failed
    <3> QED
      BY <1>2, <2>1, FirstFact
  <2>3. answer' = [status |-> Status(c), check |-> c, kid |-> t.kid]
    BY <1>2 DEF Decide, Answer
  <2>4. Status(c) \in {401, 403, 413}
    BY DEF Status
  <2> HIDE DEF c, failed
  <2>5. c # "key"
    BY <2>2, ChecksFact
  <2>6. answer'.kid = t.kid /\ answer'.status = Status(c) /\ answer'.check = c
    BY <2>3
  <2>7. answer'.status # 503 /\ answer'.status # 200
    BY <2>4, <2>6
  <2> QED
    BY <1>2, <2>5, <2>6, <2>7
<1> QED
  BY <1>1, <1>2

-----------------------------------------------------------------------------
(* The invariant                                                            *)

LEMMA IInvInit == Init => IInv
<1> SUFFICES ASSUME Init PROVE IInv
  OBVIOUS
<1>1. TypeInv
  <2>1. Oldest \in Ages
    BY TimesFact DEF Ages
  <2>2. rotated \in [Kids -> Ages]
    BY <2>1 DEF Init
  <2>3. look \in {NoLook} \cup Looks
    BY DEF Init
  <2> QED
    BY <2>1, <2>2, <2>3 DEF Init, TypeInv
<1>2. ~look.busy /\ fetchedAge = Oldest /\ attemptAge = Oldest /\ ~have /\ lastFail = "none"
  BY DEF Init, NoLook
<1>3. CacheInv /\ SaidInv
  BY <1>2, TimesFact DEF CacheInv, SaidInv
<1>4. answer.status = 0
  BY DEF Init, NoAnswer
<1>5. AnswerInv
  BY <1>4 DEF AnswerInv, RevokedKeyDies, UnavailableMeansIt, RotationIsPickedUp
<1> QED
  BY <1>1, <1>3, <1>5 DEF IInv

LEMMA IInvStep ==
  ASSUME IInv, [Next]_vars
  PROVE  IInv'
<1> USE TimesFact DEF world, held
<1>1. TypeInv /\ CacheInv /\ SaidInv
  BY DEF IInv
\* The fetch on its way, if there is one.
<1>0. /\ (look = NoLook /\ ~look.busy) \/ (look \in Looks /\ look.busy)
      /\ look.busy => look.token \in Tokens /\ look.elapsed \in 0..Timeout /\ look.sent \subseteq Kids
  <2>1. look = NoLook => ~look.busy
    BY DEF NoLook
  <2>2. look \in Looks => /\ look.busy /\ look.token \in Tokens
                           /\ look.elapsed \in 0..Timeout /\ look.sent \subseteq Kids
    BY DEF Looks
  <2> QED
    BY <1>1, <2>1, <2>2 DEF TypeInv
<1>2. answer' = NoAnswer => AnswerInv'
  <2>1. answer' = NoAnswer => answer'.status = 0
    BY DEF NoAnswer
  <2> QED
    BY <2>1 DEF AnswerInv, RevokedKeyDies, UnavailableMeansIt, RotationIsPickedUp
<1>3. CASE UNCHANGED vars
  <2>1. UNCHANGED <<realm, up, rotated, turned, keys, have, fetchedAge, lastFail, attemptAge, look, answer>>
    BY <1>3 DEF vars
  <2>2. TypeInv' /\ CacheInv' /\ SaidInv'
    BY <1>1, <2>1 DEF TypeInv, CacheInv, SaidInv
  <2>3. AnswerInv'
    BY <2>1 DEF IInv, AnswerInv, RevokedKeyDies, UnavailableMeansIt, RotationIsPickedUp
  <2> QED
    BY <2>2, <2>3 DEF IInv
<1>4. ASSUME NEW k \in Kids, Rotate(k) PROVE IInv'
  <2>1. /\ realm' \subseteq Kids /\ rotated' \in [Kids -> Ages] /\ rotated'[k] = 0
        /\ \A i \in Kids : i # k => rotated'[i] = rotated[i] /\ (i \in realm' <=> i \in realm)
    BY <1>1, <1>4 DEF Rotate, TypeInv, Ages
  <2>2. UNCHANGED <<up, turned, held, attemptAge, look>> /\ answer' = NoAnswer
    BY <1>4 DEF Rotate
  <2>3. TypeInv'
    BY <1>1, <2>1, <2>2 DEF TypeInv
  <2>4. CacheInv'
    BY <1>1, <2>1, <2>2 DEF TypeInv, CacheInv, Ages
  <2>5. SaidInv'
    <3> SUFFICES ASSUME look.busy, look.said = "set",
                        NEW i \in Kids, (i \in look.sent) # (i \in realm')
                 PROVE  rotated'[i] <= look.elapsed
      BY <1>1, <2>2 DEF SaidInv
    <3>1. CASE i = k
      BY <1>0, <2>1, <3>1
    <3>2. CASE i # k
      BY <1>1, <2>1, <3>2 DEF SaidInv
    <3> QED
      BY <3>1, <3>2
  <2> QED
    BY <1>2, <2>2, <2>3, <2>4, <2>5 DEF IInv
<1>5. CASE Turn
  <2>1. TypeInv' /\ CacheInv' /\ answer' = NoAnswer
    BY <1>1, <1>5 DEF Turn, TypeInv, CacheInv, Ages
  <2>2. SaidInv'
    BY <1>0, <1>1, <1>5 DEF Turn, SaidInv
  <2> QED
    BY <1>2, <2>1, <2>2 DEF IInv
<1>6. CASE Tick
  <2>1. /\ UNCHANGED <<realm, up, keys, have, lastFail>> /\ answer' = NoAnswer
        /\ look.busy => look.elapsed < Timeout
        /\ rotated' = [k \in Kids |-> Older(rotated[k])] /\ turned' = Older(turned)
        /\ fetchedAge' = Older(fetchedAge) /\ attemptAge' = Older(attemptAge)
        /\ look' = IF look.busy THEN [look EXCEPT !.elapsed = @ + 1] ELSE look
    BY <1>6 DEF Tick
  <2>2. /\ {turned, fetchedAge, attemptAge} \subseteq Ages /\ \A k \in Kids : rotated[k] \in Ages
    BY <1>1 DEF TypeInv
  <2>3. ~look.busy => look' = look /\ ~look'.busy
    BY <1>0, <2>1
  <2>8. look.busy => /\ look' \in Looks /\ look'.busy /\ look'.elapsed = look.elapsed + 1
                     /\ look'.said = look.said /\ look'.sent = look.sent
    <3> SUFFICES ASSUME look.busy
                 PROVE  /\ look' \in Looks /\ look'.busy /\ look'.elapsed = look.elapsed + 1
                        /\ look'.said = look.said /\ look'.sent = look.sent
      OBVIOUS
    <3>1. look \in Looks /\ look.elapsed + 1 \in 0..Timeout
      BY <1>0, <2>1
    <3>2. look' = [look EXCEPT !.elapsed = look.elapsed + 1]
      BY <2>1
    <3> QED
      BY <3>1, <3>2 DEF Looks
  <2>4. TypeInv'
    <3>1. {turned', fetchedAge', attemptAge'} \subseteq Ages
      BY <2>1, <2>2, OlderFact
    <3>2. rotated' \in [Kids -> Ages]
      BY <2>1, <2>2, OlderFact
    <3>3. look' \in {NoLook} \cup Looks
      BY <1>0, <2>3, <2>8
    <3> QED
      BY <1>1, <2>1, <3>1, <3>2, <3>3 DEF TypeInv
  <2>5. have' => \A k \in Kids : (k \in keys') # (k \in realm') => rotated'[k] <= fetchedAge'
    <3> SUFFICES ASSUME have', NEW k \in Kids, (k \in keys') # (k \in realm')
                 PROVE  rotated'[k] <= fetchedAge'
      OBVIOUS
    <3>1. rotated[k] <= fetchedAge
      BY <1>1, <2>1 DEF CacheInv
    <3>2. Older(rotated[k]) <= Older(fetchedAge)
      BY <2>2, <3>1, OlderFact
    <3> QED
      BY <2>1, <3>2
  <2>6. /\ fetchedAge' >= fetchedAge /\ fetchedAge' <= fetchedAge + 1
        /\ fetchedAge <= attemptAge => fetchedAge' <= attemptAge'
        /\ turned <= attemptAge => turned' <= attemptAge'
        /\ attemptAge < Oldest => attemptAge' = attemptAge + 1
    BY <2>1, <2>2, OlderFact
  <2>7. CacheInv'
    <3>1. fetchedAge \in Nat /\ attemptAge \in Nat /\ turned \in Nat /\ fetchedAge' \in Nat
      BY <2>2, <2>4 DEF TypeInv, Ages
    <3>2. ~have' => fetchedAge' >= Stale
      BY <1>1, <2>1, <2>6, <3>1 DEF CacheInv
    <3>3. look'.busy => attemptAge' = look'.elapsed
      BY <1>0, <1>1, <2>1, <2>3, <2>6, <2>8 DEF CacheInv
    <3>4. look'.busy /\ have' => fetchedAge' < Stale + look'.elapsed
      BY <1>0, <1>1, <2>1, <2>3, <2>6, <2>8, <3>1 DEF CacheInv
    <3>5. ~look'.busy => (lastFail' = "none" => fetchedAge' <= attemptAge')
                         /\ (lastFail' = "failed" => ~up' \/ turned' <= attemptAge')
      BY <1>0, <1>1, <2>1, <2>3, <2>6, <2>8 DEF CacheInv
    <3> QED
      BY <2>5, <3>2, <3>3, <3>4, <3>5 DEF CacheInv
  <2>9. SaidInv'
    <3> SUFFICES ASSUME look'.busy
                 PROVE  /\ look.said = "set" => \A k \in Kids :
                             (k \in look.sent) # (k \in realm) => rotated'[k] <= look.elapsed + 1
                        /\ look.said = "failure" => ~up \/ turned' <= look.elapsed + 1
      BY <2>1, <2>3, <2>8 DEF SaidInv
    <3>1. look.busy /\ look.elapsed \in Nat
      BY <1>0, <2>3
    <3>2. /\ \A k \in Kids : rotated[k] \in Nat /\ rotated'[k] \in Nat /\ rotated'[k] <= rotated[k] + 1
          /\ turned \in Nat /\ turned' \in Nat /\ turned' <= turned + 1
      BY <2>1, <2>2, <2>4, OlderFact DEF TypeInv, Ages
    <3> QED
      BY <1>1, <3>1, <3>2 DEF SaidInv
  <2> QED
    BY <1>2, <2>1, <2>4, <2>7, <2>9 DEF IInv
<1>7. ASSUME NEW t \in Tokens, Refuse(t) PROVE IInv'
  <2>1. t.fault \in ToSet(Before) /\ UNCHANGED <<world, held, attemptAge, look>>
        /\ answer' = [status |-> Status(t.fault), check |-> t.fault, kid |-> t.kid]
    BY <1>7 DEF Refuse, Answer
  <2>2. Status(t.fault) \in {401, 403, 413}
    BY DEF Status
  <2>5. t.fault # "key"
    BY <2>1, ChecksFact
  <2>6. answer'.status # 200 /\ answer'.status # 503 /\ answer'.check # "key"
    BY <2>1, <2>2, <2>5
  <2>3. AnswerInv'
    BY <2>6 DEF AnswerInv, RevokedKeyDies, UnavailableMeansIt, RotationIsPickedUp
  <2>4. TypeInv' /\ CacheInv' /\ SaidInv'
    BY <1>1, <2>1 DEF TypeInv, CacheInv, SaidInv
  <2> QED
    BY <2>3, <2>4 DEF IInv
\* What DropStale leaves.
<1>8. ASSUME DropStale
      PROVE  /\ have' \in BOOLEAN /\ keys' \subseteq Kids
             /\ have' => have /\ keys' = keys /\ fetchedAge < Stale
             /\ ~have' => fetchedAge >= Stale
  <2>1. fetchedAge \in Nat /\ have \in BOOLEAN /\ keys \subseteq Kids /\ (~have => fetchedAge >= Stale)
    BY <1>1 DEF TypeInv, CacheInv, Ages
  <2>2. CASE have /\ fetchedAge >= Stale
    BY <1>8, <2>1, <2>2 DEF DropStale
  <2>3. CASE ~(have /\ fetchedAge >= Stale)
    BY <1>8, <2>1, <2>3 DEF DropStale
  <2> QED
    BY <2>2, <2>3
<1>9. ASSUME NEW t \in Tokens, AnswerFromHeld(t) PROVE IInv'
  <2>1. /\ ~look.busy /\ UNCHANGED <<world, fetchedAge, lastFail, attemptAge, look>> /\ DropStale
        /\ ~have' \/ fetchedAge >= TTL \/ t.kid \notin keys' => attemptAge < Refetch
        /\ IF have' THEN Decide(t, t.kid \in keys', 0)
           ELSE answer' = [status |-> 503, kid |-> t.kid,
                           check |-> IF lastFail # "none" THEN lastFail ELSE "window"]
    BY <1>1, <1>9 DEF AnswerFromHeld, MustFetch, WindowOpen, Unavailable, Answer, TypeInv, Ages
  <2>2. TypeInv' /\ CacheInv' /\ SaidInv'
    BY <1>1, <1>8, <2>1 DEF TypeInv, CacheInv, SaidInv
  <2>3. attemptAge < Refetch => fetchedAge <= attemptAge \/ (lastFail = "failed" /\ (~up \/ turned <= attemptAge))
    BY <1>1, <2>1 DEF TypeInv, CacheInv
  <2>4. CASE have'
    <3>1. /\ answer'.kid = t.kid /\ answer'.status # 503
          /\ answer'.status = 200 => t.kid \in keys
          /\ answer'.status = 401 /\ answer'.check = "key" => t.kid \notin keys
      <4>1. Decide(t, t.kid \in keys', 0) /\ (t.kid \in keys') \in BOOLEAN /\ keys' = keys
        BY <1>8, <2>1, <2>4
      <4> QED
        BY <4>1, DecideFact
    <3>2. /\ have /\ fetchedAge < Stale /\ keys' = keys
          /\ \A k \in Kids : (k \in keys) # (k \in realm) => rotated[k] <= fetchedAge
      BY <1>1, <1>8, <2>1, <2>4 DEF CacheInv
    <3>5. /\ fetchedAge \in Nat /\ attemptAge \in Nat /\ turned \in Nat
          /\ keys \subseteq Kids /\ realm \subseteq Kids /\ \A k \in Kids : rotated[k] \in Nat
          /\ UNCHANGED <<realm, up, rotated, turned>>
      BY <1>1, <2>1 DEF TypeInv, Ages
    <3>3. RevokedKeyDies'
      <4> SUFFICES ASSUME answer'.status = 200, t.kid \notin realm
                   PROVE  /\ rotated[t.kid] < Stale + Timeout
                          /\ rotated[t.kid] < TTL \/ ~up \/ turned < Refetch + Timeout
        BY <3>1, <3>5 DEF RevokedKeyDies
      <4>1. t.kid \in Kids /\ rotated[t.kid] \in Nat /\ rotated[t.kid] <= fetchedAge
        BY <3>1, <3>2, <3>5
      <4>2. CASE fetchedAge < TTL
        BY <3>2, <3>5, <4>1, <4>2
      <4>3. CASE fetchedAge >= TTL
        <5>1. attemptAge < Refetch
          BY <2>1, <4>3
        <5>2. ~up \/ turned <= attemptAge
          BY <2>3, <3>5, <4>3, <5>1
        <5> QED
          BY <3>2, <3>5, <4>1, <5>1, <5>2
      <4> QED
        BY <3>5, <4>2, <4>3
    <3>4. RotationIsPickedUp'
      <4> SUFFICES ASSUME answer'.status = 401, answer'.check = "key", t.kid \in realm, up
                   PROVE  rotated[t.kid] < Refetch + Timeout \/ turned < Refetch + Timeout
        BY <3>1, <3>5 DEF RotationIsPickedUp
      <4>1. t.kid \in Kids /\ rotated[t.kid] \in Nat /\ t.kid \notin keys
        BY <3>1, <3>5
      <4>2. rotated[t.kid] <= fetchedAge
        BY <3>2, <4>1
      <4>3. attemptAge < Refetch
        BY <2>1, <3>2, <4>1
      <4>4. fetchedAge <= attemptAge \/ turned <= attemptAge
        BY <2>3, <4>3
      <4> QED
        BY <3>5, <4>1, <4>2, <4>3, <4>4
    <3> QED
      BY <2>2, <3>1, <3>3, <3>4 DEF IInv, AnswerInv, UnavailableMeansIt
  <2>5. CASE ~have'
    <3>1. fetchedAge >= Stale /\ attemptAge < Refetch /\ fetchedAge \in Nat /\ attemptAge \in Nat
      BY <1>1, <1>8, <2>1, <2>5 DEF TypeInv, Ages
    <3>2. lastFail = "failed"
      BY <2>3, <3>1
    <3> QED
      BY <2>1, <2>2, <2>5, <3>1, <3>2 DEF IInv, AnswerInv, RevokedKeyDies, UnavailableMeansIt, RotationIsPickedUp
  <2> QED
    BY <2>4, <2>5
<1>10. ASSUME NEW t \in Tokens, StartFetch(t) PROVE IInv'
  <2>1. /\ ~look.busy /\ UNCHANGED <<world, fetchedAge, lastFail>> /\ DropStale /\ answer' = NoAnswer
        /\ attemptAge' = 0
        /\ look' = [busy |-> TRUE, token |-> t, elapsed |-> 0, said |-> "nothing", sent |-> {}]
    BY <1>10 DEF StartFetch, Attempt
  <2>2. TypeInv' /\ CacheInv' /\ SaidInv'
    <3>1. look'.busy /\ look'.elapsed = 0 /\ look'.said = "nothing" /\ look' \in Looks
      BY <2>1 DEF Looks
    <3>6. SaidInv'
      BY <3>1 DEF SaidInv
    <3>2. fetchedAge \in Nat /\ attemptAge' \in Ages
      BY <1>1, <2>1 DEF TypeInv, Ages
    <3>3. TypeInv'
      BY <1>1, <1>8, <2>1, <3>1, <3>2 DEF TypeInv
    <3>4. have' => have /\ keys' = keys /\ fetchedAge < Stale + 0
      BY <1>8, <2>1, <3>2
    <3>5. CacheInv'
      BY <1>1, <1>8, <2>1, <3>1, <3>4 DEF CacheInv
    <3> QED
      BY <3>3, <3>5, <3>6
  <2> QED
    BY <1>2, <2>1, <2>2 DEF IInv
<1>13. CASE RealmAnswers
  <2>1. /\ look.busy /\ look.said = "nothing" /\ answer' = NoAnswer
        /\ UNCHANGED <<realm, up, rotated, turned, keys, have, fetchedAge, lastFail, attemptAge>>
        /\ look' = IF up THEN [look EXCEPT !.said = "set", !.sent = realm]
                   ELSE [look EXCEPT !.said = "failure"]
    BY <1>13 DEF RealmAnswers
  <2>2. /\ look' \in Looks /\ look'.busy /\ look'.elapsed = look.elapsed
        /\ look'.said = "set" => look'.sent = realm
        /\ look'.said = "failure" => ~up
    BY <1>0, <1>1, <2>1 DEF Looks, TypeInv
  <2>3. TypeInv' /\ CacheInv'
    BY <1>1, <2>1, <2>2 DEF TypeInv, CacheInv
  <2>4. SaidInv'
    BY <2>1, <2>2 DEF SaidInv
  <2> QED
    BY <1>2, <2>1, <2>3, <2>4 DEF IInv
<1>11. CASE FetchSucceeds
  <2>1. /\ look.busy /\ look.said = "set" /\ keys' = look.sent /\ have' = TRUE
        /\ fetchedAge' = look.elapsed /\ lastFail' = "none" /\ look' = NoLook
        /\ UNCHANGED <<world, attemptAge>>
        /\ Decide(look.token, look.token.kid \in look.sent, look.elapsed)
    BY <1>11 DEF FetchSucceeds
  <2>2. /\ look.elapsed \in 0..Timeout /\ look.sent \subseteq Kids
        /\ \A k \in Kids : (k \in look.sent) # (k \in realm) => rotated[k] <= look.elapsed
    BY <1>0, <1>1, <2>1 DEF SaidInv
  <2>3. TypeInv' /\ CacheInv' /\ SaidInv'
    <3>1. ~look'.busy /\ look'.busy \in BOOLEAN
      BY <2>1 DEF NoLook
    <3>2. TypeInv'
      BY <1>1, <2>1, <2>2 DEF TypeInv, Ages
    <3> QED
      BY <1>1, <2>1, <2>2, <3>1, <3>2 DEF CacheInv, SaidInv
  <2>4. /\ answer'.kid = look.token.kid /\ answer'.status # 503
        /\ answer'.status = 200 => look.token.kid \in look.sent
        /\ answer'.status = 401 /\ answer'.check = "key" => look.token.kid \notin look.sent
    <3>1. look.token \in Tokens /\ (look.token.kid \in look.sent) \in BOOLEAN
      BY <1>0, <2>1
    <3> QED
      BY <2>1, <3>1, DecideFact
  <2>5. /\ realm \subseteq Kids /\ \A k \in Kids : rotated[k] \in Nat
        /\ UNCHANGED <<realm, up, rotated, turned>>
    BY <1>1, <2>1 DEF TypeInv, Ages
  <2>6. RevokedKeyDies'
    BY <2>2, <2>4, <2>5 DEF RevokedKeyDies
  <2>7. RotationIsPickedUp'
    BY <2>2, <2>4, <2>5 DEF RotationIsPickedUp
  <2> QED
    BY <2>3, <2>4, <2>6, <2>7 DEF IInv, AnswerInv, UnavailableMeansIt
<1>12. CASE FetchFails
  <2>1. /\ look.busy /\ lastFail' = "failed" /\ look' = NoLook
        /\ UNCHANGED <<world, keys, have, fetchedAge, attemptAge>>
        /\ IF have THEN Decide(look.token, look.token.kid \in keys, look.elapsed)
           ELSE answer' = [status |-> 503, check |-> "failed", kid |-> look.token.kid]
    BY <1>12 DEF FetchFails, Fails, Unavailable, Answer
  <2>5. ~up \/ (turned <= look.elapsed /\ look.elapsed <= Timeout)
    BY <1>0, <1>1, <1>12 DEF FetchFails, Fails, SaidInv
  <2>6. attemptAge = look.elapsed /\ look.elapsed \in Nat /\ turned \in Nat
    BY <1>0, <1>1, <2>1 DEF CacheInv, TypeInv, Ages
  <2>2. TypeInv' /\ CacheInv' /\ SaidInv'
    <3>1. ~look'.busy /\ look'.busy \in BOOLEAN
      BY <2>1 DEF NoLook
    <3>2. TypeInv'
      BY <1>1, <2>1 DEF TypeInv
    <3> QED
      BY <1>1, <2>1, <2>5, <2>6, <3>1, <3>2 DEF CacheInv, SaidInv
  <2>3. CASE have
    <3>1. /\ answer'.kid = look.token.kid /\ answer'.status # 503
          /\ answer'.status = 200 => look.token.kid \in keys
          /\ answer'.status = 401 /\ answer'.check = "key" => look.token.kid \notin keys
      <4>1. look.token \in Tokens /\ (look.token.kid \in keys) \in BOOLEAN
        BY <1>0, <2>1
      <4>2. Decide(look.token, look.token.kid \in keys, look.elapsed)
        BY <2>1, <2>3
      <4> QED
        BY <4>1, <4>2, DecideFact
    <3>2. fetchedAge < Stale + Timeout /\ keys \subseteq Kids
          /\ \A k \in Kids : (k \in keys) # (k \in realm) => rotated[k] <= fetchedAge
          /\ fetchedAge \in Nat /\ \A i \in Kids : rotated[i] \in Nat
      <4>1. fetchedAge < Stale + look.elapsed /\ look.elapsed \in Nat /\ look.elapsed <= Timeout
        BY <1>0, <1>1, <2>1, <2>3 DEF CacheInv
      <4>2. fetchedAge \in Nat /\ keys \subseteq Kids /\ \A k \in Kids : rotated[k] \in Nat
        BY <1>1 DEF TypeInv, Ages
      <4> QED
        BY <1>1, <2>3, <4>1, <4>2 DEF CacheInv
    <3> QED
      <4>1. RevokedKeyDies'
        BY <2>1, <2>5, <2>6, <3>1, <3>2 DEF RevokedKeyDies
      <4>2. RotationIsPickedUp'
        BY <2>1, <2>5, <2>6 DEF RotationIsPickedUp
      <4> QED
        BY <2>2, <3>1, <4>1, <4>2 DEF IInv, AnswerInv, UnavailableMeansIt
  <2>4. CASE ~have
    <3>1. answer'.status = 503 /\ answer'.check = "failed"
      BY <2>1, <2>4
    <3>2. fetchedAge >= Stale
      BY <1>1, <2>4 DEF CacheInv
    <3> QED
      BY <2>1, <2>2, <2>4, <3>1, <3>2 DEF IInv, AnswerInv, RevokedKeyDies, UnavailableMeansIt,
                                          RotationIsPickedUp
  <2> QED
    BY <2>3, <2>4
<1> QED
  BY <1>3, <1>4, <1>5, <1>6, <1>7, <1>9, <1>10, <1>11, <1>12, <1>13 DEF Next

LEMMA Invariance == Spec => []IInv
<1> QED
  BY IInvInit, IInvStep, PTL DEF Spec

\* A key the realm has withdrawn admits nobody an hour later, nor once the set
\* is due unless the realm was down at the last attempt.
THEOREM RevokedDies == Spec => []RevokedKeyDies
<1> QED
  BY Invariance, PTL DEF IInv, AnswerInv

\* A 503 means that there was no key set for an hour, and names the failure.
THEOREM UnavailableIsTrue == Spec => []UnavailableMeansIt
<1> QED
  BY Invariance, PTL DEF IInv, AnswerInv

\* A published key is refused only within the window of its coming, or of the
\* realm's.
THEOREM RotationIsSeen == Spec => []RotationIsPickedUp
<1> QED
  BY Invariance, PTL DEF IInv, AnswerInv
=============================================================================
