----------------------------- MODULE TokenCheck -----------------------------
(***************************************************************************)
(* The token check before every import request (internal/importer/token    *)
(* and the middlewares of internal/importer/service): a request is refused *)
(* at the first check it fails, and its signing key comes from a cache of  *)
(* the realm's key set that one mutex guards.                              *)
(*                                                                         *)
(* A fetch of the key set holds the mutex, so `look' is the one request    *)
(* that fetches; the others wait and take their own time after it.  Times  *)
(* are ages that stop growing at Oldest. The realm rotates its keys and    *)
(* goes up and down at any instant, also while a fetch is on its way or    *)
(* its answer on the way back; an answer the client cannot use (a status,  *)
(* a size, a certificate) is a realm that is down. A token is what its     *)
(* checks tell apart: the kid it names, the checks it fails, and how long  *)
(* it is still or not yet valid once the leeway is counted.                *)
(***************************************************************************)
EXTENDS Integers, FiniteSets, SequencesExt

CONSTANTS Kids,      \* key identifiers the realm may publish
          Stranger,  \* one it never does
          Refetch,   \* refetchEvery
          TTL,       \* keySetTTL
          Stale,     \* keySetStale
          Timeout    \* keySetTimeout

ASSUME KidsAssumption == Stranger \notin Kids
ASSUME TimesAssumption ==
  /\ {Refetch, TTL, Stale, Timeout} \subseteq Nat \ {0}
  /\ Timeout < Refetch /\ Refetch < TTL /\ TTL < Stale

VARIABLES realm,      \* the kids the realm publishes
          up,         \* it answers
          rotated,    \* per kid, the age of its last coming or going
          turned,     \* the age of the last change of `up'
          keys, have, fetchedAge, attemptAge, lastFail,  \* keySet
          look,       \* the request that fetches, and what the realm said to it
          answer      \* what the last step answered

world == <<realm, up, rotated, turned>>
held == <<keys, have, fetchedAge, lastFail>>
vars == <<world, held, attemptAge, look, answer>>

Oldest == Stale + Timeout

\* The checks in the order they are made: the declared size, what Verify
\* checks before it looks the key up, and what comes after it.
Before == <<"size", "absent", "malformed", "algorithm", "no kid">>
After == <<"key type", "signature", "payload", "issuer", "audience",
           "expiry", "not before", "user", "cross site">>
Timed == {"expiry", "not before"}
Faults == ToSet(Before) \cup (ToSet(After) \ Timed)

\* A token that fails one check, or whose times run out (left -1: expired)
\* or come (wait 1: not yet valid) around the request.
Tokens ==
  [kid : Kids \cup {Stranger}, fault : Faults, left : {Timeout}, wait : {0}]
    \cup
  [kid : Kids \cup {Stranger}, fault : {"none"}, left : -1..Timeout,
   wait : 0..1]

NoLook == [busy |-> FALSE]
NoAnswer == [status |-> 0, check |-> "none", kid |-> Stranger]

Init ==
  /\ realm \in SUBSET Kids /\ up \in BOOLEAN
  /\ rotated = [k \in Kids |-> Oldest] /\ turned = Oldest
  /\ keys = {} /\ have = FALSE /\ lastFail = "none"
  /\ fetchedAge = Oldest /\ attemptAge = Oldest
  /\ look = NoLook /\ answer = NoAnswer

----------------------------------------------------------------------------
(* The world.                                                              *)

Rotate(k) ==
  /\ realm' = (realm \ {k}) \cup ({k} \ realm)
  /\ rotated' = [rotated EXCEPT ![k] = 0]
  /\ answer' = NoAnswer
  /\ UNCHANGED <<up, turned, held, attemptAge, look>>

Turn ==
  /\ up' = ~up /\ turned' = 0
  /\ answer' = NoAnswer
  /\ UNCHANGED <<realm, rotated, held, attemptAge, look>>

Older(a) == IF a < Oldest THEN a + 1 ELSE Oldest

\* The client's timeout bounds a fetch.
Tick ==
  /\ look.busy => look.elapsed < Timeout
  /\ rotated' = [k \in Kids |-> Older(rotated[k])]
  /\ turned' = Older(turned)
  /\ fetchedAge' = Older(fetchedAge)
  /\ attemptAge' = Older(attemptAge)
  /\ look' = IF look.busy THEN [look EXCEPT !.elapsed = @ + 1] ELSE look
  /\ answer' = NoAnswer
  /\ UNCHANGED <<realm, up, keys, have, lastFail>>

----------------------------------------------------------------------------
(* Answers.                                                                *)

Answer(t, status, check) ==
  answer' = [status |-> status, check |-> check, kid |-> t.kid]

FirstOf(order, failed) ==
  order[SelectInSeq(order, LAMBDA c : c \in failed)]

Status(check) ==
  CASE check = "size" -> 413
    [] check \in {"user", "cross site"} -> 403
    [] OTHER -> 401

\* The claims' times are read when they are checked, after the fetch.
FailedAfter(t, elapsed) ==
  ({t.fault} \cap ToSet(After))
    \cup (IF elapsed > t.left THEN {"expiry"} ELSE {})
    \cup (IF elapsed < t.wait THEN {"not before"} ELSE {})

Decide(t, found, elapsed) ==
  LET failed == FailedAfter(t, elapsed)
  IN IF ~found THEN Answer(t, 401, "key")
     ELSE IF failed = {} THEN Answer(t, 200, "none")
     ELSE LET c == FirstOf(After, failed) IN Answer(t, Status(c), c)

Unavailable(t, reason) == Answer(t, 503, reason)

----------------------------------------------------------------------------
(* A request: refused before its key is looked up, answered from the set   *)
(* that is held, or the one that fetches.                                  *)

Refuse(t) ==
  /\ ~look.busy
  /\ t.fault \in ToSet(Before)
  /\ Answer(t, Status(t.fault), t.fault)
  /\ UNCHANGED <<world, held, attemptAge, look>>

\* Seeded fault: a set is never too old to be held.
DropForever == UNCHANGED <<have, keys>>

\* A set of an hour is dropped, whatever follows.
DropStale ==
  IF have /\ fetchedAge >= Stale
  THEN have' = FALSE /\ keys' = {}
  ELSE UNCHANGED <<have, keys>>

\* Seeded fault: an unknown kid waits for the set to be due.
MustFetchWhenDue(kid) == ~have' \/ fetchedAge >= TTL

\* The set is due, or does not name the kid.
MustFetch(kid) == ~have' \/ fetchedAge >= TTL \/ kid \notin keys'

WindowOpen == attemptAge >= Refetch

\* The set that is held answers, or the window is closed: then the answer
\* is what is held, and the last failure when nothing is.
AnswerFromHeld(t) ==
  /\ ~look.busy
  /\ t.fault \notin ToSet(Before)
  /\ DropStale
  /\ MustFetch(t.kid) => ~WindowOpen
  /\ IF have' THEN Decide(t, t.kid \in keys', 0)
     ELSE Unavailable(t, IF lastFail # "none" THEN lastFail ELSE "window")
  /\ UNCHANGED <<world, fetchedAge, lastFail, attemptAge, look>>

Attempt == attemptAge' = 0

StartFetch(t) ==
  /\ ~look.busy
  /\ t.fault \notin ToSet(Before)
  /\ DropStale
  /\ MustFetch(t.kid) /\ WindowOpen
  /\ Attempt
  /\ look' = [busy |-> TRUE, token |-> t, elapsed |-> 0, said |-> "nothing", sent |-> {}]
  /\ answer' = NoAnswer
  /\ UNCHANGED <<world, fetchedAge, lastFail>>

\* The realm composes its answer, which is the older when it arrives.
RealmAnswers ==
  /\ look.busy /\ look.said = "nothing"
  /\ look' = IF up THEN [look EXCEPT !.said = "set", !.sent = realm]
             ELSE [look EXCEPT !.said = "failure"]
  /\ answer' = NoAnswer
  /\ UNCHANGED <<world, held, attemptAge>>

\* The set replaces the held one and is as old as the fetch.
FetchSucceeds ==
  /\ look.busy /\ look.said = "set"
  /\ keys' = look.sent /\ have' = TRUE
  /\ fetchedAge' = look.elapsed
  /\ lastFail' = "none"
  /\ Decide(look.token, look.token.kid \in look.sent, look.elapsed)
  /\ look' = NoLook
  /\ UNCHANGED <<world, attemptAge>>

\* A fetch fails by what the realm says or by a connection that breaks off.
Fails == look.busy /\ (look.said = "failure" \/ ~up)

\* Seeded fault: a failed fetch leaves no set.
FetchFailsAndDrops ==
  /\ Fails
  /\ lastFail' = "failed" /\ have' = FALSE /\ keys' = {}
  /\ Unavailable(look.token, "failed")
  /\ look' = NoLook
  /\ UNCHANGED <<world, fetchedAge, attemptAge>>

\* The held set, if any, stays and answers.
FetchFails ==
  /\ Fails
  /\ lastFail' = "failed"
  /\ IF have THEN Decide(look.token, look.token.kid \in keys, look.elapsed)
     ELSE Unavailable(look.token, "failed")
  /\ look' = NoLook
  /\ UNCHANGED <<world, keys, have, fetchedAge, attemptAge>>

Next ==
  \/ \E k \in Kids : Rotate(k)
  \/ Turn \/ Tick
  \/ \E t \in Tokens : Refuse(t) \/ AnswerFromHeld(t) \/ StartFetch(t)
  \/ RealmAnswers \/ FetchSucceeds \/ FetchFails

Spec == Init /\ [][Next]_vars

----------------------------------------------------------------------------

\* A key the realm has withdrawn admits nobody an hour later, whatever the
\* realm answers meanwhile (the hour is judged before the fetch, so a fetch
\* that runs into its timeout may add that); and once the set is due it
\* admits nobody unless the realm was down within the last attempt
\* (keySetStale, keySetTTL).
RevokedKeyDies ==
  answer.status = 200 /\ answer.kid \notin realm =>
    /\ rotated[answer.kid] < Stale + Timeout
    /\ rotated[answer.kid] < TTL \/ ~up \/ turned < Refetch + Timeout

\* A 503 says that the realm gave no key set for an hour, or never gave one,
\* and always names the failure of a fetch: the reason that only says a
\* fetch was recent is never the one shown (refresh's "the cause stays
\* visible").
UnavailableMeansIt ==
  answer.status = 503 => ~have /\ fetchedAge >= Stale /\ answer.check = "failed"

\* A token whose key the realm has published is not refused for its key
\* beyond the window: refused, the key came, or the realm came back, since
\* shortly before the last attempt.
RotationIsPickedUp ==
  /\ answer.status = 401 /\ answer.check = "key"
  /\ answer.kid \in realm /\ up
  => rotated[answer.kid] < Refetch + Timeout \/ turned < Refetch + Timeout

============================================================================
