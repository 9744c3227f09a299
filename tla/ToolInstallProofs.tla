-------------------------- MODULE ToolInstallProofs --------------------------
(***************************************************************************)
(* Proofs about ToolInstall for any set of Trivy releases and any number   *)
(* of crashes.  The inductive invariant IInv says, for the place the one   *)
(* operation is at, what it may count on: a crash keeps it because it      *)
(* takes the operation away and leaves the volume as it is.                *)
(***************************************************************************)
EXTENDS ToolInstall, TLAPS

Contents == {"none", "partial", "hollow", "whole"}
Installing == {"fetch", "download", "clear", "extract", "fill", "aside", "place"}
Linking == {"unlink", "symlink", "switch"}
Steps == {"done", "check", "stat", "sweep", "bin"} \cup Installing \cup Linking
Results == {"none", "failed", "ok", "too recent", "no executable", "not installed"}
Names == [of : Targets, at : Places \cup {"none"}]
Operations ==
  [kind : {"none", "update", "activate", "pnpm"}, target : Names, force : BOOLEAN,
   recommended : BOOLEAN, step : Steps, moved : BOOLEAN, clean : BOOLEAN,
   result : Results]

TypeInv ==
  /\ age \in [Versions -> {"none", "recent", "aged"}]
  /\ dir \in [Targets -> Contents]
  /\ tmp \in [Targets -> Contents]
  /\ old \in [Targets -> Contents]
  /\ link \in Names /\ linkTmp \in BOOLEAN
  /\ op \in Operations
  /\ offered \in Versions \cup {0}

\* Which operation comes to which step, and about what.
ShapeInv ==
  /\ op.kind = "update" => op.target.of \in Versions /\ op.target.at = "dir"
  /\ op.kind = "activate" => op.target.of \in Versions
  /\ op.kind = "pnpm" => op.target.of = Pnpm
  /\ op.kind = "none" => op.step = "done"
  /\ op.step = "check" => op.kind = "update"
  /\ op.step \in {"stat", "bin"} => op.kind = "pnpm"
  /\ op.step \in Installing \cup {"sweep"} => op.kind \in {"update", "pnpm"}
  /\ op.step \in Linking => op.kind \in {"update", "activate"}

\* An install replaces nothing that works: no Trivy at all, and no pnpm with its
\* executable.
ReplacedInv ==
  /\ op.step \in Installing => dir[T] # "whole"
  /\ op.step = "place" => dir[T] = "none"
  /\ op.step \in ({"check", "stat"} \cup Installing) \ {"place"} => ~op.moved
  /\ op.step = "place" /\ op.moved => T = Pnpm /\ old[T] = "hollow"

\* What is put in place was extracted to its end.
StagedInv ==
  op.step \in {"aside", "place"} =>
    tmp[T] = "whole" \/ (T = Pnpm /\ tmp[T] = "hollow")

\* What an update activates is whole, and nothing lies in the link's way.
LinkInv ==
  /\ op.step = "sweep" /\ op.kind = "update" => dir[T] = "whole"
  /\ op.step = "unlink" /\ op.kind = "update" => dir[T] = "whole"
  /\ op.step \in {"symlink", "switch"} /\ op.target.at = "dir" => dir[T] = "whole"
  /\ op.step = "symlink" => ~linkTmp

\* A release past the check is old enough or forced, and a recommended one is
\* old enough from the start.
AgeInv ==
  /\ offered # 0 => age[offered] = "aged"
  /\ op.recommended => op.kind = "update" /\ age[T] = "aged" /\ op.result # "too recent"
  /\ op.kind = "update" => age[T] # "none"
  /\ op.kind = "update" /\ op.step \in Installing \cup Linking \cup {"sweep"}
       => op.force \/ age[T] = "aged"

IInv ==
  /\ TypeInv /\ ShapeInv /\ ReplacedInv /\ StagedInv /\ LinkInv /\ AgeInv
  /\ InstallsAreWhole /\ DebrisNeverBlocks

-----------------------------------------------------------------------------

LEMMA InitInv == Init => IInv
<1> SUFFICES ASSUME Init PROVE IInv
  OBVIOUS
<1> USE DEF Init, Idle, NoName, Targets, Pnpm
<1>1. TypeInv
  BY DEF TypeInv, Contents, Names, Places, Steps, Operations, Results
<1>2. ShapeInv /\ ReplacedInv /\ StagedInv /\ LinkInv /\ AgeInv
  BY DEF ShapeInv, ReplacedInv, StagedInv, LinkInv, AgeInv, Installing, Linking, T
<1>3. InstallsAreWhole /\ DebrisNeverBlocks
  BY DEF InstallsAreWhole, DebrisNeverBlocks, Holds, At
<1> QED
  BY <1>1, <1>2, <1>3 DEF IInv

\* The releases and the page change nothing an operation counts on.
LEMMA WorldInv ==
  ASSUME IInv,
         (\E v \in Versions : Publish(v) \/ PassesMinimumAge(v)) \/ GetTools
  PROVE  IInv'
<1> USE DEF IInv
<1>1. UNCHANGED <<dir, tmp, old, link, linkTmp, op>>
  BY DEF Publish, PassesMinimumAge, GetTools, volume
<1>2. age' \in [Versions -> {"none", "recent", "aged"}]
  <2>1. \A v \in Versions : Publish(v) => age' = [age EXCEPT ![v] = "recent"]
    BY DEF Publish
  <2>2. \A v \in Versions : PassesMinimumAge(v) => age' = [age EXCEPT ![v] = "aged"]
    BY DEF PassesMinimumAge
  <2>3. GetTools => age' = age
    BY DEF GetTools, release
  <2> QED
    BY <2>1, <2>2, <2>3 DEF TypeInv
<1>3. \A v \in Versions : /\ age[v] = "aged" => age'[v] = "aged"
                          /\ age[v] # "none" => age'[v] # "none"
  BY DEF Publish, PassesMinimumAge, GetTools, release, TypeInv
<1>4. offered' \in Versions \cup {0} /\ (offered' # 0 => age'[offered'] = "aged")
  BY <1>3 DEF Publish, PassesMinimumAge, GetTools, release, TypeInv, AgeInv, RecommendedTrivy
<1>5. TypeInv'
  BY <1>1, <1>2, <1>4 DEF TypeInv
<1>6. AgeInv'
  BY <1>1, <1>3, <1>4 DEF AgeInv, ShapeInv, T
<1>7. ShapeInv' /\ ReplacedInv' /\ StagedInv' /\ LinkInv'
  BY <1>1 DEF ShapeInv, ReplacedInv, StagedInv, LinkInv, T
<1>8. InstallsAreWhole' /\ DebrisNeverBlocks'
  BY <1>1 DEF InstallsAreWhole, DebrisNeverBlocks, Holds, At
<1> QED
  BY <1>5, <1>6, <1>7, <1>8

\* An operation that begins finds what the last one left.
LEMMA TakesInv ==
  ASSUME IInv,
         \/ \E v \in Versions, force \in BOOLEAN : UpdateTrivy(v, force)
         \/ \E n \in [of : Versions, at : Places] : ActivateTrivy(n)
         \/ EnsurePnpm
  PROVE  IInv'
<1> USE DEF IInv
<1>1. UNCHANGED <<age, dir, tmp, old, link, linkTmp, offered>>
  BY DEF UpdateTrivy, ActivateTrivy, EnsurePnpm, Takes, volume, release
<1>2. CASE \E v \in Versions, force \in BOOLEAN : UpdateTrivy(v, force)
  <2> PICK v \in Versions, force \in BOOLEAN : UpdateTrivy(v, force)
    BY <1>2
  <2> PICK shown \in BOOLEAN : shown = (v = offered)
    OBVIOUS
  <2>1. /\ op' = [Idle EXCEPT !.kind = "update", !.target = [of |-> v, at |-> "dir"],
                              !.force = force, !.recommended = shown,
                              !.step = "check"]
        /\ age[v] # "none"
    BY DEF UpdateTrivy, Takes
  <2>2. TypeInv'
    <3>1. [of |-> v, at |-> "dir"] \in Names
      BY DEF Names, Targets, Places
    <3>2. op' \in Operations
      BY <2>1, <3>1 DEF Operations, Idle, Steps, Results
    <3> QED
      BY <1>1, <3>2 DEF TypeInv
  <2>3. /\ op'.kind = "update" /\ op'.target = [of |-> v, at |-> "dir"] /\ op'.step = "check"
        /\ op'.recommended = shown /\ op'.result = "none" /\ op'.moved = FALSE
    BY <2>1 DEF Idle
  <2>4. ShapeInv' /\ ReplacedInv' /\ StagedInv' /\ LinkInv'
    BY <2>3 DEF ShapeInv, ReplacedInv, StagedInv, LinkInv, Installing, Linking
  <2>5. AgeInv'
    <3>1. T' = v /\ op'.kind = "update" /\ op'.step \notin Installing \cup Linking \cup {"sweep"}
      BY <2>3 DEF T, Installing, Linking
    <3>2. op'.recommended => age[v] = "aged"
      BY <2>3, VersionsAssumption DEF AgeInv
    <3>3. offered # 0 => age[offered] = "aged"
      BY DEF AgeInv
    <3> QED
      BY <1>1, <2>1, <2>3, <3>1, <3>2, <3>3 DEF AgeInv
  <2>6. InstallsAreWhole' /\ DebrisNeverBlocks'
    BY <1>1, <2>3 DEF InstallsAreWhole, DebrisNeverBlocks, Holds, At
  <2> QED
    BY <2>2, <2>4, <2>5, <2>6
<1>3. CASE \E n \in [of : Versions, at : Places] : ActivateTrivy(n)
  <2> PICK n \in [of : Versions, at : Places] : ActivateTrivy(n)
    BY <1>3
  <2>1. op' = [Idle EXCEPT !.kind = "activate", !.target = n, !.force = FALSE,
                           !.recommended = FALSE, !.step = "unlink"]
    BY DEF ActivateTrivy, Takes
  <2>2. TypeInv'
    BY <1>1, <2>1 DEF TypeInv, Operations, Results, Idle, Names, Targets, Places, Steps, Linking
  <2>3. /\ op'.kind = "activate" /\ op'.target = n /\ op'.step = "unlink"
        /\ op'.recommended = FALSE /\ op'.result = "none" /\ op'.moved = FALSE
    BY <2>1 DEF Idle
  <2>4. ShapeInv' /\ ReplacedInv' /\ StagedInv' /\ LinkInv'
    BY <2>3 DEF ShapeInv, ReplacedInv, StagedInv, LinkInv, Installing, Linking
  <2>5. AgeInv'
    BY <1>1, <2>3 DEF AgeInv
  <2>6. InstallsAreWhole' /\ DebrisNeverBlocks'
    BY <1>1, <2>3 DEF InstallsAreWhole, DebrisNeverBlocks, Holds, At
  <2> QED
    BY <2>2, <2>4, <2>5, <2>6
<1>4. CASE EnsurePnpm
  <2>1. op' = [Idle EXCEPT !.kind = "pnpm", !.target = [of |-> Pnpm, at |-> "dir"],
                           !.force = FALSE, !.recommended = FALSE, !.step = "stat"]
    BY <1>4 DEF EnsurePnpm, Takes
  <2>2. TypeInv'
    BY <1>1, <2>1 DEF TypeInv, Operations, Results, Idle, Names, Targets, Places, Steps
  <2>3. /\ op'.kind = "pnpm" /\ op'.target = [of |-> Pnpm, at |-> "dir"] /\ op'.step = "stat"
        /\ op'.recommended = FALSE /\ op'.result = "none" /\ op'.moved = FALSE
    BY <2>1 DEF Idle
  <2>4. ShapeInv' /\ ReplacedInv' /\ StagedInv' /\ LinkInv'
    BY <2>3 DEF ShapeInv, ReplacedInv, StagedInv, LinkInv, Installing, Linking
  <2>5. AgeInv'
    BY <1>1, <2>3 DEF AgeInv
  <2>6. InstallsAreWhole' /\ DebrisNeverBlocks'
    BY <1>1, <2>3 DEF InstallsAreWhole, DebrisNeverBlocks, Holds, At
  <2> QED
    BY <2>2, <2>4, <2>5, <2>6
<1> QED
  BY <1>2, <1>3, <1>4

\* What is left of an operation that goes on or ends.
Same == /\ op'.kind = op.kind /\ op'.target = op.target /\ op'.force = op.force
        /\ op'.recommended = op.recommended /\ op'.moved = op.moved

LEMMA ThenFact ==
  ASSUME TypeInv, NEW s \in Steps, Then(s)
  PROVE  /\ op' \in Operations /\ Same
         /\ op'.step = s /\ op'.result = op.result /\ op'.clean = op.clean
BY DEF TypeInv, Then, Operations, Same

LEMMA EndsFact ==
  ASSUME TypeInv, NEW r \in Results, Ends(r)
  PROVE  /\ op' \in Operations /\ Same
         /\ op'.step = "done" /\ op'.result = r /\ op'.clean = op.clean
BY DEF TypeInv, Ends, Operations, Same, Steps

LEMMA FailsFact ==
  ASSUME TypeInv, NEW debris \in BOOLEAN, FailsOn(debris)
  PROVE  /\ op' \in Operations /\ Same
         /\ op'.step = "done" /\ op'.result = "failed" /\ op'.clean = (op.clean /\ debris)
<1> PICK c \in BOOLEAN : c = (op.clean /\ debris)
  OBVIOUS
<1>1. op' = [op EXCEPT !.step = "done", !.result = "failed", !.clean = c]
  BY DEF FailsOn
<1> QED
  BY <1>1 DEF TypeInv, Operations, Same, Steps, Results

\* Only the versions' directories and the link matter to what is installed.
LEMMA WholeKept ==
  ASSUME InstallsAreWhole, UNCHANGED <<dir, link>> PROVE InstallsAreWhole'
BY DEF InstallsAreWhole, Holds

\* The operation goes on.
LEMMA GoesOn ==
  ASSUME IInv, TypeInv', Same, op'.step # "done", op'.result = op.result,
         UNCHANGED <<age, offered>>,
         op'.step = "check" => op.kind = "update",
         op'.step \in {"stat", "bin"} => op.kind = "pnpm",
         op'.step \in Installing \cup {"sweep"} => op.kind \in {"update", "pnpm"},
         op'.step \in Linking => op.kind \in {"update", "activate"},
         op.kind = "update" => op.force \/ age[T] = "aged",
         ReplacedInv', StagedInv', LinkInv', InstallsAreWhole'
  PROVE  IInv'
<1>1. op.kind # "none"
  BY DEF IInv, TypeInv, Operations, Steps
<1>2. ShapeInv'
  <2>1. op'.kind = op.kind /\ op'.target = op.target
    BY DEF Same
  <2>2. /\ op.kind = "update" => op.target.of \in Versions /\ op.target.at = "dir"
        /\ op.kind = "activate" => op.target.of \in Versions
        /\ op.kind = "pnpm" => op.target.of = Pnpm
    BY DEF IInv, ShapeInv
  <2> QED
    BY <1>1, <2>1, <2>2 DEF ShapeInv
<1>3. AgeInv'
  <2>1. op'.kind = op.kind /\ op'.force = op.force /\ op'.recommended = op.recommended /\ T' = T
    BY DEF Same, T
  <2>2. /\ offered # 0 => age[offered] = "aged"
        /\ op.recommended => op.kind = "update" /\ age[T] = "aged" /\ op.result # "too recent"
        /\ op.kind = "update" => age[T] # "none"
    BY DEF IInv, AgeInv
  <2> QED
    BY <2>1, <2>2 DEF AgeInv
<1>4. DebrisNeverBlocks'
  BY DEF DebrisNeverBlocks, At
<1> QED
  BY <1>2, <1>3, <1>4 DEF IInv

\* The operation ends.
LEMMA ComesToItsEnd ==
  ASSUME IInv, TypeInv', Same, op'.step = "done", UNCHANGED <<age, offered>>,
         op.recommended => op'.result # "too recent",
         InstallsAreWhole', DebrisNeverBlocks'
  PROVE  IInv'
<1>1. ShapeInv'
  BY DEF IInv, ShapeInv, Same, Installing, Linking
<1>2. ReplacedInv' /\ StagedInv' /\ LinkInv'
  BY DEF ReplacedInv, StagedInv, LinkInv, Installing
<1>3. AgeInv'
  BY DEF IInv, AgeInv, Same, T, Installing, Linking
<1> QED
  BY <1>1, <1>2, <1>3 DEF IInv

\* The operation fails by a failure of its own, whatever it leaves in staging.
LEMMA FailsInv ==
  ASSUME IInv, FailsOn(FALSE), UNCHANGED <<age, offered, dir, link>>,
         tmp' \in [Targets -> Contents], old' \in [Targets -> Contents], linkTmp' \in BOOLEAN
  PROVE  IInv'
<1>1. op' \in Operations /\ Same /\ op'.step = "done" /\ op'.result = "failed" /\ ~op'.clean
  BY FailsFact DEF IInv
<1>2. TypeInv'
  BY <1>1 DEF IInv, TypeInv
<1>3. InstallsAreWhole'
  BY WholeKept DEF IInv
<1>4. DebrisNeverBlocks'
  BY <1>1 DEF DebrisNeverBlocks
<1> QED
  BY <1>1, <1>2, <1>3, <1>4, ComesToItsEnd

\* A step that only moves the operation on.
LEMMA MovesInv ==
  ASSUME IInv,
         \/ CheckRelease \/ StatPnpm \/ FetchPnpm \/ FindAsset \/ Download \/ StatBin
  PROVE  IInv'
<1>1. UNCHANGED <<age, dir, tmp, old, link, linkTmp, offered>>
  BY DEF CheckRelease, StatPnpm, FetchPnpm, FindAsset, Download, StatBin, volume, release
<1> USE DEF IInv
<1>2. ASSUME op' \in Operations PROVE TypeInv'
  BY <1>1, <1>2 DEF TypeInv
<1>3. {"unlink", "fetch", "download", "clear"} \subseteq Steps
      /\ {"too recent", "ok", "no executable"} \subseteq Results
  BY DEF Steps, Results, Installing, Linking
<1>4. InstallsAreWhole'
  BY <1>1, WholeKept
<1>5. ASSUME NEW s \in {"clear", "download", "fetch"}, Then(s),
             op.kind \in {"update", "pnpm"}, op.kind = "update" => op.force \/ age[T] = "aged",
             dir[T] # "whole", ~op.moved
      PROVE  IInv'
  <2>1. op' \in Operations /\ Same /\ op'.step = s /\ op'.result = op.result
    BY <1>3, <1>5, ThenFact
  <2>2. ReplacedInv' /\ StagedInv' /\ LinkInv'
    BY <1>1, <1>5, <2>1 DEF Same, ReplacedInv, StagedInv, LinkInv, T
  <2> QED
    BY <1>1, <1>2, <1>4, <1>5, <2>1, <2>2, GoesOn DEF Linking
<1>6. CASE CheckRelease
  <2>1. op.kind = "update" /\ op.step = "check" /\ ~op.moved
    BY <1>6 DEF CheckRelease, At, ShapeInv, ReplacedInv
  <2>2. CASE ~op.force /\ age[T] = "recent"
    <3>1. Ends("too recent")
      BY <1>6, <2>2 DEF CheckRelease, TooRecent, T
    <3>2. ~op.recommended
      BY <2>2 DEF AgeInv
    <3>3. op' \in Operations /\ Same /\ op'.step = "done" /\ op'.result = "too recent"
      BY <1>3, <3>1, EndsFact
    <3>4. DebrisNeverBlocks'
      BY <2>1, <3>3 DEF DebrisNeverBlocks, Same
    <3> QED
      BY <1>1, <1>2, <1>4, <3>2, <3>3, <3>4, ComesToItsEnd
  <2>3. ASSUME ~(~op.force /\ age[T] = "recent") PROVE op.force \/ age[T] = "aged"
    BY <2>1, <2>3 DEF AgeInv, ShapeInv, TypeInv, T
  <2>6. CASE FailsOn(FALSE)
    BY <1>1, <1>6, <2>6, FailsInv DEF TypeInv, CheckRelease
  <2>4. ASSUME ~(~op.force /\ age[T] = "recent"), dir[T] # "none", ~FailsOn(FALSE) PROVE IInv'
    <3>1. op.target \in InstalledTrivy
      BY <2>1, <2>4 DEF InstalledTrivy, Holds, ShapeInv, TypeInv, Operations, Names, T, Places
    <3>2. Then("unlink")
      BY <1>6, <2>4, <3>1 DEF CheckRelease, TooRecent, Fails, T
    <3>3. op' \in Operations /\ Same /\ op'.step = "unlink" /\ op'.result = op.result
      BY <1>3, <3>2, ThenFact
    <3>4. dir[T] = "whole"
      BY <2>1, <2>4 DEF InstallsAreWhole, ShapeInv, T
    <3>5. ReplacedInv' /\ StagedInv' /\ LinkInv'
      BY <1>1, <3>3, <3>4 DEF Same, ReplacedInv, StagedInv, LinkInv, T, Installing
    <3> QED
      BY <1>1, <1>2, <1>4, <2>1, <2>3, <2>4, <3>3, <3>5, GoesOn DEF Installing
  <2>5. ASSUME ~(~op.force /\ age[T] = "recent"), dir[T] = "none", ~FailsOn(FALSE) PROVE IInv'
    <3>1. op.target \notin InstalledTrivy
      BY <2>1, <2>5 DEF InstalledTrivy, Holds, ShapeInv, T
    <3>2. Then("fetch")
      BY <1>6, <2>5, <3>1 DEF CheckRelease, TooRecent, Fails, T
    <3> QED
      BY <1>5, <2>1, <2>3, <2>5, <3>2
  <2> QED
    BY <2>2, <2>4, <2>5, <2>6
<1>7. CASE StatPnpm
  <2>1. op.step = "stat" /\ op.kind = "pnpm" /\ T = Pnpm /\ ~op.moved
    BY <1>7 DEF StatPnpm, At, ShapeInv, ReplacedInv, T
  <2>2. CASE dir[Pnpm] = "whole"
    <3>1. Ends("ok")
      BY <1>7, <2>2 DEF StatPnpm
    <3>2. op' \in Operations /\ Same /\ op'.step = "done" /\ op'.result = "ok"
      BY <1>3, <3>1, EndsFact
    <3>3. DebrisNeverBlocks'
      BY <1>1, <2>1, <2>2, <3>2 DEF DebrisNeverBlocks, Same
    <3> QED
      BY <1>1, <1>2, <1>4, <3>2, <3>3, ComesToItsEnd
  <2>3. CASE dir[Pnpm] # "whole"
    <3>1. Then("fetch")
      BY <1>7, <2>3 DEF StatPnpm
    <3> QED
      BY <1>5, <2>1, <2>3, <3>1
  <2> QED
    BY <2>2, <2>3
<1>8. CASE FetchPnpm \/ FindAsset \/ Download
  <2>1. op.step \in {"fetch", "download"}
    BY <1>8 DEF FetchPnpm, FindAsset, Download, At
  <2>2. CASE Then("clear") \/ Then("download")
    <3>1. op.kind \in {"update", "pnpm"} /\ dir[T] # "whole" /\ ~op.moved
      BY <2>1 DEF ShapeInv, ReplacedInv, Installing
    <3>2. op.kind = "update" => op.force \/ age[T] = "aged"
      BY <2>1 DEF AgeInv, Installing
    <3> QED
      BY <1>5, <2>2, <3>1, <3>2
  <2>3. CASE FailsOn(FALSE)
    BY <1>1, <2>3, FailsInv DEF TypeInv
  <2> QED
    BY <1>8, <2>2, <2>3 DEF FetchPnpm, FindAsset, Download, Fails
<1>9. CASE StatBin
  <2>1. op.step = "bin" /\ op.kind = "pnpm"
    BY <1>9 DEF StatBin, At, ShapeInv
  <2>2. PICK r \in Results : r = IF dir[Pnpm] = "whole" THEN "ok" ELSE "no executable"
    BY <1>3
  <2>3. Ends(r)
    BY <1>9, <2>2 DEF StatBin
  <2>4. op' \in Operations /\ Same /\ op'.step = "done" /\ op'.result = r
    BY <2>3, EndsFact
  <2>5. DebrisNeverBlocks'
    BY <1>1, <2>1, <2>2, <2>4 DEF DebrisNeverBlocks, Same
  <2> QED
    BY <1>1, <1>2, <1>4, <2>2, <2>4, <2>5, ComesToItsEnd
<1> QED
  BY <1>6, <1>7, <1>8, <1>9

\* What an install does to its own target, and to nothing else.
LEMMA InstallsInv ==
  ASSUME IInv, ClearStaging \/ BeginExtract \/ FinishExtract \/ MoveAside \/ PutInPlace \/ SweepOld
  PROVE  IInv'
<1> USE DEF IInv
<1>1. UNCHANGED <<age, link, linkTmp, offered>>
  BY DEF ClearStaging, BeginExtract, FinishExtract, MoveAside, PutInPlace, SweepOld, release
<1>2. /\ {"extract", "fill", "aside", "place", "sweep", "bin", "unlink"} \subseteq Steps
      /\ {"extract", "fill", "aside", "place"} \subseteq Installing
      /\ "done" \notin Installing /\ "sweep" \notin Installing /\ "bin" \notin Installing
      /\ "unlink" \notin Installing
  BY DEF Steps, Installing, Linking
<1>3. op.kind \in {"update", "pnpm"} /\ op.step \in Installing \cup {"sweep"} /\ T \in Targets
  BY DEF ClearStaging, BeginExtract, FinishExtract, MoveAside, PutInPlace, SweepOld, At,
         Installing, ShapeInv, Targets, T
<1>4. \A c \in Contents, done \in BOOLEAN : Cleared(c, done) \in {"none", "partial"}
  BY DEF Cleared
<1>5. /\ \A done \in BOOLEAN : tmp' = [tmp EXCEPT ![T] = Cleared(@, done)]
                                 => tmp' \in [Targets -> Contents]
      /\ \A done \in BOOLEAN : old' = [old EXCEPT ![T] = Cleared(@, done)]
                                 => old' \in [Targets -> Contents]
  BY <1>4 DEF TypeInv, Contents
<1>6. /\ link' = link /\ age' = age /\ linkTmp' = linkTmp
      /\ dir \in [Targets -> Contents] /\ tmp \in [Targets -> Contents]
      /\ old \in [Targets -> Contents] /\ linkTmp \in BOOLEAN
  BY <1>1 DEF TypeInv
<1>7. ASSUME op' \in Operations, dir' \in [Targets -> Contents], tmp' \in [Targets -> Contents],
             old' \in [Targets -> Contents]
      PROVE  TypeInv'
  BY <1>1, <1>7 DEF TypeInv
<1>8. op.kind = "update" => op.force \/ age[T] = "aged"
  BY <1>3 DEF AgeInv
\* The install goes on inside the staging directory, or fails there.
<1>9. ASSUME NEW s \in {"extract", "fill", "aside", "place"}, Then(s), dir' = dir, old' = old,
             tmp' \in [Targets -> Contents], dir[T] # "whole", ~op.moved,
             s = "place" => dir[T] = "none",
             s \in {"aside", "place"} => tmp'[T] = "whole" \/ (T = Pnpm /\ tmp'[T] = "hollow")
      PROVE  IInv'
  <2>1. op' \in Operations /\ Same /\ op'.step = s /\ op'.result = op.result
    BY <1>2, <1>9, ThenFact
  <2>2. T' = T /\ op'.moved = op.moved
    BY <2>1 DEF Same, T
  <2>3. TypeInv'
    BY <1>6, <1>7, <1>9, <2>1
  <2>4. ReplacedInv' /\ StagedInv'
    BY <1>9, <2>1, <2>2 DEF ReplacedInv, StagedInv
  <2>5. LinkInv'
    BY <1>9, <2>1 DEF LinkInv
  <2>6. InstallsAreWhole'
    BY <1>6, <1>9, WholeKept
  <2>7. s # "check" /\ s \notin {"stat", "bin"} /\ s \notin Linking /\ s # "done"
    BY <1>9 DEF Linking
  <2> QED
    BY <1>1, <1>3, <1>8, <2>1, <2>3, <2>4, <2>5, <2>6, <2>7, GoesOn
<1>10. ASSUME Fails, dir' = dir, old' = old,
              \E done \in BOOLEAN : tmp' = [tmp EXCEPT ![T] = Cleared(@, done)]
       PROVE  IInv'
  <2>1. tmp' \in [Targets -> Contents]
    BY <1>5, <1>10
  <2>2. FailsOn(FALSE) /\ UNCHANGED <<age, offered, dir, link>>
    BY <1>1, <1>10 DEF Fails
  <2> QED
    BY <1>6, <1>10, <2>1, <2>2, FailsInv
<1>11. CASE ClearStaging
  <2> PICK done \in BOOLEAN : /\ tmp' = [tmp EXCEPT ![T] = Cleared(@, done)]
                              /\ IF done THEN Then("extract") ELSE Fails
    BY <1>11 DEF ClearStaging
  <2>1. op.step = "clear" /\ dir' = dir /\ old' = old
    BY <1>11 DEF ClearStaging, At
  <2>2. dir[T] # "whole" /\ ~op.moved
    BY <2>1 DEF ReplacedInv, Installing
  <2>3. tmp' \in [Targets -> Contents]
    BY <1>5
  <2>4. CASE done
    <3>1. Then("extract")
      BY <2>4
    <3> QED
      BY <1>9, <2>1, <2>2, <2>3, <3>1
  <2>5. CASE ~done
    BY <1>10, <2>1, <2>5
  <2> QED
    BY <2>4, <2>5
<1>12. CASE BeginExtract
  <2>1. op.step = "extract" /\ dir' = dir /\ old' = old /\ Then("fill")
    BY <1>12 DEF BeginExtract, At
  <2>2. dir[T] # "whole" /\ ~op.moved
    BY <2>1 DEF ReplacedInv, Installing
  <2>3. tmp' \in [Targets -> Contents]
    BY <1>12, <1>6 DEF BeginExtract, Contents
  <2> QED
    BY <1>9, <2>1, <2>2, <2>3
<1>13. CASE FinishExtract
  <2>1. op.step = "fill" /\ dir' = dir /\ old' = old
    BY <1>13 DEF FinishExtract, At
  <2>2. dir[T] # "whole" /\ ~op.moved
    BY <2>1 DEF ReplacedInv, Installing
  <2>3. CASE /\ \E c \in IF T = Pnpm THEN {"whole", "hollow"} ELSE {"whole"} :
                  tmp' = [tmp EXCEPT ![T] = c]
             /\ Then("aside")
    <3>1. PICK c \in {"whole", "hollow"} :
            (c = "hollow" => T = Pnpm) /\ tmp' = [tmp EXCEPT ![T] = c]
      BY <2>3
    <3>2. c \in Contents
      BY DEF Contents
    <3>3. tmp' \in [Targets -> Contents] /\ tmp'[T] = c
      BY <1>3, <1>6, <3>1, <3>2
    <3>4. tmp'[T] = "whole" \/ (T = Pnpm /\ tmp'[T] = "hollow")
      BY <3>1, <3>3
    <3> QED
      BY <1>9, <2>1, <2>2, <2>3, <3>3, <3>4
  <2>4. CASE (\E done \in BOOLEAN : tmp' = [tmp EXCEPT ![T] = Cleared(@, done)]) /\ Fails
    BY <1>10, <2>1, <2>4
  <2> QED
    BY <1>13, <2>3, <2>4 DEF FinishExtract
<1>14. CASE MoveAside
  <2>1. op.step = "aside" /\ dir[T] # "whole" /\ ~op.moved
    BY <1>14 DEF MoveAside, At, ReplacedInv, Installing
  <2>2. tmp[T] = "whole" \/ (T = Pnpm /\ tmp[T] = "hollow")
    BY <2>1 DEF StagedInv
  <2>3. CASE dir[T] = "none" /\ Then("place") /\ UNCHANGED <<dir, tmp, old>>
    BY <1>6, <1>9, <2>1, <2>2, <2>3
  <2>4. CASE /\ dir[T] # "none"
             /\ old' = [old EXCEPT ![T] = dir[T]]
             /\ dir' = [dir EXCEPT ![T] = "none"]
             /\ op' = [op EXCEPT !.step = "place", !.moved = TRUE]
             /\ UNCHANGED tmp
    <3>1. T = Pnpm /\ dir[T] = "hollow"
      <4>1. dir[T] \in Contents /\ dir[T] # "partial"
        BY <1>3, <1>6 DEF InstallsAreWhole
      <4>2. T \notin Versions
        BY <2>1, <2>4 DEF InstallsAreWhole
      <4> QED
        BY <1>3, <2>1, <2>4, <4>1, <4>2 DEF Targets, Contents
    <3>2. /\ old' \in [Targets -> Contents] /\ dir' \in [Targets -> Contents]
          /\ old'[T] = "hollow" /\ dir'[T] = "none" /\ \A t \in Targets \ {T} : dir'[t] = dir[t]
      BY <1>3, <1>6, <2>4, <3>1 DEF Contents
    <3>3. /\ op' \in Operations
          /\ op'.kind = op.kind /\ op'.target = op.target /\ op'.force = op.force
          /\ op'.recommended = op.recommended /\ op'.moved /\ op'.step = "place"
          /\ op'.result = op.result /\ op'.clean = op.clean
      BY <1>2, <2>4 DEF TypeInv, Operations
    <3>4. T' = T
      BY <3>3 DEF T
    <3>5. TypeInv'
      BY <1>6, <1>7, <2>4, <3>2, <3>3
    <3>6. InstallsAreWhole'
      <4>1. \A t \in Targets : dir'[t] # "partial"
        BY <3>2 DEF InstallsAreWhole
      <4>2. \A v \in Versions : dir'[v] \in {"none", "whole"}
        BY <3>1, <3>2, VersionsAssumption DEF InstallsAreWhole, Targets, Pnpm
      <4>3. link.at = "dir" => dir'[link.of] = "whole"
        BY <3>1, <3>2 DEF InstallsAreWhole, Holds, TypeInv, Names
      <4> QED
        BY <1>6, <4>1, <4>2, <4>3 DEF InstallsAreWhole, Holds
    <3>7. ReplacedInv' /\ StagedInv' /\ LinkInv'
      BY <1>2, <2>2, <2>4, <3>1, <3>2, <3>3, <3>4 DEF ReplacedInv, StagedInv, LinkInv
    <3>8. ShapeInv' /\ DebrisNeverBlocks'
      BY <1>2, <1>3, <3>3 DEF ShapeInv, DebrisNeverBlocks, At, Linking
    <3>9. AgeInv'
      BY <1>1, <1>8, <3>3, <3>4 DEF AgeInv
    <3> QED
      BY <3>5, <3>6, <3>7, <3>8, <3>9
  <2>5. CASE /\ \E done \in BOOLEAN : tmp' = [tmp EXCEPT ![T] = Cleared(@, done)]
             /\ Fails
             /\ UNCHANGED <<dir, old>>
    BY <1>10, <2>5
  <2> QED
    BY <1>14, <2>3, <2>4, <2>5 DEF MoveAside
<1>15. CASE PutInPlace
  <2>1. op.step = "place" /\ dir[T] = "none" /\ (tmp[T] = "whole" \/ (T = Pnpm /\ tmp[T] = "hollow"))
    BY <1>15 DEF PutInPlace, At, ReplacedInv, StagedInv
  <2>2. ASSUME \A t \in Targets \ {T} : dir'[t] = dir[t],
               dir'[T] \in {"none", "whole", "hollow"},
               dir'[T] = "hollow" => T = Pnpm
        PROVE  InstallsAreWhole'
    <3>1. \A t \in Targets : dir'[t] # "partial"
      BY <2>2 DEF InstallsAreWhole
    <3>2. \A v \in Versions : dir'[v] \in {"none", "whole"}
      BY <2>2, VersionsAssumption DEF InstallsAreWhole, Targets, Pnpm
    <3>3. link.at = "dir" => dir'[link.of] = "whole"
      BY <2>1, <2>2 DEF InstallsAreWhole, Holds, TypeInv, Names
    <3> QED
      BY <1>6, <3>1, <3>2, <3>3 DEF InstallsAreWhole, Holds
  <2>3. CASE /\ dir' = [dir EXCEPT ![T] = tmp[T]]
             /\ tmp' = [tmp EXCEPT ![T] = "none"]
             /\ Then("sweep")
             /\ UNCHANGED old
    <3>1. /\ tmp' \in [Targets -> Contents] /\ dir' \in [Targets -> Contents]
          /\ dir'[T] = tmp[T] /\ \A t \in Targets \ {T} : dir'[t] = dir[t]
      BY <1>3, <1>6, <2>3 DEF Contents
    <3>2. op' \in Operations /\ Same /\ op'.step = "sweep" /\ op'.result = op.result
      BY <1>2, <2>3, ThenFact
    <3>3. op.kind = "update" => T # Pnpm
      BY VersionsAssumption DEF ShapeInv, T, Pnpm
    <3>4. op'.kind = op.kind /\ T' = T
      BY <3>2 DEF Same, T
    <3>5. TypeInv'
      BY <1>6, <1>7, <2>3, <3>1, <3>2
    <3>6. InstallsAreWhole'
      BY <2>1, <2>2, <3>1
    <3>7. LinkInv'
      BY <2>1, <3>1, <3>2, <3>3, <3>4 DEF LinkInv
    <3>8. ReplacedInv' /\ StagedInv'
      BY <1>2, <3>2 DEF ReplacedInv, StagedInv
    <3> QED
      BY <1>1, <1>3, <1>8, <3>2, <3>5, <3>6, <3>7, <3>8, GoesOn DEF Linking
  <2>4. CASE /\ \E done, back \in BOOLEAN :
                  /\ tmp' = [tmp EXCEPT ![T] = Cleared(@, done)]
                  /\ IF op.moved /\ back
                     THEN /\ dir' = [dir EXCEPT ![T] = old[T]]
                          /\ old' = [old EXCEPT ![T] = "none"]
                     ELSE UNCHANGED <<dir, old>>
             /\ FailsOn(dir[T] # "none")
    <3>1. PICK done, back \in BOOLEAN :
            /\ tmp' = [tmp EXCEPT ![T] = Cleared(@, done)]
            /\ IF op.moved /\ back
               THEN /\ dir' = [dir EXCEPT ![T] = old[T]]
                    /\ old' = [old EXCEPT ![T] = "none"]
               ELSE UNCHANGED <<dir, old>>
      BY <2>4
    <3>2. tmp' \in [Targets -> Contents]
      BY <1>5, <3>1
    <3>3. op' \in Operations /\ Same /\ op'.step = "done" /\ op'.result = "failed" /\ ~op'.clean
      <4>1. FailsOn(FALSE)
        BY <2>1, <2>4 DEF FailsOn
      <4> QED
        BY <4>1, FailsFact
    <3>4. /\ dir' \in [Targets -> Contents] /\ old' \in [Targets -> Contents]
          /\ \A t \in Targets \ {T} : dir'[t] = dir[t]
          /\ dir'[T] = "none" \/ (T = Pnpm /\ dir'[T] = "hollow")
      <4>1. CASE op.moved /\ back
        <5>1. T = Pnpm /\ old[T] = "hollow"
          BY <2>1, <4>1 DEF ReplacedInv
        <5> QED
          BY <1>3, <1>6, <3>1, <4>1, <5>1 DEF Contents
      <4>2. CASE ~(op.moved /\ back)
        BY <1>6, <2>1, <3>1, <4>2
      <4> QED
        BY <4>1, <4>2
    <3>5. TypeInv'
      BY <1>7, <3>2, <3>3, <3>4
    <3>6. InstallsAreWhole'
      BY <2>2, <3>4
    <3>7. DebrisNeverBlocks'
      BY <3>3 DEF DebrisNeverBlocks
    <3> QED
      BY <1>1, <3>3, <3>5, <3>6, <3>7, ComesToItsEnd
  <2> QED
    BY <1>15, <2>3, <2>4 DEF PutInPlace
<1>16. CASE SweepOld
  <2>1. op.step = "sweep" /\ dir' = dir /\ tmp' = tmp
    BY <1>16 DEF SweepOld, At
  <2>2. old' \in [Targets -> Contents]
    BY <1>5, <1>6, <1>16 DEF SweepOld
  <2>3. PICK s \in Steps : s = IF op.kind = "pnpm" THEN "bin" ELSE "unlink"
    BY <1>2
  <2>4. Then(s)
    BY <1>16, <2>3 DEF SweepOld
  <2>5. op' \in Operations /\ Same /\ op'.step = s /\ op'.result = op.result
    BY <2>4, ThenFact
  <2>6. op'.kind = op.kind /\ T' = T
    BY <2>5 DEF Same, T
  <2>7. TypeInv'
    BY <1>6, <1>7, <2>1, <2>2, <2>5
  <2>8. LinkInv'
    <3>1. op.kind = "update" => dir[T] = "whole"
      BY <2>1 DEF LinkInv
    <3> QED
      BY <2>1, <2>3, <2>5, <2>6, <3>1 DEF LinkInv
  <2>9. ReplacedInv' /\ StagedInv'
    BY <1>2, <2>3, <2>5 DEF ReplacedInv, StagedInv
  <2>10. InstallsAreWhole'
    BY <1>6, <2>1, WholeKept
  <2>11. /\ op'.step \in {"bin", "unlink"}
         /\ op'.step = "bin" => op.kind = "pnpm"
         /\ op'.step = "unlink" => op.kind = "update"
    BY <1>3, <2>3, <2>5
  <2>12. "bin" \notin Linking
    BY DEF Linking
  <2> QED
    BY <1>1, <1>2, <1>8, <2>5, <2>7, <2>8, <2>9, <2>10, <2>11, <2>12, GoesOn
<1> QED
  BY <1>11, <1>12, <1>13, <1>14, <1>15, <1>16

\* The link is switched to what Unlink found, and nothing lies in its way.
LEMMA LinksInv == ASSUME IInv, Unlink \/ Symlink \/ Switch PROVE IInv'
<1> USE DEF IInv
<1>1. age' = age /\ dir' = dir /\ tmp' = tmp /\ old' = old /\ offered' = offered
  BY DEF Unlink, Symlink, Switch, release
<1>2. /\ {"symlink", "switch"} \subseteq Steps /\ {"ok", "not installed"} \subseteq Results
      /\ "symlink" \notin Installing \cup {"sweep"} /\ "switch" \notin Installing \cup {"sweep"}
  BY DEF Steps, Results, Linking, Installing
<1>3. op.step \in Linking /\ op.kind \in {"update", "activate"} /\ op.target.of \in Versions
      /\ op.target \in Names /\ (op.kind = "update" => op.target.at = "dir")
  BY DEF Unlink, Symlink, Switch, At, Linking, ShapeInv, TypeInv, Operations
<1>4. ASSUME op' \in Operations, link' \in Names, linkTmp' \in BOOLEAN PROVE TypeInv'
  BY <1>1, <1>4 DEF TypeInv
<1>5. op.kind = "update" => op.force \/ age[T] = "aged"
  BY <1>3 DEF AgeInv
<1>6. /\ tmp' \in [Targets -> Contents] /\ old' \in [Targets -> Contents]
      /\ link \in Names /\ linkTmp \in BOOLEAN
  BY <1>1 DEF TypeInv
\* The way to the link goes on, over a version that is whole.
<1>7. ASSUME NEW s \in {"symlink", "switch"}, Then(s), link' = link, linkTmp' \in BOOLEAN,
             op.target.at = "dir" => dir[T] = "whole",
             s = "symlink" => ~linkTmp'
      PROVE  IInv'
  <2>1. op' \in Operations /\ Same /\ op'.step = s /\ op'.result = op.result
    BY <1>2, <1>7, ThenFact
  <2>2. op'.target = op.target /\ T' = T
    BY <2>1 DEF Same, T
  <2>3. TypeInv'
    BY <1>4, <1>6, <1>7, <2>1
  <2>4. LinkInv'
    BY <1>1, <1>7, <2>1, <2>2 DEF LinkInv
  <2>5. ReplacedInv' /\ StagedInv'
    BY <1>2, <2>1 DEF ReplacedInv, StagedInv
  <2>6. InstallsAreWhole'
    BY <1>1, <1>7, WholeKept
  <2> QED
    BY <1>1, <1>2, <1>3, <1>5, <2>1, <2>3, <2>4, <2>5, <2>6, GoesOn
\* It ends.
<1>8. ASSUME NEW r \in Results, Ends(r), link' \in Names, linkTmp' \in BOOLEAN, r # "too recent",
             link'.at = "dir" => dir[link'.of] = "whole",
             op.kind = "update" => r = "ok" /\ link' = op.target
      PROVE  IInv'
  <2>1. op' \in Operations /\ Same /\ op'.step = "done" /\ op'.result = r
    BY <1>8, EndsFact
  <2>2. op'.kind = op.kind /\ op'.target = op.target
    BY <2>1 DEF Same
  <2>3. TypeInv'
    BY <1>4, <1>8, <2>1
  <2>4. InstallsAreWhole'
    BY <1>1, <1>8 DEF InstallsAreWhole, Holds
  <2>5. DebrisNeverBlocks'
    BY <1>3, <1>8, <2>1, <2>2 DEF DebrisNeverBlocks
  <2> QED
    BY <1>1, <1>8, <2>1, <2>3, <2>4, <2>5, ComesToItsEnd
<1>9. ASSUME FailsOn(FALSE), link' = link, linkTmp' \in BOOLEAN PROVE IInv'
  BY <1>1, <1>6, <1>9, FailsInv
<1>10. CASE Unlink
  <2>1. op.step = "unlink" /\ link' = link
    BY <1>10 DEF Unlink, At
  <2>2. CASE Holds(op.target) = "none" /\ Ends("not installed") /\ linkTmp' = linkTmp
    <3>1. op.kind # "update"
      BY <1>3, <2>1, <2>2 DEF LinkInv, Holds, T
    <3>2. link.at = "dir" => dir[link.of] = "whole"
      BY DEF InstallsAreWhole, Holds
    <3> QED
      BY <1>2, <1>6, <1>8, <2>1, <2>2, <3>1, <3>2
  <2>3. CASE Holds(op.target) # "none" /\ linkTmp' = FALSE /\ Then("symlink")
    <3>1. op.target.at = "dir" => dir[T] = "whole"
      BY <1>3, <2>3 DEF Holds, T, InstallsAreWhole
    <3> QED
      BY <1>7, <2>1, <2>3, <3>1
  <2>4. CASE FailsOn(FALSE) /\ linkTmp' = linkTmp
    BY <1>6, <1>9, <2>1, <2>4
  <2> QED
    BY <1>10, <2>2, <2>3, <2>4 DEF Unlink, Fails
<1>11. CASE Symlink
  <2>1. op.step = "symlink" /\ link' = link /\ ~linkTmp
    BY <1>11 DEF Symlink, At, LinkInv
  <2>2. op.target.at = "dir" => dir[T] = "whole"
    BY <2>1 DEF LinkInv
  <2>3. CASE linkTmp' = TRUE /\ Then("switch")
    BY <1>7, <2>1, <2>2, <2>3
  <2>4. CASE FailsOn(linkTmp) /\ linkTmp' = linkTmp
    <3>1. FailsOn(FALSE)
      BY <2>1, <2>4 DEF FailsOn
    <3> QED
      BY <1>6, <1>9, <2>1, <2>4, <3>1
  <2> QED
    BY <1>11, <2>3, <2>4 DEF Symlink
<1>12. CASE Switch
  <2>1. op.step = "switch"
    BY <1>12 DEF Switch, At
  <2>2. CASE link' = op.target /\ linkTmp' = FALSE /\ Ends("ok")
    <3>1. link'.at = "dir" => dir[link'.of] = "whole"
      BY <2>1, <2>2 DEF LinkInv, T
    <3> QED
      BY <1>2, <1>3, <1>8, <2>2, <3>1
  <2>3. CASE linkTmp' \in BOOLEAN /\ link' = link /\ FailsOn(FALSE)
    BY <1>9, <2>3
  <2> QED
    BY <1>12, <2>2, <2>3 DEF Switch, Fails
<1> QED
  BY <1>10, <1>11, <1>12

LEMMA CrashInv == ASSUME IInv, Crash PROVE IInv'
<1> USE DEF IInv
<1>1. UNCHANGED <<age, dir, tmp, old, link, linkTmp, offered>> /\ op' = Idle
  BY DEF Crash, volume, release
<1>2. TypeInv'
  <2>1. NoName \in Names
    BY DEF NoName, Names, Targets
  <2>2. Idle \in Operations
    BY <2>1 DEF Idle, Operations, Steps, Results
  <2> QED
    BY <1>1, <2>2 DEF TypeInv
<1> QED
  BY <1>1, <1>2 DEF Idle, NoName, ShapeInv, ReplacedInv, StagedInv, LinkInv, AgeInv, T, Installing,
       Linking, InstallsAreWhole, DebrisNeverBlocks, Holds, At

LEMMA StepInv == IInv /\ [Next]_vars => IInv'
<1> SUFFICES ASSUME IInv, [Next]_vars PROVE IInv'
  OBVIOUS
<1>1. CASE UNCHANGED vars
  <2>1. UNCHANGED <<age, dir, tmp, old, link, linkTmp, op, offered>>
    BY <1>1 DEF vars, release, volume
  <2>2. TypeInv'
    BY <2>1 DEF IInv, TypeInv
  <2>3. ShapeInv' /\ LinkInv'
    BY <2>1 DEF IInv, ShapeInv, LinkInv, T
  <2>4. ReplacedInv' /\ StagedInv'
    BY <2>1 DEF IInv, ReplacedInv, StagedInv, T
  <2>5. AgeInv'
    BY <2>1 DEF IInv, AgeInv, T
  <2>6. InstallsAreWhole' /\ DebrisNeverBlocks'
    BY <2>1 DEF IInv, InstallsAreWhole, DebrisNeverBlocks, Holds, At
  <2> QED
    BY <2>2, <2>3, <2>4, <2>5, <2>6 DEF IInv
<1>2. CASE Next
  BY <1>2, WorldInv, TakesInv, MovesInv, InstallsInv, LinksInv, CrashInv DEF Next
<1> QED
  BY <1>1, <1>2

LEMMA Invariance == Spec => []IInv
<1>1. Init => IInv
  BY InitInv
<1>2. IInv /\ [Next]_vars => IInv'
  BY StepInv
<1> QED
  BY <1>1, <1>2, PTL DEF Spec

-----------------------------------------------------------------------------

\* Wherever the process dies and whatever fails, what carries a version's name
\* is whole and the active Trivy resolves.
THEOREM Whole == Spec => []InstallsAreWhole
<1>1. IInv => InstallsAreWhole
  BY DEF IInv
<1> QED
  BY <1>1, Invariance, PTL

\* What an earlier crash or failure left fails no later update or install.
THEOREM NeverBlocked == Spec => []DebrisNeverBlocks
<1>1. IInv => DebrisNeverBlocks
  BY DEF IInv
<1> QED
  BY <1>1, Invariance, PTL

\* A release under the minimum age is active only by force or by choice, and a
\* recommended one is never refused for it.
THEOREM AgeRule == Spec => MinimumAgeHolds
<1>1. ASSUME IInv, IInv', [Next]_vars
      PROVE  [/\ link' # link /\ age[link'.of] = "recent"
                   => op.force \/ op.kind = "activate"
              /\ op'.recommended => op'.result # "too recent"]_vars
  <2>1. op'.recommended => op'.result # "too recent"
    BY <1>1 DEF IInv, AgeInv
  <2>2. ASSUME link' # link PROVE Switch
    BY <1>1, <2>2 DEF Next, vars, release, volume, Publish, PassesMinimumAge, GetTools, UpdateTrivy,
         ActivateTrivy, EnsurePnpm, Takes, CheckRelease, StatPnpm, FetchPnpm, FindAsset, Download,
         ClearStaging, BeginExtract, FinishExtract, MoveAside, PutInPlace, SweepOld, StatBin,
         Unlink, Symlink, Crash
  <2>3. ASSUME link' # link, age[link'.of] = "recent" PROVE op.force \/ op.kind = "activate"
    <3>1. link' = op.target /\ op.step = "switch"
      BY <2>2, <2>3 DEF Switch, At
    <3> QED
      BY <1>1, <2>3, <3>1 DEF IInv, AgeInv, ShapeInv, Linking, T
  <2> QED
    BY <2>1, <2>3
<1> QED
  BY <1>1, StepInv, Invariance, PTL DEF Spec, MinimumAgeHolds

\* An install that works is never out of its place, not even between two
\* renames.
THEOREM WorkingStays == Spec => WorkingInstallStays
<1>1. ASSUME IInv, [Next]_vars
      PROVE  [\A t \in Targets : dir[t] = "whole" => dir'[t] = "whole"]_vars
  <2> SUFFICES ASSUME NEW t \in Targets, dir[t] = "whole" PROVE dir'[t] = "whole"
    OBVIOUS
  <2>1. CASE MoveAside
    <3>1. dir' = dir \/ dir' = [dir EXCEPT ![T] = "none"]
      BY <2>1 DEF MoveAside
    <3>2. dir[T] # "whole"
      BY <1>1, <2>1 DEF MoveAside, At, IInv, ReplacedInv, Installing
    <3> QED
      BY <1>1, <3>1, <3>2 DEF IInv, TypeInv
  <2>2. CASE PutInPlace
    <3>1. \/ dir' = dir
          \/ \E c : dir' = [dir EXCEPT ![T] = c]
      BY <2>2 DEF PutInPlace
    <3>2. dir[T] # "whole"
      BY <1>1, <2>2 DEF PutInPlace, At, IInv, ReplacedInv, Installing
    <3> QED
      BY <1>1, <3>1, <3>2 DEF IInv, TypeInv
  <2>3. CASE ~MoveAside /\ ~PutInPlace
    BY <1>1, <2>3 DEF Next, vars, release, volume, Publish, PassesMinimumAge, GetTools, UpdateTrivy,
         ActivateTrivy, EnsurePnpm, Takes, CheckRelease, StatPnpm, FetchPnpm, FindAsset, Download,
         ClearStaging, BeginExtract, FinishExtract, SweepOld, StatBin, Unlink, Symlink, Switch, Crash
  <2> QED
    BY <2>1, <2>2, <2>3
<1> QED
  BY <1>1, Invariance, PTL DEF Spec, WorkingInstallStays

=============================================================================
