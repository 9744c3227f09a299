---------------------------- MODULE ToolInstall ----------------------------
(***************************************************************************)
(* The tool manager (internal/tools): one Trivy per release and one pnpm   *)
(* under the data volume, installed by a staged rename, activated by a     *)
(* renamed symlink, listed without the manager's lock.                     *)
(*                                                                         *)
(* Every operation that changes the volume holds Manager.mu from its first *)
(* read to its return, so `op' is the one operation in progress.  The      *)
(* process may die between any two of its steps: the volume stays as it    *)
(* is and the next operation starts from what it finds.  Contents are      *)
(* abstracted to what a reader can tell: nothing, a part of an archive,    *)
(* the archive of a package that has no executable ("hollow", pnpm only),  *)
(* a whole install.  `old' stands for every ".old-<random>" directory of a *)
(* tool: the names never meet.                                             *)
(***************************************************************************)
EXTENDS Naturals

CONSTANTS Versions,   \* the Trivy release numbers
          MaxCrashes  \* bound on process deaths

ASSUME VersionsAssumption == Versions \subseteq Nat \ {0}

VARIABLES age,      \* what GitHub says of each release
          latest,   \* its latest release, 0 before the first
          dir,      \* <tool>/<version>
          tmp,      \* <tool>/<version>.tmp
          old,      \* <tool>/<version>.old-<random>
          link,     \* tools/trivy/current
          linkTmp,  \* tools/trivy/current.tmp is on disk
          op,       \* the operation that holds mu, or the last one that did
          offered,  \* the release the last GetTools recommended, 0 for none
          crashes

release == <<age, latest>>
volume == <<dir, tmp, old, link, linkTmp>>
vars == <<release, volume, op, offered, crashes>>

Pnpm == 0  \* the pnpm version a project pins, beside the Trivy releases
Targets == Versions \cup {Pnpm}
Places == {"dir", "tmp", "old"}
NoName == [of |-> Pnpm, at |-> "none"]

Idle == [kind |-> "none", target |-> NoName, force |-> FALSE,
         recommended |-> FALSE, step |-> "done", moved |-> FALSE,
         clean |-> TRUE, result |-> "none"]

Init ==
  /\ age = [v \in Versions |-> "none"] /\ latest = 0
  /\ dir = [t \in Targets |-> "none"]
  /\ tmp = [t \in Targets |-> "none"]
  /\ old = [t \in Targets |-> "none"]
  /\ link = NoName /\ linkTmp = FALSE
  /\ op = Idle
  /\ offered = 0
  /\ crashes = 0

----------------------------------------------------------------------------
(* What the readers see.                                                   *)

Holds(n) ==
  CASE n.at = "dir" -> dir[n.of]
    [] n.at = "tmp" -> tmp[n.of]
    [] n.at = "old" -> old[n.of]
    [] OTHER -> "none"

\* Every directory under tools/trivy but the symlink: staging ones too.
InstalledTrivy ==
  {n \in [of : Versions, at : Places] : Holds(n) # "none"}

\* The highest release number that is old enough, offered only while the
\* latest release itself is too recent.
RecommendedTrivy ==
  LET aged == {v \in Versions : age[v] = "aged"}
  IN {v \in aged : /\ latest # 0 /\ age[latest] = "recent"
                   /\ \A w \in aged : w <= v}

----------------------------------------------------------------------------
(* The world: releases appear, grow older, and users read the tools page.  *)

Publish(v) ==
  /\ age[v] = "none"
  /\ age' = [age EXCEPT ![v] = "recent"]
  /\ latest' = v
  /\ UNCHANGED <<volume, op, offered, crashes>>

PassesMinimumAge(v) ==
  /\ age[v] = "recent"
  /\ age' = [age EXCEPT ![v] = "aged"]
  /\ UNCHANGED <<latest, volume, op, offered, crashes>>

\* GetTools, without the lock: GitHub may not answer.
GetTools ==
  /\ offered' \in RecommendedTrivy \cup {0}
  /\ UNCHANGED <<release, volume, op, crashes>>

----------------------------------------------------------------------------
(* One operation takes the lock.                                           *)

At(step) == op.step = step
Then(step) == op' = [op EXCEPT !.step = step]
Ends(result) == op' = [op EXCEPT !.step = "done", !.result = result]

\* A failure is the world's, unless what the operation met was debris.
FailsOn(debris) ==
  op' = [op EXCEPT !.step = "done", !.result = "failed",
                   !.clean = @ /\ debris]
Fails == FailsOn(FALSE)

Takes(kind, n, force) ==
  /\ At("done")
  /\ op' = [Idle EXCEPT !.kind = kind, !.target = n, !.force = force,
              !.recommended = kind = "update" /\ n.of = offered,
              !.step = CASE kind = "update" -> "check"
                         [] kind = "activate" -> "unlink"
                         [] kind = "pnpm" -> "stat"]
  /\ UNCHANGED <<release, volume, offered, crashes>>

\* UpdateTrivy of the latest release or of a named one, once GitHub knew it.
\* A lookup GitHub does not answer changes nothing.
UpdateTrivy(v, force) ==
  /\ age[v] # "none"
  /\ Takes("update", [of |-> v, at |-> "dir"], force)

\* ActivateTrivy of a name the tools page shows now or showed before: one of
\* a staging directory too.
ActivateTrivy(n) == Takes("activate", n, FALSE)

EnsurePnpm == Takes("pnpm", [of |-> Pnpm, at |-> "dir"], FALSE)

----------------------------------------------------------------------------
(* UpdateTrivy and EnsurePnpm up to the archive on disk.                   *)

\* Younger than the minimum age, and the user did not insist.
TooRecent == ~op.force /\ age[op.target.of] = "recent"

\* Seeded fault: a release that is on disk is activated before its age is
\* looked at.
CheckReleaseLate ==
  /\ At("check")
  /\ \/ op.target \in InstalledTrivy /\ Then("unlink")
     \/ Fails
     \/ /\ op.target \notin InstalledTrivy
        /\ IF TooRecent THEN Ends("too recent") ELSE Then("fetch")
  /\ UNCHANGED <<release, volume, offered, crashes>>

\* Seeded fault: an update always downloads.
CheckReleaseAgain ==
  /\ At("check")
  /\ \/ TooRecent /\ Ends("too recent")
     \/ ~TooRecent /\ (Then("fetch") \/ Fails)
  /\ UNCHANGED <<release, volume, offered, crashes>>

\* The release is judged before the shortcut of an installed one is taken; the
\* listing of the installed ones may fail.
CheckRelease ==
  /\ At("check")
  /\ \/ TooRecent /\ Ends("too recent")
     \/ /\ ~TooRecent
        /\ Then(IF op.target \in InstalledTrivy THEN "unlink" ELSE "fetch") \/ Fails
  /\ UNCHANGED <<release, volume, offered, crashes>>

\* EnsurePnpm looks for the executable, not for the directory.
StatPnpm ==
  /\ At("stat")
  /\ IF dir[Pnpm] = "whole" THEN Ends("ok") ELSE Then("fetch")
  /\ UNCHANGED <<release, volume, offered, crashes>>

\* The packument names the version and the tarball has the digest it lists,
\* or the operation ends with the volume untouched.
FetchPnpm ==
  /\ At("fetch") /\ op.kind = "pnpm"
  /\ Then("clear") \/ Fails
  /\ UNCHANGED <<release, volume, offered, crashes>>

\* The release has an asset for this machine and a checksums file that names
\* it ...
FindAsset ==
  /\ At("fetch") /\ op.kind = "update"
  /\ Then("download") \/ Fails
  /\ UNCHANGED <<release, volume, offered, crashes>>

\* ... and what is downloaded has that checksum.
Download ==
  /\ At("download")
  /\ Then("clear") \/ Fails
  /\ UNCHANGED <<release, volume, offered, crashes>>

----------------------------------------------------------------------------
(* installDir.                                                             *)

T == op.target.of

\* RemoveAll of a staging directory, which may stop half way.
Cleared(c, done) ==
  IF c = "none" \/ done THEN "none" ELSE "partial"

ClearStaging ==
  /\ At("clear")
  /\ \E done \in BOOLEAN :
       /\ tmp' = [tmp EXCEPT ![T] = Cleared(@, done)]
       /\ IF done THEN Then("extract") ELSE Fails
  /\ UNCHANGED <<release, dir, old, link, linkTmp, offered, crashes>>

\* The first entry of the archive is written ...
BeginExtract ==
  /\ At("extract")
  /\ tmp' = [tmp EXCEPT ![T] = "partial"]
  /\ Then("fill")
  /\ UNCHANGED <<release, dir, old, link, linkTmp, offered, crashes>>

\* Seeded fault: the error of the extraction is dropped.
FinishExtractAnyway ==
  /\ At("fill")
  /\ \E c \in {"whole", "partial"} : tmp' = [tmp EXCEPT ![T] = c]
  /\ Then("aside")
  /\ UNCHANGED <<release, dir, old, link, linkTmp, offered, crashes>>

\* ... and the last, unless one cannot be: then the staging directory goes.
FinishExtract ==
  /\ At("fill")
  /\ \/ /\ \E c \in IF T = Pnpm THEN {"whole", "hollow"} ELSE {"whole"} :
             tmp' = [tmp EXCEPT ![T] = c]
        /\ Then("aside")
     \/ /\ \E done \in BOOLEAN : tmp' = [tmp EXCEPT ![T] = Cleared(@, done)]
        /\ Fails
  /\ UNCHANGED <<release, dir, old, link, linkTmp, offered, crashes>>

\* An install in the way is renamed aside: rename never replaces a
\* directory that has entries.
MoveAside ==
  /\ At("aside")
  /\ \/ /\ dir[T] = "none" /\ Then("place") /\ UNCHANGED <<dir, tmp, old>>
     \/ /\ dir[T] # "none"
        /\ old' = [old EXCEPT ![T] = dir[T]]
        /\ dir' = [dir EXCEPT ![T] = "none"]
        /\ op' = [op EXCEPT !.step = "place", !.moved = TRUE]
        /\ UNCHANGED tmp
     \/ /\ \E done \in BOOLEAN : tmp' = [tmp EXCEPT ![T] = Cleared(@, done)]
        /\ Fails
        /\ UNCHANGED <<dir, old>>
  /\ UNCHANGED <<release, link, linkTmp, offered, crashes>>

PutInPlace ==
  /\ At("place")
  /\ \/ /\ dir[T] = "none"
        /\ dir' = [dir EXCEPT ![T] = tmp[T]]
        /\ tmp' = [tmp EXCEPT ![T] = "none"]
        /\ Then("sweep")
        /\ UNCHANGED old
     \/ /\ \E done, back \in BOOLEAN :
             /\ tmp' = [tmp EXCEPT ![T] = Cleared(@, done)]
             /\ IF op.moved /\ back
                THEN /\ dir' = [dir EXCEPT ![T] = old[T]]
                     /\ old' = [old EXCEPT ![T] = "none"]
                ELSE UNCHANGED <<dir, old>>
        /\ FailsOn(dir[T] # "none")
  /\ UNCHANGED <<release, link, linkTmp, offered, crashes>>

SweepOld ==
  /\ At("sweep")
  /\ IF op.moved
     THEN \E done \in BOOLEAN : old' = [old EXCEPT ![T] = Cleared(@, done)]
     ELSE UNCHANGED old
  /\ Then(IF op.kind = "pnpm" THEN "bin" ELSE "unlink")
  /\ UNCHANGED <<release, dir, tmp, link, linkTmp, offered, crashes>>

StatBin ==
  /\ At("bin")
  /\ Ends(IF dir[Pnpm] = "whole" THEN "ok" ELSE "no executable")
  /\ UNCHANGED <<release, volume, offered, crashes>>

----------------------------------------------------------------------------
(* activateTrivyLocked.                                                    *)

\* Seeded fault: what a crash left of the link stays.
UnlinkNothing ==
  /\ At("unlink")
  /\ IF Holds(op.target) = "none" THEN Ends("not installed")
     ELSE Then("symlink")
  /\ UNCHANGED <<release, volume, offered, crashes>>

\* Stat follows the name; a leftover current.tmp is removed.
Unlink ==
  /\ At("unlink")
  /\ \/ /\ Holds(op.target) = "none"
        /\ Ends("not installed")
        /\ UNCHANGED linkTmp
     \/ /\ Holds(op.target) # "none"
        /\ linkTmp' = FALSE
        /\ Then("symlink")
     \/ /\ Holds(op.target) # "none" /\ linkTmp
        /\ Fails
        /\ UNCHANGED linkTmp
  /\ UNCHANGED <<release, dir, tmp, old, link, offered, crashes>>

\* symlink never replaces a name that exists.
Symlink ==
  /\ At("symlink")
  /\ \/ ~linkTmp /\ linkTmp' = TRUE /\ Then("switch")
     \/ FailsOn(linkTmp) /\ UNCHANGED linkTmp
  /\ UNCHANGED <<release, dir, tmp, old, link, offered, crashes>>

Switch ==
  /\ At("switch")
  /\ \/ /\ link' = op.target /\ linkTmp' = FALSE
        /\ Ends("ok")
     \/ /\ linkTmp' \in BOOLEAN /\ UNCHANGED link
        /\ Fails
  /\ UNCHANGED <<release, dir, tmp, old, offered, crashes>>

----------------------------------------------------------------------------

\* The process dies and starts again: nothing resumes an operation, nothing
\* cleans the volume.
Crash ==
  /\ crashes < MaxCrashes
  /\ op.step # "done"
  /\ op' = Idle
  /\ crashes' = crashes + 1
  /\ UNCHANGED <<release, volume, offered>>

Next ==
  \/ \E v \in Versions : Publish(v) \/ PassesMinimumAge(v)
  \/ GetTools
  \/ \E v \in Versions, force \in BOOLEAN : UpdateTrivy(v, force)
  \/ \E n \in [of : Versions, at : Places] : ActivateTrivy(n)
  \/ EnsurePnpm
  \/ CheckRelease \/ StatPnpm \/ FetchPnpm \/ FindAsset \/ Download
  \/ ClearStaging \/ BeginExtract \/ FinishExtract
  \/ MoveAside \/ PutInPlace \/ SweepOld \/ StatBin
  \/ Unlink \/ Symlink \/ Switch
  \/ Crash

Spec == Init /\ [][Next]_vars

----------------------------------------------------------------------------

\* No directory that carries a version's name is half an archive, whatever
\* failed and wherever the process died (installDir's "a crash never leaves
\* dir half-written"), and a Trivy one is always complete.  The active Trivy
\* resolves to a whole install at every instant, unless a user activated a
\* staging directory: jobs run tools/trivy/current/trivy without the lock.
InstallsAreWhole ==
  /\ \A t \in Targets : dir[t] # "partial"
  /\ \A v \in Versions : dir[v] \in {"none", "whole"}
  /\ link.at = "dir" => Holds(link) = "whole"

\* An update that met no failure of its own succeeds and leaves its release
\* active, whatever an earlier crash or failure left on the volume; so does
\* an install of pnpm whose package has its executable.
DebrisNeverBlocks ==
  At("done") /\ op.clean =>
    /\ op.kind = "update" /\ op.result # "too recent"
         => op.result = "ok" /\ link = op.target
    /\ op.kind = "pnpm"
         => (op.result = "ok") = (dir[Pnpm] = "whole")

\* The minimum age is one rule.  A release younger than it becomes active
\* only by a forced update or by a user who activates that very version, even
\* when an earlier forced update left it on disk; and what GetTools
\* recommended by it is not refused as too recent afterwards.
MinimumAgeHolds ==
  [][/\ link' # link /\ age[link'.of] = "recent"
          => op.force \/ op.kind = "activate"
     /\ op'.recommended => op'.result # "too recent"]_vars

\* A whole install under its version's name is never taken away, not even
\* for the time between two renames.
WorkingInstallStays ==
  [][\A t \in Targets : dir[t] = "whole" => dir'[t] = "whole"]_vars

============================================================================
