------------------------- MODULE ProjectStoreProofs -------------------------
(***************************************************************************)
(* Proofs about ProjectStore for any projects, requests and jobs: whose    *)
(* manifest a project has, what a deletion passes over, which jobs are     *)
(* found, and which settings are in use.  The invariant has a part for     *)
(* each kind of request and one for the jobs; a request leaves the parts   *)
(* of the others alone as long as it is Calm.                              *)
(***************************************************************************)
EXTENDS ProjectStore, WellFoundedInduction, TLAPS

Records == [owner : Clients, target : Targets]
Settings == [target : Targets, key : Keys \cup {NoKey}]

Creating == {"reserved", "recorded"}
Deleting == {"analyses", "exports", "removing"}
Saving == {"saving", "saved"}
Looking == {"looking", "missing"}
Steps == Creating \cup Deleting \cup Saving \cup Looking
           \cup {"idle", "retargeting", "listed", "shown"}

Unborn == {"new", "read"}
Writing == {"reserved", "queued", "running", "returned"}
Settled == {"moved", "rewriting", "corrected", "over"}
Known == {"queued", "running", "returned", "moved", "rewriting", "corrected", "dropped"}
Phases == Unborn \cup Writing \cup Settled \cup {"dropped"}

AskType ==
  /\ at \in [Clients -> Steps] /\ on \in [Clients -> Ids \cup {NoId}]
  /\ about \in [Clients -> Jobs \cup {NoJob}]
  /\ draft \in [Clients -> Records \cup Settings \cup {NoRecord}]
  /\ spared \in [Clients -> SUBSET Jobs]

TypeInv ==
  /\ made \subseteq Ids /\ gone \subseteq Ids /\ lost \subseteq Jobs
  /\ record \in [Ids -> Records \cup {NoRecord}]
  /\ manifest \in [Ids -> Clients \cup {NoClient}]
  /\ created \in [Ids -> Clients \cup {NoClient}]
  /\ dir \in [Jobs -> {"absent", "tmp", "final"}] /\ line \in Seq(Jobs)
  /\ phase \in [Jobs -> Phases] /\ kind \in [Jobs -> {"analyses", "exports"}]
  /\ home \in [Jobs -> Ids \cup {NoId}]
  /\ \A j \in Jobs : phase[j] # "new" => home[j] \in Ids
  /\ saved \in Settings /\ settings \in Settings /\ crossed \in BOOLEAN
  /\ AskType

\* What a request holds.
HeldInv ==
  \A r \in Clients :
    /\ at[r] \in Creating \cup Deleting \cup {"retargeting"} => on[r] \in Ids
    /\ at[r] = "retargeting" => draft[r] \in Records
    /\ at[r] \in Saving => draft[r] \in Settings
    /\ at[r] \in Looking => about[r] \in Jobs

\* A job has its directory from its reservation to its end, or is lost, and is
\* known to the service from its submission until its hook lets go of it.
JobInv ==
  \A j \in Jobs :
    /\ phase[j] \in Unborn => dir[j] = "absent"
    /\ phase[j] \in Writing => dir[j] = "tmp" \/ j \in lost
    /\ phase[j] \in Settled => dir[j] = "final" \/ j \in lost
    /\ phase[j] = "dropped" => j \in lost
    /\ phase[j] \in Known => j \in Tracked

LookAt(r) ==
  /\ at[r] = "looking" => dir[about[r]] = "final" \/ about[r] \in lost
  /\ at[r] = "missing" => about[r] \in lost
LookInv == \A r \in Clients : LookAt(r)

\* A deletion has passed over no job of a kind it has looked at.
DeleteAt(r) ==
  at[r] \in Deleting =>
    \A j \in spared[r] :
      /\ phase[j] \notin Unborn /\ home[j] = on[r]
      /\ at[r] = "removing" \/ (at[r] = "exports" /\ kind[j] = "analyses")
           => dir[j] # "tmp" \/ j \in lost
DeleteInv == \A r \in Clients : DeleteAt(r)

SettingsInv ==
  ~crossed =>
    /\ \A r \in Clients : at[r] = "saved" => draft[r] = saved
    /\ \A r, c \in Clients : at[r] = "saved" /\ at[c] = "saved" => r = c
    /\ (\A r \in Clients : at[r] # "saved") => settings = saved

\* One creation has the directory it reserved to itself, and who rewrites a
\* record keeps its owner.
CreateInv ==
  /\ \A p \in Ids : p \notin made \cup gone => record[p] = NoRecord
  /\ \A r \in Clients : at[r] \in Creating /\ on[r] \notin gone =>
       /\ on[r] \in made /\ created[on[r]] = NoClient
       /\ at[r] = "reserved" => record[on[r]] = NoRecord
       /\ at[r] = "recorded" => record[on[r]] \in Records /\ record[on[r]].owner = r
  /\ \A r, c \in Clients :
       at[r] \in Creating /\ at[c] \in Creating /\ on[r] = on[c] /\ on[r] \notin gone => r = c
  /\ \A r \in Clients : at[r] = "retargeting" /\ on[r] \notin gone =>
       record[on[r]] \in Records /\ draft[r].owner = record[on[r]].owner
  /\ \A p \in Ids : created[p] # NoClient /\ p \notin gone =>
       /\ p \in made /\ manifest[p] = created[p]
       /\ record[p] \in Records /\ record[p].owner = created[p]

IInv ==
  /\ TypeInv /\ HeldInv /\ JobInv
  /\ LookInv /\ DeleteInv /\ SettingsInv /\ CreateInv

-----------------------------------------------------------------------------
(* What a step leaves as it is                                              *)

\* What may become of jobs without a request that waits being told wrong.
Calm ==
  /\ lost \subseteq lost'
  /\ \A j \in Jobs : dir[j] = "final" => dir'[j] = "final" \/ j \in lost'
  /\ \A j \in Jobs : phase[j] \notin Unborn =>
       /\ phase'[j] \notin Unborn /\ home'[j] = home[j] /\ kind'[j] = kind[j]
       /\ dir'[j] = "tmp" => dir[j] = "tmp" \/ j \in lost'

Stays(c) ==
  /\ at'[c] = at[c] /\ on'[c] = on[c] /\ about'[c] = about[c]
  /\ draft'[c] = draft[c] /\ spared'[c] = spared[c]

\* What a request may do to the jobs.
Removes ==
  /\ UNCHANGED <<phase, line, home, kind>> /\ lost \subseteq lost'
  /\ \A j \in Jobs : dir'[j] = dir[j] \/ (dir'[j] = "absent" /\ j \in lost')

LEMMA RemovesKeeps ==
  ASSUME TypeInv, JobInv, Removes
  PROVE  JobInv' /\ Calm
<1>1. ASSUME NEW j \in Jobs
      PROVE  /\ phase'[j] = phase[j] /\ home'[j] = home[j] /\ kind'[j] = kind[j]
             /\ dir'[j] = dir[j] \/ (dir'[j] = "absent" /\ j \in lost')
             /\ j \in lost => j \in lost'
  BY DEF Removes
<1>2. Tracked' = Tracked
  BY DEF Removes, Tracked
<1>3. JobInv'
  BY <1>1, <1>2 DEF JobInv, Unborn, Writing, Settled
<1>4. Calm
  BY <1>1 DEF Calm, Removes
<1> QED
  BY <1>3, <1>4

\* A request that stays where it is, or is at a place that claims nothing.
LEMMA LookStays ==
  ASSUME TypeInv, HeldInv, LookInv, Calm,
         \A c \in Clients : Stays(c) \/ LookAt(c)'
  PROVE  LookInv'
<1> SUFFICES ASSUME NEW r \in Clients, Stays(r)
             PROVE  LookAt(r)'
  BY DEF LookInv
<1> QED
  BY DEF HeldInv, LookInv, LookAt, Calm, Stays, Looking

LEMMA DeleteStays ==
  ASSUME TypeInv, DeleteInv, Calm,
         \A c \in Clients : Stays(c) \/ DeleteAt(c)'
  PROVE  DeleteInv'
<1> SUFFICES ASSUME NEW r \in Clients, Stays(r), at'[r] \in Deleting, NEW j \in spared'[r]
             PROVE  /\ phase'[j] \notin Unborn /\ home'[j] = on'[r]
                    /\ at'[r] = "removing" \/ (at'[r] = "exports" /\ kind'[j] = "analyses")
                         => dir'[j] # "tmp" \/ j \in lost'
  BY DEF DeleteInv, DeleteAt
<1>2. /\ at[r] \in Deleting /\ j \in spared[r] /\ j \in Jobs
      /\ at'[r] = at[r] /\ on'[r] = on[r]
  BY DEF Stays, TypeInv, AskType
<1>3. /\ phase[j] \notin Unborn /\ home[j] = on[r]
      /\ at[r] = "removing" \/ (at[r] = "exports" /\ kind[j] = "analyses")
           => dir[j] # "tmp" \/ j \in lost
  BY <1>2 DEF DeleteInv, DeleteAt
<1> QED
  BY <1>2, <1>3 DEF Calm

LEMMA SettingsStay ==
  ASSUME TypeInv, SettingsInv, UNCHANGED <<saved, settings, crossed>>,
         \A c \in Clients : Stays(c) \/ (at[c] # "saved" /\ at'[c] # "saved")
  PROVE  SettingsInv'
<1>1. \A c \in Clients : /\ at'[c] = "saved" <=> at[c] = "saved"
                         /\ at'[c] = "saved" => draft'[c] = draft[c]
  BY DEF Stays
<1> QED
  BY <1>1 DEF SettingsInv

LEMMA CreateStays ==
  ASSUME TypeInv, HeldInv, CreateInv, made \subseteq made',
         UNCHANGED <<record, manifest, created, gone>>,
         \A c \in Clients : Stays(c) \/ at'[c] \notin Creating \cup {"retargeting"}
  PROVE  CreateInv'
<1>1. \A c \in Clients : at'[c] \in Creating \cup {"retargeting"} =>
        at'[c] = at[c] /\ on'[c] = on[c] /\ draft'[c] = draft[c]
  BY DEF Stays
<1>2. \A p \in Ids : p \notin made' \cup gone' => record'[p] = NoRecord
  BY DEF CreateInv
<1>3. ASSUME NEW r \in Clients, at'[r] \in Creating, on'[r] \notin gone'
      PROVE  /\ on'[r] \in made' /\ created'[on'[r]] = NoClient
             /\ at'[r] = "reserved" => record'[on'[r]] = NoRecord
             /\ at'[r] = "recorded" => record'[on'[r]] \in Records /\ record'[on'[r]].owner = r
  BY <1>1, <1>3 DEF CreateInv
<1>4. ASSUME NEW r \in Clients, NEW c \in Clients, at'[r] \in Creating, at'[c] \in Creating,
             on'[r] = on'[c], on'[r] \notin gone'
      PROVE  r = c
  BY <1>1, <1>4 DEF CreateInv
<1>5. ASSUME NEW r \in Clients, at'[r] = "retargeting", on'[r] \notin gone'
      PROVE  record'[on'[r]] \in Records /\ draft'[r].owner = record'[on'[r]].owner
  BY <1>1, <1>5 DEF CreateInv
<1>6. ASSUME NEW p \in Ids, created'[p] # NoClient, p \notin gone'
      PROVE  /\ p \in made' /\ manifest'[p] = created'[p]
             /\ record'[p] \in Records /\ record'[p].owner = created'[p]
  BY <1>6 DEF CreateInv
<1> QED
  BY <1>2, <1>3, <1>4, <1>5, <1>6 DEF CreateInv

-----------------------------------------------------------------------------
(* Jobs                                                                     *)

LEMMA SmallestFact ==
  ASSUME NEW I, I \subseteq Nat, I # {}
  PROVE  \E a \in I : \A b \in I : a =< b
<1> DEFINE R == {ss \in Nat \X Nat : ss[1] < ss[2]}
<1>1. IsWellFoundedOn(R, Nat)
  BY NatLessThanWellFounded, Zenon DEF OpToRel
<1>2. PICK a \in I : \A b \in I : <<b, a>> \notin R
  <2> HIDE DEF R
  <2> QED
    BY <1>1, WFMin
<1>3. ASSUME NEW b \in I, b < a PROVE FALSE
  <2>1. <<b, a>> \in Nat \X Nat /\ <<b, a>>[1] < <<b, a>>[2]
    BY <1>3
  <2>2. <<b, a>> \in R
    BY <2>1
  <2> QED
    BY <1>2, <2>2
<1>4. a \in Nat /\ \A b \in I : b \in Nat
  OBVIOUS
<1> QED
  BY <1>3, <1>4

LEMMA LineFact ==
  ASSUME NEW s \in Seq(Jobs), NEW j \in Jobs
  PROVE  /\ Append(s, j) \in Seq(Jobs) /\ j \in ToSet(Append(s, j))
         /\ ToSet(s) \subseteq ToSet(Append(s, j))
         /\ RemoveFirst(s, j) \in Seq(Jobs)
         /\ \A i \in ToSet(s) : i # j => i \in ToSet(RemoveFirst(s, j))
<1>1. /\ Append(s, j) \in Seq(Jobs) /\ Len(Append(s, j)) = Len(s) + 1 /\ Len(s) \in Nat
      /\ Append(s, j)[Len(s) + 1] = j
      /\ \A a \in 1..Len(s) : Append(s, j)[a] = s[a]
  OBVIOUS
<1>2. DOMAIN s = 1..Len(s) /\ DOMAIN Append(s, j) = 1..(Len(s) + 1)
  BY <1>1
<1>3. j \in ToSet(Append(s, j)) /\ ToSet(s) \subseteq ToSet(Append(s, j))
  BY <1>1, <1>2 DEF ToSet
<1>4. CASE ~\E a \in 1..Len(s) : s[a] = j
  BY <1>1, <1>3, <1>4 DEF RemoveFirst
<1>5. CASE \E a \in 1..Len(s) : s[a] = j
  <2> DEFINE n == SelectInSeq(s, LAMBDA v : v = j)
             I == {a \in 1..Len(s) : s[a] = j}
  <2>1. n = Min(I)
    BY <1>5 DEF SelectInSeq
  <2>2. \E a \in I : \A b \in I : a =< b
    <3>1. I \subseteq Nat /\ I # {}
      BY <1>1, <1>5
    <3> HIDE DEF I
    <3> QED
      BY <3>1, SmallestFact
  <2>3. n \in I
    BY <2>1, <2>2 DEF Min
  <2>4. n \in 1..Len(s) /\ s[n] = j
    BY <2>3
  <2> HIDE DEF n
  <2> DEFINE front == SubSeq(s, 1, n - 1)
             back == SubSeq(s, n + 1, Len(s))
  <2>5. /\ front \in Seq(Jobs) /\ Len(front) = n - 1 /\ \A a \in 1..(n - 1) : front[a] = s[a]
    BY <1>1, <2>4
  <2>6. /\ back \in Seq(Jobs) /\ Len(back) = Len(s) - n /\ \A a \in 1..(Len(s) - n) : back[a] = s[n + a]
    BY <1>1, <2>4
  <2>7. RemoveFirst(s, j) = front \o back
    BY <1>5 DEF RemoveFirst, RemoveAt, n
  <2> HIDE DEF front, back
  <2>8. /\ front \o back \in Seq(Jobs) /\ Len(front \o back) = Len(s) - 1
        /\ DOMAIN (front \o back) = 1..(Len(s) - 1)
        /\ \A a \in 1..(Len(s) - 1) : (front \o back)[a] = IF a < n THEN s[a] ELSE s[a + 1]
    BY <1>1, <2>4, <2>5, <2>6, SMTT(20)
  <2>9. ASSUME NEW i \in ToSet(s), i # j PROVE i \in ToSet(front \o back)
    <3>1. PICK a \in 1..Len(s) : s[a] = i
      BY <1>2, <2>9 DEF ToSet
    <3>2. a # n
      BY <2>4, <2>9, <3>1
    <3>3. CASE a < n
      <4>1. a \in 1..(Len(s) - 1) /\ (front \o back)[a] = i
        BY <1>1, <2>4, <2>8, <3>1, <3>3
      <4> QED
        BY <2>8, <4>1 DEF ToSet
    <3>4. CASE a > n
      <4>1. a - 1 \in 1..(Len(s) - 1) /\ ~(a - 1 < n) /\ (a - 1) + 1 = a
        BY <1>1, <2>4, <3>1, <3>4
      <4>2. (front \o back)[a - 1] = s[a]
        BY <2>8, <4>1
      <4> QED
        BY <2>8, <3>1, <4>1, <4>2 DEF ToSet
    <3> QED
      BY <1>1, <2>4, <3>2, <3>3, <3>4
  <2> QED
    BY <1>1, <1>3, <2>7, <2>8, <2>9
<1> QED
  BY <1>4, <1>5

LEMMA OneJob ==
  ASSUME TypeInv, JobInv, NEW j \in Jobs, lost \subseteq lost',
         \A i \in Jobs : i # j =>
           /\ phase'[i] = phase[i] /\ home'[i] = home[i] /\ kind'[i] = kind[i]
           /\ dir'[i] = dir[i] /\ (i \in Tracked => i \in Tracked'),
         /\ phase'[j] \in Unborn => dir'[j] = "absent"
         /\ phase'[j] \in Writing => dir'[j] = "tmp" \/ j \in lost'
         /\ phase'[j] \in Settled => dir'[j] = "final" \/ j \in lost'
         /\ phase'[j] = "dropped" => j \in lost'
         /\ phase'[j] \in Known => j \in Tracked',
         dir[j] = "final" => dir'[j] = "final" \/ j \in lost',
         phase[j] \notin Unborn =>
           /\ phase'[j] \notin Unborn /\ home'[j] = home[j] /\ kind'[j] = kind[j]
           /\ dir'[j] = "tmp" => dir[j] = "tmp" \/ j \in lost'
  PROVE  JobInv' /\ Calm
<1>1. ASSUME NEW i \in Jobs, i # j
      PROVE  /\ phase'[i] \in Unborn => dir'[i] = "absent"
             /\ phase'[i] \in Writing => dir'[i] = "tmp" \/ i \in lost'
             /\ phase'[i] \in Settled => dir'[i] = "final" \/ i \in lost'
             /\ phase'[i] = "dropped" => i \in lost'
             /\ phase'[i] \in Known => i \in Tracked'
  BY <1>1 DEF JobInv
<1>2. JobInv'
  BY <1>1 DEF JobInv
<1>3. Calm
  BY DEF Calm
<1> QED
  BY <1>2, <1>3

\* A job's step tells no request anything.
LEMMA JobStep ==
  ASSUME IInv, NEW j \in Jobs, Job(j)
  PROVE  IInv'
<1>1. TypeInv /\ HeldInv /\ JobInv /\ LookInv /\ DeleteInv /\ SettingsInv /\ CreateInv
  BY DEF IInv
<1>2. /\ UNCHANGED <<at, on, about, draft, spared, record, manifest, created, gone>>
      /\ UNCHANGED <<saved, settings, crossed>>
      /\ made \subseteq made'
  BY DEF Job, ReadProject, NewDir, Track, Start, Withdraw, WriteStatus, Return, Finalize, ReadStatus,
         RewriteStatus, Untrack, DeleteJob, Step, disk, settingsVars, jobVars, requestVars, askVars,
         boundVars, pastVars
<1>3. \A c \in Clients : Stays(c)
  BY <1>2 DEF Stays
<1> DEFINE Goes ==
      /\ made' \subseteq Ids /\ lost' \subseteq Jobs
      /\ dir' \in [Jobs -> {"absent", "tmp", "final"}] /\ line' \in Seq(Jobs)
      /\ phase' \in [Jobs -> Phases] /\ kind' \in [Jobs -> {"analyses", "exports"}]
      /\ home' \in [Jobs -> Ids \cup {NoId}]
      /\ \A i \in Jobs : phase'[i] # "new" => home'[i] \in Ids
      /\ JobInv' /\ Calm
<1>4. ASSUME Goes PROVE IInv'
  <2>1. TypeInv'
    BY <1>1, <1>2, <1>4 DEF TypeInv, AskType
  <2>2. HeldInv'
    BY <1>1, <1>2 DEF HeldInv
  <2>3. LookInv' /\ DeleteInv'
    BY <1>1, <1>3, <1>4, LookStays, DeleteStays
  <2>4. SettingsInv'
    BY <1>1, <1>2, <1>3, SettingsStay
  <2>5. CreateInv'
    BY <1>1, <1>2, <1>3, CreateStays
  <2> QED
    BY <1>4, <2>1, <2>2, <2>3, <2>4, <2>5 DEF IInv
<1>5. /\ made \subseteq Ids /\ lost \subseteq Jobs
      /\ dir \in [Jobs -> {"absent", "tmp", "final"}] /\ line \in Seq(Jobs)
      /\ phase \in [Jobs -> Phases] /\ kind \in [Jobs -> {"analyses", "exports"}]
      /\ home \in [Jobs -> Ids \cup {NoId}] /\ \A i \in Jobs : phase[i] # "new" => home[i] \in Ids
  BY <1>1 DEF TypeInv
<1>6. /\ phase[j] \in Unborn => dir[j] = "absent"
      /\ phase[j] \in Writing => dir[j] = "tmp" \/ j \in lost
      /\ phase[j] \in Settled => dir[j] = "final" \/ j \in lost
      /\ phase[j] = "dropped" => j \in lost
      /\ phase[j] \in Known => j \in Tracked
  BY <1>1 DEF JobInv
\* Enough to know what becomes of j.
<1>7. ASSUME lost \subseteq lost', lost' \subseteq Jobs, made' \subseteq Ids, line' \in Seq(Jobs),
             \A i \in Tracked : i # j => i \in Tracked',
             NEW w \in Phases, phase[j] # "new", phase' = [phase EXCEPT ![j] = w],
             NEW d \in {"absent", "tmp", "final"}, dir' = [dir EXCEPT ![j] = d],
             UNCHANGED <<home, kind>>,
             /\ w \in Writing => d = "tmp" \/ j \in lost'
             /\ w \in Settled => d = "final" \/ j \in lost'
             /\ w = "dropped" => j \in lost'
             /\ w \in Known => j \in Tracked'
             /\ dir[j] = "final" => d = "final" \/ j \in lost'
             /\ phase[j] \notin Unborn /\ d = "tmp" => dir[j] = "tmp" \/ j \in lost'
             /\ w \notin Unborn
      PROVE  IInv'
  <2>1. /\ dir' \in [Jobs -> {"absent", "tmp", "final"}] /\ phase' \in [Jobs -> Phases]
        /\ phase'[j] = w /\ dir'[j] = d
        /\ \A i \in Jobs : i # j => phase'[i] = phase[i] /\ dir'[i] = dir[i]
    BY <1>5, <1>7
  <2>2. JobInv' /\ Calm
    BY <1>1, <1>7, <2>1, OneJob
  <2> QED
    BY <1>4, <1>5, <1>7, <2>1, <2>2
<1>9. UNCHANGED line => Tracked' = Tracked
  BY DEF Tracked
<1>10. phase[j] \in Phases /\ dir[j] \in {"absent", "tmp", "final"} /\ dir = [dir EXCEPT ![j] = dir[j]]
       /\ phase = [phase EXCEPT ![j] = phase[j]]
  BY <1>5
<1> USE DEF Unborn, Writing, Settled, Known, Phases
<1>11. CASE ReadProject(j)
  <2>1. /\ phase[j] = "new" /\ phase' = [phase EXCEPT ![j] = "read"]
        /\ UNCHANGED <<made, lost, dir, line>>
        /\ \E p \in Ids, k \in {"analyses", "exports"} :
             home' = [home EXCEPT ![j] = p] /\ kind' = [kind EXCEPT ![j] = k]
    BY <1>11 DEF ReadProject, Step, disk, jobVars, pastVars
  <2>2. PICK p \in Ids, k \in {"analyses", "exports"} :
          home' = [home EXCEPT ![j] = p] /\ kind' = [kind EXCEPT ![j] = k]
    BY <2>1
  <2>3. /\ phase' \in [Jobs -> Phases] /\ kind' \in [Jobs -> {"analyses", "exports"}]
        /\ home' \in [Jobs -> Ids \cup {NoId}] /\ phase'[j] = "read" /\ home'[j] \in Ids
        /\ \A i \in Jobs : i # j => phase'[i] = phase[i] /\ home'[i] = home[i] /\ kind'[i] = kind[i]
    BY <1>5, <2>1, <2>2
  <2>4. JobInv' /\ Calm
    BY <1>1, <1>6, <1>9, <2>1, <2>3, OneJob
  <2>5. \A i \in Jobs : phase'[i] # "new" => home'[i] \in Ids
    BY <1>5, <2>3
  <2> QED
    BY <1>4, <1>5, <2>1, <2>3, <2>4, <2>5
<1>12. CASE NewDir(j)
  <2>1. /\ phase[j] = "read" /\ phase' = [phase EXCEPT ![j] = "reserved"]
        /\ UNCHANGED <<lost, line, home, kind>>
        /\ made' = made \cup {home[j]} /\ dir' = [dir EXCEPT ![j] = "tmp"]
    BY <1>12 DEF NewDir, Step, disk, jobVars, pastVars
  <2> QED
    BY <1>5, <1>6, <1>7, <1>9, <1>10, <2>1
<1>13. CASE Track(j)
  <2>1. /\ phase[j] = "reserved" /\ phase' = [phase EXCEPT ![j] = "queued"]
        /\ UNCHANGED <<made, lost, dir, home, kind>>
        /\ line' = Append(line, j)
    BY <1>13 DEF Track, Step, disk, jobVars, pastVars
  <2>2. line' \in Seq(Jobs) /\ j \in Tracked' /\ Tracked \subseteq Tracked'
    BY <1>5, <2>1, LineFact DEF Tracked
  <2> QED
    BY <1>5, <1>6, <1>7, <1>9, <1>10, <2>1, <2>2
<1>14. CASE Start(j)
  <2>1. /\ phase[j] = "queued" /\ phase' = [phase EXCEPT ![j] = "running"]
        /\ UNCHANGED <<made, lost, dir, line, home, kind>>
    BY <1>14 DEF Start, Step, disk, jobVars, pastVars
  <2> QED
    BY <1>5, <1>6, <1>7, <1>9, <1>10, <2>1
<1>15. CASE Withdraw(j)
  <2>1. /\ phase[j] = "queued" /\ phase' = [phase EXCEPT ![j] = "dropped"]
        /\ UNCHANGED <<made, line, home, kind>>
        /\ dir' = [dir EXCEPT ![j] = "absent"] /\ lost' = lost \cup {j}
    BY <1>15 DEF Withdraw, Step, disk, jobVars, pastVars
  <2> QED
    BY <1>5, <1>6, <1>7, <1>9, <1>10, <2>1
<1>16. CASE WriteStatus(j)
  <2>1. /\ phase[j] = "running" /\ dir[j] = "absent" /\ UNCHANGED <<lost, line, phase, home, kind>>
        /\ made' = made \cup {home[j]} /\ dir' = [dir EXCEPT ![j] = "tmp"]
    BY <1>16 DEF WriteStatus, Step, disk, jobVars, pastVars
  <2> QED
    BY <1>5, <1>6, <1>7, <1>9, <1>10, <2>1
<1>17. CASE Return(j)
  <2>1. /\ phase[j] = "running" /\ phase' = [phase EXCEPT ![j] = "returned"]
        /\ UNCHANGED <<made, lost, dir, line, home, kind>>
    BY <1>17 DEF Return, Step, disk, jobVars, pastVars
  <2> QED
    BY <1>5, <1>6, <1>7, <1>9, <1>10, <2>1
<1>18. CASE Finalize(j)
  <2>1. /\ phase[j] = "returned" /\ phase' = [phase EXCEPT ![j] = "moved"] /\ UNCHANGED <<made, line, home, kind>>
        /\ \/ dir[j] = "tmp" /\ dir' = [dir EXCEPT ![j] = "final"] /\ lost' = lost
           \/ dir[j] = "tmp" /\ dir' = [dir EXCEPT ![j] = "absent"] /\ lost' = lost \cup {j}
           \/ dir[j] = "tmp" /\ lost' = lost \cup {j} /\ dir' = dir
           \/ dir[j] # "tmp" /\ dir' = dir /\ lost' = lost
    BY <1>18 DEF Finalize, Step, disk, jobVars, pastVars, Publish
  <2>2. CASE dir[j] = "tmp" /\ dir' = [dir EXCEPT ![j] = "final"] /\ lost' = lost
    BY <1>5, <1>6, <1>7, <1>9, <1>10, <2>1, <2>2
  <2>3. CASE dir[j] = "tmp" /\ dir' = [dir EXCEPT ![j] = "absent"] /\ lost' = lost \cup {j}
    BY <1>5, <1>6, <1>7, <1>9, <1>10, <2>1, <2>3
  <2>4. CASE dir[j] = "tmp" /\ lost' = lost \cup {j} /\ dir' = dir
    BY <1>5, <1>6, <1>7, <1>9, <1>10, <2>1, <2>4
  <2>5. CASE dir[j] # "tmp" /\ dir' = dir /\ lost' = lost
    BY <1>5, <1>6, <1>7, <1>9, <1>10, <2>1, <2>5
  <2> QED
    BY <2>1, <2>2, <2>3, <2>4, <2>5
<1>19. CASE ReadStatus(j)
  <2>1. /\ phase[j] = "moved" /\ phase' = [phase EXCEPT ![j] = "rewriting"]
        /\ UNCHANGED <<made, lost, dir, line, home, kind>>
    BY <1>19 DEF ReadStatus, Step, disk, jobVars, pastVars
  <2> QED
    BY <1>5, <1>6, <1>7, <1>9, <1>10, <2>1
<1>20. CASE RewriteStatus(j)
  <2>1. /\ phase[j] = "rewriting" /\ phase' = [phase EXCEPT ![j] = "corrected"]
        /\ UNCHANGED <<lost, line, home, kind>>
        /\ made' = made \cup {home[j]} /\ dir' = [dir EXCEPT ![j] = "final"]
    BY <1>20 DEF RewriteStatus, Step, disk, jobVars, pastVars
  <2> QED
    BY <1>5, <1>6, <1>7, <1>9, <1>10, <2>1
<1>21. CASE Untrack(j)
  <2>1. /\ phase[j] \in {"dropped", "moved", "corrected"} /\ phase' = [phase EXCEPT ![j] = "over"]
        /\ UNCHANGED <<made, lost, dir, home, kind>>
        /\ line' = RemoveFirst(line, j)
    BY <1>21 DEF Untrack, Step, disk, jobVars, pastVars
  <2>2. line' \in Seq(Jobs) /\ \A i \in Tracked : i # j => i \in Tracked'
    BY <1>5, <2>1, LineFact DEF Tracked
  <2> QED
    BY <1>5, <1>6, <1>7, <1>9, <1>10, <2>1, <2>2
<1>22. CASE DeleteJob(j)
  <2>1. /\ dir[j] = "final" /\ UNCHANGED <<made, phase, line, home, kind>>
        /\ dir' = [dir EXCEPT ![j] = "absent"] /\ lost' = lost \cup {j}
    BY <1>22 DEF DeleteJob, Step, disk, jobVars, pastVars
  <2> QED
    BY <1>5, <1>6, <1>7, <1>9, <1>10, <2>1
<1> QED
  BY <1>11, <1>12, <1>13, <1>14, <1>15, <1>16, <1>17, <1>18, <1>19, <1>20, <1>21, <1>22 DEF Job

-----------------------------------------------------------------------------
(* Requests                                                                 *)

LEMMA AnswerFact ==
  ASSUME TypeInv, NEW r \in Clients, Answer(r)
  PROVE  AskType' /\ (\A c \in Clients : c # r => Stays(c)) /\ at'[r] = "idle"
<1>1. /\ at' = [at EXCEPT ![r] = "idle"] /\ on' = [on EXCEPT ![r] = NoId]
      /\ about' = [about EXCEPT ![r] = NoJob] /\ draft' = [draft EXCEPT ![r] = NoRecord]
      /\ spared' = [spared EXCEPT ![r] = {}]
  BY DEF Answer, Go
<1>2. AskType
  BY DEF TypeInv
<1>3. AskType'
  BY <1>1, <1>2 DEF AskType, Steps
<1> QED
  BY <1>1, <1>2, <1>3 DEF AskType, Stays

LEMMA MoveFact ==
  ASSUME TypeInv, NEW r \in Clients, NEW w \in Steps, Go(r, w),
         UNCHANGED <<on, about, draft, spared>>
  PROVE  AskType' /\ (\A c \in Clients : c # r => Stays(c)) /\ at'[r] = w
BY DEF TypeInv, AskType, Go, Stays

\* What a request has to show for itself.
LEMMA RequestFrame ==
  ASSUME IInv, NEW r \in Clients, Removes,
         \A c \in Clients : c # r => Stays(c),
         made' \subseteq Ids, gone' \subseteq Ids, lost' \subseteq Jobs,
         record' \in [Ids -> Records \cup {NoRecord}],
         manifest' \in [Ids -> Clients \cup {NoClient}],
         created' \in [Ids -> Clients \cup {NoClient}],
         dir' \in [Jobs -> {"absent", "tmp", "final"}],
         saved' \in Settings, settings' \in Settings, crossed' \in BOOLEAN,
         AskType',
         at'[r] \in Creating \cup Deleting \cup {"retargeting"} => on'[r] \in Ids,
         at'[r] = "retargeting" => draft'[r] \in Records,
         at'[r] \in Saving => draft'[r] \in Settings,
         at'[r] \in Looking => about'[r] \in Jobs
  PROVE  /\ TypeInv' /\ HeldInv' /\ JobInv' /\ Calm
         /\ LookAt(r)' => LookInv'
         /\ DeleteAt(r)' => DeleteInv'
         /\ UNCHANGED <<saved, settings, crossed>> /\ at[r] # "saved" /\ at'[r] # "saved" => SettingsInv'
         /\ UNCHANGED <<record, manifest, created, gone>> /\ made \subseteq made'
              /\ at'[r] \notin Creating \cup {"retargeting"} => CreateInv'
<1>1. TypeInv /\ HeldInv /\ JobInv /\ LookInv /\ DeleteInv /\ SettingsInv /\ CreateInv
  BY DEF IInv
<1>2. JobInv' /\ Calm
  BY <1>1, RemovesKeeps
<1>3. TypeInv'
  BY <1>1 DEF TypeInv, Removes
<1>4. HeldInv'
  BY <1>1 DEF HeldInv, Stays
<1>5. LookAt(r)' => LookInv'
  BY <1>1, <1>2, LookStays
<1>6. DeleteAt(r)' => DeleteInv'
  BY <1>1, <1>2, DeleteStays
<1>7. UNCHANGED <<saved, settings, crossed>> /\ at[r] # "saved" /\ at'[r] # "saved" => SettingsInv'
  BY <1>1, SettingsStay
<1>8. UNCHANGED <<record, manifest, created, gone>> /\ made \subseteq made'
         /\ at'[r] \notin Creating \cup {"retargeting"} => CreateInv'
  BY <1>1, CreateStays
<1> QED
  BY <1>2, <1>3, <1>4, <1>5, <1>6, <1>7, <1>8

\* A request that changes no project.
LEMMA QuietFrame ==
  ASSUME IInv, NEW r \in Clients,
         UNCHANGED <<disk, phase, line, home, kind, created, gone, lost>>,
         \A c \in Clients : c # r => Stays(c),
         saved' \in Settings, settings' \in Settings, crossed' \in BOOLEAN,
         AskType',
         at'[r] \notin Creating \cup {"retargeting"},
         at'[r] \in Deleting => on'[r] \in Ids,
         at'[r] \in Saving => draft'[r] \in Settings,
         at'[r] \in Looking => about'[r] \in Jobs
  PROVE  /\ TypeInv' /\ HeldInv' /\ JobInv' /\ Calm /\ CreateInv'
         /\ LookAt(r)' => LookInv'
         /\ DeleteAt(r)' => DeleteInv'
         /\ UNCHANGED <<saved, settings, crossed>> /\ at[r] # "saved" /\ at'[r] # "saved" => SettingsInv'
<1>1. TypeInv
  BY DEF IInv
<1>2. UNCHANGED <<made, record, manifest, dir, phase, line, home, kind, created, gone, lost>>
  BY DEF disk
<1>3. Removes
  BY <1>2 DEF Removes
<1>4. /\ made' \subseteq Ids /\ gone' \subseteq Ids /\ lost' \subseteq Jobs
      /\ record' \in [Ids -> Records \cup {NoRecord}]
      /\ manifest' \in [Ids -> Clients \cup {NoClient}]
      /\ created' \in [Ids -> Clients \cup {NoClient}]
      /\ dir' \in [Jobs -> {"absent", "tmp", "final"}]
  BY <1>1, <1>2 DEF TypeInv
<1>5. at'[r] \in Creating \cup Deleting \cup {"retargeting"} => on'[r] \in Ids
  OBVIOUS
<1>6. made \subseteq made' /\ UNCHANGED <<record, manifest, created, gone>>
  BY <1>2
<1> QED
  BY <1>3, <1>4, <1>5, <1>6, RequestFrame

\* The page of a project, and a request for settings that is only taken.
LEMMA PageStep ==
  ASSUME IInv, NEW r \in Clients,
         ListCommitted(r) \/ AddLive(r) \/ AnswerPage(r) \/ TakeSettings(r)
  PROVE  IInv'
<1>1. TypeInv /\ HeldInv /\ saved \in Settings /\ settings \in Settings /\ crossed \in BOOLEAN /\ AskType
  BY DEF IInv, TypeInv
<1>2. /\ UNCHANGED <<disk, phase, line, home, kind, created, gone, lost>>
      /\ UNCHANGED <<saved, settings, crossed>>
  BY DEF ListCommitted, AddLive, AnswerPage, TakeSettings, jobVars, settingsVars, pastVars
<1> DEFINE Goes(w) ==
      /\ AskType' /\ (\A c \in Clients : c # r => Stays(c)) /\ at'[r] = w
      /\ at[r] # "saved" /\ (w = "saving" => draft'[r] \in Settings)
<1>3. ASSUME NEW w \in {"idle", "listed", "shown", "saving"}, Goes(w) PROVE IInv'
  <2>1. /\ at'[r] \notin Creating \cup Deleting \cup Looking \cup {"retargeting", "saved"}
        /\ at'[r] \in Saving => draft'[r] \in Settings
    BY <1>3 DEF Creating, Deleting, Looking, Saving
  <2>2. LookAt(r)' /\ DeleteAt(r)'
    BY <2>1 DEF LookAt, DeleteAt, Looking
  <2>3. /\ TypeInv' /\ HeldInv' /\ JobInv' /\ CreateInv'
        /\ LookInv' /\ DeleteInv' /\ SettingsInv'
    BY <1>1, <1>2, <1>3, <2>1, <2>2, QuietFrame
  <2> QED
    BY <2>3 DEF IInv
<1>4. CASE ListCommitted(r)
  <2>1. /\ at[r] = "idle" /\ Go(r, "listed") /\ UNCHANGED <<about, draft, spared>>
        /\ \E p \in Ids : on' = [on EXCEPT ![r] = p]
    BY <1>4 DEF ListCommitted, Asks
  <2>2. AskType' /\ (\A c \in Clients : c # r => Stays(c)) /\ at'[r] = "listed"
    BY <1>1, <2>1 DEF AskType, Go, Stays, Steps
  <2> QED
    BY <1>3, <2>1, <2>2
<1>5. CASE AddLive(r)
  <2>1. at[r] = "listed" /\ Go(r, "shown") /\ UNCHANGED <<on, about, draft, spared>>
    BY <1>5 DEF AddLive
  <2>2. AskType' /\ (\A c \in Clients : c # r => Stays(c)) /\ at'[r] = "shown"
    BY <1>1, <2>1, MoveFact DEF Steps
  <2> QED
    BY <1>3, <2>1, <2>2
<1>6. CASE AnswerPage(r)
  <2>1. at[r] = "shown" /\ Answer(r)
    BY <1>6 DEF AnswerPage
  <2> QED
    BY <1>1, <1>3, <2>1, AnswerFact
<1>7. CASE TakeSettings(r)
  <2>1. /\ at[r] = "idle" /\ Go(r, "saving") /\ UNCHANGED <<on, about, spared>>
        /\ \E t \in Targets, k \in Keys \cup {Mask} :
             draft' = [draft EXCEPT ![r] = [target |-> t, key |-> IF k = Mask THEN settings.key ELSE k]]
    BY <1>7 DEF TakeSettings, Asks
  <2>2. PICK t \in Targets, k \in Keys \cup {Mask} :
          draft' = [draft EXCEPT ![r] = [target |-> t, key |-> IF k = Mask THEN settings.key ELSE k]]
    BY <2>1
  <2>3. [target |-> t, key |-> IF k = Mask THEN settings.key ELSE k] \in Settings
    BY <1>1 DEF Settings
  <2>4. AskType' /\ (\A c \in Clients : c # r => Stays(c)) /\ at'[r] = "saving" /\ draft'[r] \in Settings
    BY <1>1, <2>1, <2>2, <2>3 DEF AskType, Go, Stays, Steps, Saving
  <2> QED
    BY <1>3, <2>1, <2>4
<1> QED
  BY <1>4, <1>5, <1>6, <1>7

LEMMA DeleteStep ==
  ASSUME IInv, NEW r \in Clients, StatProject(r) \/ ListAnalyses(r) \/ ListExports(r)
  PROVE  IInv'
<1>1. TypeInv /\ HeldInv /\ JobInv /\ DeleteInv /\ AskType
      /\ saved \in Settings /\ settings \in Settings /\ crossed \in BOOLEAN
  BY DEF IInv, TypeInv
<1>2. /\ UNCHANGED <<disk, phase, line, home, kind, created, gone, lost>>
      /\ UNCHANGED <<saved, settings, crossed>>
  BY DEF StatProject, ListAnalyses, ListExports, ListKind, jobVars, settingsVars, pastVars
<1>3. UNCHANGED <<dir, phase, home, kind, lost>>
  BY <1>2 DEF disk
<1> DEFINE Goes(w) ==
      /\ AskType' /\ (\A c \in Clients : c # r => Stays(c)) /\ at'[r] = w
      /\ at[r] # "saved" /\ (w # "idle" => on'[r] \in Ids)
<1>4. ASSUME NEW w \in {"idle"} \cup Deleting, Goes(w), DeleteAt(r)' PROVE IInv'
  <2>1. /\ at'[r] \notin Creating \cup Looking \cup Saving \cup {"retargeting"}
        /\ at'[r] # "saved" /\ (at'[r] \in Deleting => on'[r] \in Ids)
    BY <1>4 DEF Creating, Deleting, Looking, Saving
  <2>2. LookAt(r)'
    BY <2>1 DEF LookAt, Looking
  <2>3. /\ TypeInv' /\ HeldInv' /\ JobInv' /\ CreateInv'
        /\ LookInv' /\ DeleteInv' /\ SettingsInv'
    BY <1>1, <1>2, <1>4, <2>1, <2>2, QuietFrame
  <2> QED
    BY <2>3 DEF IInv
<1>5. CASE StatProject(r)
  <2>1. /\ at[r] = "idle" /\ Go(r, "analyses") /\ UNCHANGED <<about, draft>>
        /\ \E p \in made : /\ on' = [on EXCEPT ![r] = p]
                           /\ spared' = [spared EXCEPT ![r] = {j \in Of(p) : dir[j] = "tmp"}]
    BY <1>5 DEF StatProject, Asks
  <2>2. PICK p \in made : /\ on' = [on EXCEPT ![r] = p]
                         /\ spared' = [spared EXCEPT ![r] = {j \in Of(p) : dir[j] = "tmp"}]
    BY <2>1
  <2>3. p \in Ids /\ {j \in Of(p) : dir[j] = "tmp"} \in SUBSET Jobs
    BY <1>1 DEF TypeInv, Of
  <2>4. /\ AskType' /\ (\A c \in Clients : c # r => Stays(c)) /\ at'[r] = "analyses"
        /\ on'[r] = p /\ spared'[r] = {j \in Of(p) : dir[j] = "tmp"}
    BY <1>1, <2>1, <2>2, <2>3 DEF AskType, Go, Stays, Steps, Deleting
  <2>5. ASSUME NEW j \in spared'[r] PROVE phase'[j] \notin Unborn /\ home'[j] = on'[r]
    <3>1. j \in Jobs /\ home[j] = p /\ dir[j] = "tmp"
      BY <2>4, <2>5 DEF Of
    <3>2. phase[j] \notin Unborn
      BY <1>1, <3>1 DEF JobInv
    <3> QED
      BY <1>3, <2>4, <3>1, <3>2
  <2>6. DeleteAt(r)'
    BY <2>4, <2>5 DEF DeleteAt
  <2> QED
    BY <1>4, <2>1, <2>3, <2>4, <2>6 DEF Deleting
\* A listing passes over the jobs of its kind, or is over.
<1>6. ASSUME NEW k \in {"analyses", "exports"}, NEW w \in Deleting, ListKind(r, k, w),
             k = "analyses" => w = "exports", k = "exports" => w = "removing"
      PROVE  IInv'
  <2>1. at[r] = k /\ on[r] \in Ids /\ at[r] \in Deleting
    BY <1>1, <1>6 DEF ListKind, HeldInv, Deleting
  <2>2. CASE Answer(r)
    <3>1. Goes("idle")
      BY <1>1, <2>1, <2>2, AnswerFact
    <3>2. DeleteAt(r)'
      BY <3>1 DEF DeleteAt, Deleting
    <3> QED
      BY <1>4, <3>1, <3>2
  <2>3. CASE ~Busy(r, k) /\ Go(r, w) /\ UNCHANGED <<askVars>>
    <3>1. UNCHANGED <<on, about, draft, spared>>
      BY <2>3 DEF askVars
    <3>2. Goes(w)
      BY <1>1, <2>1, <2>3, <3>1, MoveFact DEF Steps
    <3>3. ASSUME NEW j \in spared[r]
          PROVE  /\ phase[j] \notin Unborn /\ home[j] = on[r] /\ j \in Jobs
                 /\ kind[j] = k => dir[j] # "tmp"
                 /\ k = "exports" /\ kind[j] = "analyses" => dir[j] # "tmp" \/ j \in lost
                 /\ kind[j] \in {"analyses", "exports"}
      <4>1. j \in Jobs /\ phase[j] \notin Unborn /\ home[j] = on[r]
        BY <1>1, <2>1, <3>3 DEF DeleteInv, DeleteAt, AskType
      <4>2. k = "exports" /\ kind[j] = "analyses" => dir[j] # "tmp" \/ j \in lost
        BY <1>1, <2>1, <3>3 DEF DeleteInv, DeleteAt
      <4>3. kind[j] = k => dir[j] # "tmp"
        BY <2>3, <4>1 DEF Busy, Of
      <4>4. kind[j] \in {"analyses", "exports"}
        BY <1>1, <4>1 DEF TypeInv
      <4> QED
        BY <4>1, <4>2, <4>3, <4>4
    <3>4. DeleteAt(r)'
      BY <1>3, <1>6, <3>1, <3>2, <3>3 DEF DeleteAt
    <3> QED
      BY <1>4, <3>2, <3>4
  <2> QED
    BY <1>6, <2>2, <2>3 DEF ListKind
<1>7. CASE ListAnalyses(r)
  BY <1>6, <1>7 DEF ListAnalyses, Deleting
<1>8. CASE ListExports(r)
  BY <1>6, <1>8 DEF ListExports, Deleting
<1> QED
  BY <1>5, <1>7, <1>8

LEMMA LookStep ==
  ASSUME IInv, NEW r \in Clients, LookLive(r) \/ LookStore(r) \/ AnswerMissing(r)
  PROVE  IInv'
<1>1. TypeInv /\ HeldInv /\ JobInv /\ LookInv /\ AskType
      /\ saved \in Settings /\ settings \in Settings /\ crossed \in BOOLEAN
  BY DEF IInv, TypeInv
<1>2. /\ UNCHANGED <<disk, phase, line, home, kind, created, gone, lost>>
      /\ UNCHANGED <<saved, settings, crossed>>
  BY DEF LookLive, LookStore, AnswerMissing, jobVars, settingsVars, pastVars
<1>3. UNCHANGED <<dir, lost>>
  BY <1>2 DEF disk
<1> DEFINE Goes(w) ==
      /\ AskType' /\ (\A c \in Clients : c # r => Stays(c)) /\ at'[r] = w
      /\ at[r] # "saved" /\ (w # "idle" => about'[r] \in Jobs)
<1>4. ASSUME NEW w \in {"idle"} \cup Looking, Goes(w), LookAt(r)' PROVE IInv'
  <2>1. /\ at'[r] \notin Creating \cup Deleting \cup Saving \cup {"retargeting"}
        /\ at'[r] # "saved" /\ (at'[r] \in Looking => about'[r] \in Jobs)
    BY <1>4 DEF Creating, Deleting, Looking, Saving
  <2>2. DeleteAt(r)'
    BY <2>1 DEF DeleteAt
  <2>3. /\ TypeInv' /\ HeldInv' /\ JobInv' /\ CreateInv'
        /\ LookInv' /\ DeleteInv' /\ SettingsInv'
    BY <1>1, <1>2, <1>4, <2>1, <2>2, QuietFrame
  <2> QED
    BY <2>3 DEF IInv
<1>5. CASE LookLive(r)
  <2>1. /\ at[r] = "idle" /\ Go(r, "looking") /\ UNCHANGED <<on, draft, spared>>
        /\ \E j \in Jobs : /\ phase[j] \notin {"new", "read", "reserved"} /\ j \notin Tracked
                           /\ about' = [about EXCEPT ![r] = j]
    BY <1>5 DEF LookLive, Asks
  <2>2. PICK j \in Jobs : /\ phase[j] \notin {"new", "read", "reserved"} /\ j \notin Tracked
                         /\ about' = [about EXCEPT ![r] = j]
    BY <2>1
  <2>3. dir[j] = "final" \/ j \in lost
    BY <1>1, <2>2 DEF TypeInv, JobInv, Phases, Unborn, Writing, Settled, Known
  <2>4. /\ AskType' /\ (\A c \in Clients : c # r => Stays(c)) /\ at'[r] = "looking"
        /\ about'[r] = j
    BY <1>1, <2>1, <2>2 DEF AskType, Go, Stays, Steps, Looking
  <2>5. LookAt(r)'
    BY <1>3, <2>3, <2>4 DEF LookAt
  <2> QED
    BY <1>4, <2>1, <2>4, <2>5 DEF Looking
<1>6. CASE Answer(r) /\ at[r] # "saved"
  <2>1. Goes("idle")
    BY <1>1, <1>6, AnswerFact
  <2>2. LookAt(r)'
    BY <2>1 DEF LookAt
  <2> QED
    BY <1>4, <2>1, <2>2
<1>7. CASE LookStore(r) /\ dir[about[r]] # "final"
  <2>1. at[r] = "looking" /\ Go(r, "missing") /\ UNCHANGED <<on, about, draft, spared>>
    BY <1>7 DEF LookStore, askVars
  <2>2. about[r] \in Jobs /\ about[r] \in lost
    BY <1>1, <1>7, <2>1 DEF HeldInv, LookInv, LookAt, Looking
  <2>3. Goes("missing")
    BY <1>1, <2>1, <2>2, MoveFact DEF Steps, Looking
  <2>4. LookAt(r)'
    BY <1>3, <2>1, <2>2, <2>3 DEF LookAt
  <2> QED
    BY <1>4, <2>3, <2>4 DEF Looking
<1>8. CASE LookStore(r) /\ dir[about[r]] = "final"
  BY <1>6, <1>8 DEF LookStore
<1>9. CASE AnswerMissing(r)
  BY <1>6, <1>9 DEF AnswerMissing
<1> QED
  BY <1>5, <1>7, <1>8, <1>9

LEMMA SettingsStep ==
  ASSUME IInv, NEW r \in Clients, SaveFile(r) \/ SaveMemory(r)
  PROVE  IInv'
<1>1. TypeInv /\ HeldInv /\ SettingsInv /\ AskType
      /\ saved \in Settings /\ settings \in Settings /\ crossed \in BOOLEAN
  BY DEF IInv, TypeInv
<1>2. UNCHANGED <<disk, phase, line, home, kind, created, gone, lost>>
  BY DEF SaveFile, SaveMemory, jobVars, pastVars
<1>3. at[r] \in Saving /\ draft[r] \in Settings
  BY <1>1 DEF SaveFile, SaveMemory, Saving, HeldInv
<1> DEFINE Goes(w) ==
      /\ AskType' /\ (\A c \in Clients : c # r => Stays(c)) /\ at'[r] = w
      /\ w = "saved" => draft'[r] \in Settings
      /\ saved' \in Settings /\ settings' \in Settings /\ crossed' \in BOOLEAN
<1>4. ASSUME NEW w \in {"idle", "saved"}, Goes(w), SettingsInv' PROVE IInv'
  <2>1. /\ at'[r] \notin Creating \cup Deleting \cup Looking \cup {"retargeting"}
        /\ at'[r] \in Saving => draft'[r] \in Settings
    BY <1>4 DEF Creating, Deleting, Looking, Saving
  <2>2. LookAt(r)' /\ DeleteAt(r)'
    BY <2>1 DEF LookAt, DeleteAt, Looking
  <2>3. TypeInv' /\ HeldInv' /\ JobInv' /\ CreateInv' /\ LookInv' /\ DeleteInv'
    BY <1>1, <1>2, <1>4, <2>1, <2>2, QuietFrame
  <2> QED
    BY <1>4, <2>3 DEF IInv
<1>5. CASE SaveFile(r)
  <2>1. /\ at[r] = "saving" /\ settings' = settings
        /\ crossed' = (crossed \/ \E c \in Clients : at[c] = "saved")
        /\ \/ saved' = draft[r] /\ Go(r, "saved") /\ UNCHANGED <<on, about, draft, spared>>
           \/ saved' = saved /\ Answer(r)
    BY <1>5 DEF SaveFile, askVars
  <2>2. crossed' \in BOOLEAN /\ (~crossed' => ~crossed /\ \A c \in Clients : at[c] # "saved")
    BY <2>1
  <2>3. CASE saved' = draft[r] /\ Go(r, "saved") /\ UNCHANGED <<on, about, draft, spared>>
    <3>1. Goes("saved")
      BY <1>1, <1>3, <2>1, <2>2, <2>3, MoveFact DEF Steps, Saving
    <3>2. SettingsInv'
      BY <2>2, <2>3, <3>1 DEF SettingsInv, Stays
    <3> QED
      BY <1>4, <3>1, <3>2
  <2>4. CASE saved' = saved /\ Answer(r)
    <3>1. Goes("idle")
      BY <1>1, <2>1, <2>2, <2>4, AnswerFact
    <3>2. SettingsInv'
      BY <1>1, <2>1, <2>2, <2>4, <3>1 DEF SettingsInv, Stays
    <3> QED
      BY <1>4, <3>1, <3>2
  <2> QED
    BY <2>1, <2>3, <2>4
<1>6. CASE SaveMemory(r)
  <2>1. at[r] = "saved" /\ Answer(r) /\ settings' = draft[r] /\ UNCHANGED <<saved, crossed>>
    BY <1>6 DEF SaveMemory, pastVars
  <2>2. Goes("idle")
    BY <1>1, <1>3, <2>1, AnswerFact
  <2>3. SettingsInv'
    BY <1>1, <2>1, <2>2 DEF SettingsInv, Stays
  <2> QED
    BY <1>4, <2>2, <2>3
<1> QED
  BY <1>5, <1>6

\* The requests that write a project or remove it.
LEMMA ProjectStep ==
  ASSUME IInv, NEW r \in Clients,
         \/ Reserve(r) \/ WriteRecord(r) \/ WriteManifest(r) \/ CreateFails(r)
         \/ ReadRecord(r) \/ WriteTarget(r) \/ RemoveProject(r)
  PROVE  IInv'
<1>1. /\ TypeInv /\ HeldInv /\ JobInv /\ CreateInv /\ AskType
      /\ saved \in Settings /\ settings \in Settings /\ crossed \in BOOLEAN
      /\ made \subseteq Ids /\ gone \subseteq Ids /\ lost \subseteq Jobs
      /\ record \in [Ids -> Records \cup {NoRecord}]
      /\ manifest \in [Ids -> Clients \cup {NoClient}]
      /\ created \in [Ids -> Clients \cup {NoClient}]
      /\ dir \in [Jobs -> {"absent", "tmp", "final"}]
      /\ at \in [Clients -> Steps] /\ on \in [Clients -> Ids \cup {NoId}]
      /\ draft \in [Clients -> Records \cup Settings \cup {NoRecord}]
  BY DEF IInv, TypeInv, AskType
<1>2. UNCHANGED <<phase, line, home, kind, saved, settings, crossed>>
  BY DEF Reserve, WriteRecord, WriteManifest, CreateFails, ReadRecord, WriteTarget, RemoveProject,
         jobVars, settingsVars, pastVars
<1>3. NoRecord \notin Records
  BY RecordAssumption DEF Records
<1>4. at[r] \in Creating \cup Deleting \cup {"retargeting"} => on[r] \in Ids
  BY <1>1 DEF HeldInv
<1> DEFINE Asked(w) ==
      /\ AskType' /\ (\A c \in Clients : c # r => Stays(c)) /\ at'[r] = w
      /\ at[r] # "saved" /\ (w # "idle" => on'[r] \in Ids)
      /\ w = "retargeting" => draft'[r] \in Records
    Stored ==
      /\ made' \subseteq Ids /\ gone' \subseteq Ids /\ lost' \subseteq Jobs
      /\ record' \in [Ids -> Records \cup {NoRecord}]
      /\ manifest' \in [Ids -> Clients \cup {NoClient}]
      /\ created' \in [Ids -> Clients \cup {NoClient}]
      /\ dir' \in [Jobs -> {"absent", "tmp", "final"}]
      /\ lost \subseteq lost'
      /\ \A j \in Jobs : dir'[j] = dir[j] \/ (dir'[j] = "absent" /\ j \in lost')
<1>5. ASSUME NEW w \in {"idle", "retargeting"} \cup Creating, Asked(w), Stored, CreateInv' PROVE IInv'
  <2>1. /\ at'[r] \notin Deleting \cup Looking \cup Saving /\ at'[r] # "saved"
        /\ at'[r] \in Creating \cup Deleting \cup {"retargeting"} => on'[r] \in Ids
    BY <1>5 DEF Creating, Deleting, Looking, Saving
  <2>2. LookAt(r)' /\ DeleteAt(r)'
    BY <2>1 DEF LookAt, DeleteAt, Looking
  <2>3. Removes
    BY <1>2, <1>5 DEF Removes
  <2>4. TypeInv' /\ HeldInv' /\ JobInv' /\ LookInv' /\ DeleteInv' /\ SettingsInv'
    BY <1>1, <1>2, <1>5, <2>1, <2>2, <2>3, RequestFrame
  <2> QED
    BY <1>5, <2>4 DEF IInv
\* A tree removed takes its project out of what CreateInv is about.
<1>6. ASSUME Answer(r), at[r] \in Creating \cup Deleting, RemoveTree(on[r]) \/ RemoveSome(on[r]),
             created' = created
      PROVE  IInv'
  <2>1. Asked("idle") /\ at[r] # "saved"
    BY <1>1, <1>6, AnswerFact DEF Creating, Deleting
  <2>2. on[r] \in Ids /\ gone' = gone \cup {on[r]} /\ made' \in {made, made \ {on[r]}}
    BY <1>4, <1>6 DEF RemoveTree, RemoveSome
  <2>3. Stored
    <3>1. CASE RemoveTree(on[r])
      BY <1>1, <1>6, <2>2, <3>1 DEF RemoveTree, Of
    <3>2. CASE RemoveSome(on[r])
      BY <1>1, <1>6, <2>2, <3>2 DEF RemoveSome, Of
    <3> QED
      BY <1>6, <3>1, <3>2
  <2>4. \A p \in Ids : p # on[r] =>
          /\ record'[p] = record[p] /\ manifest'[p] = manifest[p]
          /\ p \in made => p \in made'
    BY <1>1, <1>6 DEF RemoveTree, RemoveSome
  <2>5. \A p : p \notin gone' => p \notin gone /\ p # on[r]
    BY <2>2
  <2>6. \A c \in Clients : at'[c] \in Creating \cup {"retargeting"} =>
          at'[c] = at[c] /\ on'[c] = on[c] /\ draft'[c] = draft[c] /\ on[c] \in Ids
    BY <1>1, <2>1 DEF Stays, HeldInv, Creating
  <2>7. \A p \in Ids : p \notin made' \cup gone' => record'[p] = NoRecord
    BY <1>1, <2>2, <2>4, <2>5 DEF CreateInv
  <2>8. ASSUME NEW c \in Clients, at'[c] \in Creating, on'[c] \notin gone'
        PROVE  /\ on'[c] \in made' /\ created'[on'[c]] = NoClient
               /\ at'[c] = "reserved" => record'[on'[c]] = NoRecord
               /\ at'[c] = "recorded" => record'[on'[c]] \in Records /\ record'[on'[c]].owner = c
    BY <1>1, <1>6, <2>2, <2>4, <2>5, <2>6, <2>8 DEF CreateInv
  <2>9. ASSUME NEW b \in Clients, NEW c \in Clients, at'[b] \in Creating, at'[c] \in Creating,
               on'[b] = on'[c], on'[b] \notin gone'
        PROVE  b = c
    BY <1>1, <2>5, <2>6, <2>9 DEF CreateInv
  <2>10. ASSUME NEW c \in Clients, at'[c] = "retargeting", on'[c] \notin gone'
         PROVE  record'[on'[c]] \in Records /\ draft'[c].owner = record'[on'[c]].owner
    BY <1>1, <2>4, <2>5, <2>6, <2>10 DEF CreateInv
  <2>11. ASSUME NEW p \in Ids, created'[p] # NoClient, p \notin gone'
         PROVE  /\ p \in made' /\ manifest'[p] = created'[p]
                /\ record'[p] \in Records /\ record'[p].owner = created'[p]
    BY <1>1, <1>6, <2>2, <2>4, <2>5, <2>11 DEF CreateInv
  <2>12. CreateInv'
    BY <2>7, <2>8, <2>9, <2>10, <2>11 DEF CreateInv
  <2> QED
    BY <1>5, <2>1, <2>3, <2>12
<1>7. CASE CreateFails(r)
  BY <1>6, <1>7 DEF CreateFails, Creating
<1>8. CASE RemoveProject(r)
  BY <1>6, <1>8 DEF RemoveProject, Deleting
\* What CreateInv says, part by part.
<1> DEFINE Part1 == \A p \in Ids : p \notin made' \cup gone' => record'[p] = NoRecord
    Part2 == \A c \in Clients : at'[c] \in Creating /\ on'[c] \notin gone' =>
               /\ on'[c] \in made' /\ created'[on'[c]] = NoClient
               /\ at'[c] = "reserved" => record'[on'[c]] = NoRecord
               /\ at'[c] = "recorded" => record'[on'[c]] \in Records /\ record'[on'[c]].owner = c
    Part3 == \A b, c \in Clients :
               at'[b] \in Creating /\ at'[c] \in Creating /\ on'[b] = on'[c] /\ on'[b] \notin gone' => b = c
    Part4 == \A c \in Clients : at'[c] = "retargeting" /\ on'[c] \notin gone' =>
               record'[on'[c]] \in Records /\ draft'[c].owner = record'[on'[c]].owner
    Part5 == \A p \in Ids : created'[p] # NoClient /\ p \notin gone' =>
               /\ p \in made' /\ manifest'[p] = created'[p]
               /\ record'[p] \in Records /\ record'[p].owner = created'[p]
<1>9. ASSUME Part1, Part2, Part3, Part4, Part5 PROVE CreateInv'
  BY <1>9 DEF CreateInv
<1>10. CASE Reserve(r)
  <2>1. /\ at[r] = "idle" /\ Go(r, "reserved") /\ UNCHANGED <<about, draft, spared>>
        /\ UNCHANGED <<record, manifest, dir, created, gone, lost>>
        /\ \E p \in Ids \ (made \cup gone) : made' = made \cup {p} /\ on' = [on EXCEPT ![r] = p]
    BY <1>10 DEF Reserve, Asks, pastVars
  <2>2. PICK p \in Ids \ (made \cup gone) : made' = made \cup {p} /\ on' = [on EXCEPT ![r] = p]
    BY <2>1
  <2>3. Asked("reserved") /\ on'[r] = p
    BY <1>1, <2>1, <2>2 DEF AskType, Go, Stays, Steps, Creating
  <2>4. Stored
    BY <1>1, <2>1, <2>2
  <2>5. /\ record[p] = NoRecord /\ created[p] = NoClient
        /\ \A c \in Clients : at[c] \in Creating \cup {"retargeting"} => on[c] # p
    BY <1>1, <1>3, <2>2 DEF CreateInv
  <2>6. \A c \in Clients : c # r => at'[c] = at[c] /\ on'[c] = on[c] /\ draft'[c] = draft[c]
    BY <2>3 DEF Stays
  <2>7. Part1
    BY <1>1, <2>1, <2>2 DEF CreateInv
  <2>8. Part2
    BY <1>1, <2>1, <2>2, <2>3, <2>5, <2>6 DEF CreateInv
  <2>9. Part3
    BY <1>1, <2>1, <2>3, <2>5, <2>6 DEF CreateInv
  <2>10. Part4
    BY <1>1, <2>1, <2>3, <2>6 DEF CreateInv
  <2>11. Part5
    BY <1>1, <2>1, <2>2 DEF CreateInv
  <2> QED
    BY <1>5, <1>9, <2>3, <2>4, <2>7, <2>8, <2>9, <2>10, <2>11 DEF Creating
<1>11. CASE WriteRecord(r)
  <2>1. /\ at[r] = "reserved" /\ Go(r, "recorded") /\ UNCHANGED <<on, about, draft, spared>>
        /\ UNCHANGED <<manifest, dir, created, gone, lost>>
        /\ made' = made \cup {on[r]}
        /\ record' = [record EXCEPT ![on[r]] = [owner |-> r, target |-> settings.target]]
    BY <1>11 DEF WriteRecord, askVars, pastVars
  <2>2. on[r] \in Ids /\ [owner |-> r, target |-> settings.target] \in Records
    BY <1>1, <1>4, <2>1 DEF Records, Settings, Creating
  <2>3. Asked("recorded") /\ at[r] \in Creating
    BY <1>1, <2>1, <2>2, MoveFact DEF Steps, Creating
  <2>4. Stored
    BY <1>1, <2>1, <2>2
  <2>5. on[r] \notin gone =>
          /\ on[r] \in made /\ record[on[r]] = NoRecord /\ created[on[r]] = NoClient
          /\ \A c \in Clients : at[c] = "retargeting" => on[c] # on[r]
    BY <1>1, <1>3, <2>1, <2>3 DEF CreateInv
  <2>6. \A c \in Clients : c # r => at'[c] = at[c] /\ on'[c] = on[c] /\ draft'[c] = draft[c]
    BY <2>3 DEF Stays
  <2>7. /\ record'[on[r]] \in Records /\ record'[on[r]].owner = r
        /\ \A p \in Ids : p # on[r] => record'[p] = record[p]
    BY <1>1, <2>1, <2>2
  <2>8. Part1
    BY <1>1, <2>1, <2>7 DEF CreateInv
  <2>9. \A c \in Clients : c # r /\ at[c] \in Creating /\ on[c] \notin gone => on[c] # on[r] /\ on[c] \in Ids
    BY <1>1, <2>3 DEF CreateInv, HeldInv
  <2>10. Part2
    BY <1>1, <2>1, <2>3, <2>5, <2>6, <2>7, <2>9 DEF CreateInv
  <2>11. Part3
    BY <1>1, <2>1, <2>3, <2>6 DEF CreateInv
  <2>12. Part4
    BY <1>1, <2>1, <2>3, <2>5, <2>6, <2>7 DEF CreateInv, HeldInv
  <2>13. Part5
    BY <1>1, <2>1, <2>5, <2>7 DEF CreateInv
  <2> QED
    BY <1>5, <1>9, <2>3, <2>4, <2>8, <2>10, <2>11, <2>12, <2>13 DEF Creating
<1>12. CASE WriteManifest(r)
  <2>1. /\ at[r] = "recorded" /\ Answer(r) /\ UNCHANGED <<record, dir, gone, lost>>
        /\ made' = made \cup {on[r]}
        /\ manifest' = [manifest EXCEPT ![on[r]] = r]
        /\ created' = [created EXCEPT ![on[r]] = r]
    BY <1>12 DEF WriteManifest
  <2>2. on[r] \in Ids /\ at[r] \in Creating
    BY <1>4, <2>1 DEF Creating
  <2>3. Asked("idle")
    BY <1>1, <2>1, AnswerFact
  <2>4. Stored
    BY <1>1, <2>1, <2>2
  <2>5. \A c \in Clients : at'[c] \in Creating \cup {"retargeting"} =>
          c # r /\ at'[c] = at[c] /\ on'[c] = on[c] /\ draft'[c] = draft[c] /\ on[c] \in Ids
    BY <1>1, <2>3 DEF Stays, HeldInv, Creating
  <2>6. Part1
    BY <1>1, <2>1 DEF CreateInv
  <2>7. \A c \in Clients : at'[c] \in Creating /\ on[c] \notin gone => on[c] # on[r]
    BY <1>1, <2>2, <2>5 DEF CreateInv
  <2>8. Part2
    BY <1>1, <2>1, <2>2, <2>5, <2>7 DEF CreateInv
  <2>9. Part3
    BY <1>1, <2>1, <2>5 DEF CreateInv
  <2>10. Part4
    BY <1>1, <2>1, <2>5 DEF CreateInv
  <2>11. on[r] \notin gone => record[on[r]] \in Records /\ record[on[r]].owner = r
    BY <1>1, <2>1, <2>2 DEF CreateInv
  <2>12. Part5
    BY <1>1, <2>1, <2>2, <2>11 DEF CreateInv
  <2> QED
    BY <1>5, <1>9, <2>1, <2>3, <2>4, <2>6, <2>8, <2>9, <2>10, <2>12
<1>13. CASE ReadRecord(r)
  <2>1. /\ at[r] = "idle" /\ Go(r, "retargeting") /\ UNCHANGED <<about, spared>>
        /\ UNCHANGED <<made, record, manifest, dir, created, gone, lost>>
        /\ \E p \in Ids, t \in Targets :
             /\ record[p] # NoRecord
             /\ on' = [on EXCEPT ![r] = p]
             /\ draft' = [draft EXCEPT ![r] = [record[p] EXCEPT !.target = t]]
    BY <1>13 DEF ReadRecord, Asks, disk, pastVars
  <2>2. PICK p \in Ids, t \in Targets :
             /\ record[p] # NoRecord
             /\ on' = [on EXCEPT ![r] = p]
             /\ draft' = [draft EXCEPT ![r] = [record[p] EXCEPT !.target = t]]
    BY <2>1
  <2>3. record[p] \in Records
    BY <1>1, <2>2
  <2> DEFINE d == [record[p] EXCEPT !.target = t]
  <2>4. d \in Records /\ d.owner = record[p].owner
    BY <2>3 DEF Records
  <2>5. draft' = [draft EXCEPT ![r] = d]
    BY <2>2
  <2> HIDE DEF d
  <2>6. Asked("retargeting") /\ on'[r] = p /\ draft'[r] = d
    BY <1>1, <2>1, <2>2, <2>4, <2>5 DEF AskType, Go, Stays, Steps
  <2>7. Stored
    BY <1>1, <2>1
  <2>8. \A c \in Clients : c # r => at'[c] = at[c] /\ on'[c] = on[c] /\ draft'[c] = draft[c]
    BY <2>6 DEF Stays
  <2>9. Part1 /\ Part5
    BY <1>1, <2>1 DEF CreateInv
  <2>10. Part2 /\ Part3
    BY <1>1, <2>1, <2>6, <2>8 DEF CreateInv, Creating
  <2>11. Part4
    BY <1>1, <2>1, <2>3, <2>4, <2>6, <2>8 DEF CreateInv
  <2> QED
    BY <1>5, <1>9, <2>6, <2>7, <2>9, <2>10, <2>11
<1>14. CASE WriteTarget(r)
  <2>1. /\ at[r] = "retargeting" /\ Answer(r)
        /\ UNCHANGED <<manifest, dir, created, gone, lost>>
        /\ made' = made \cup {on[r]}
        /\ record' = [record EXCEPT ![on[r]] = draft[r]]
    BY <1>14 DEF WriteTarget, pastVars
  <2>2. on[r] \in Ids /\ draft[r] \in Records
    BY <1>1, <1>4, <2>1 DEF HeldInv
  <2>3. Asked("idle")
    BY <1>1, <2>1, AnswerFact
  <2>4. Stored
    BY <1>1, <2>1, <2>2
  <2>5. on[r] \notin gone => record[on[r]] \in Records /\ draft[r].owner = record[on[r]].owner
    BY <1>1, <2>1 DEF CreateInv
  <2>6. \A p \in Ids : p \notin gone =>
          /\ record'[p] \in Records <=> record[p] \in Records
          /\ record'[p] \in Records => record'[p].owner = record[p].owner
          /\ record'[p] = NoRecord <=> record[p] = NoRecord
    BY <1>1, <1>3, <2>1, <2>2, <2>5
  <2>7. \A c \in Clients : at'[c] \in Creating \cup {"retargeting"} =>
          at'[c] = at[c] /\ on'[c] = on[c] /\ draft'[c] = draft[c] /\ on[c] \in Ids
    BY <1>1, <2>3 DEF Stays, HeldInv, Creating
  <2>8. Part1
    BY <1>1, <2>1, <2>6 DEF CreateInv
  <2>9. Part2
    BY <1>1, <2>1, <2>6, <2>7 DEF CreateInv
  <2>10. Part3
    BY <1>1, <2>1, <2>7 DEF CreateInv
  <2>11. Part4
    BY <1>1, <2>1, <2>6, <2>7 DEF CreateInv
  <2>12. Part5
    BY <1>1, <2>1, <2>6 DEF CreateInv
  <2> QED
    BY <1>5, <1>9, <2>1, <2>3, <2>4, <2>8, <2>9, <2>10, <2>11, <2>12
<1> QED
  BY <1>7, <1>8, <1>10, <1>11, <1>12, <1>13, <1>14

-----------------------------------------------------------------------------
(* The invariant                                                            *)

\* No request outlives a restart, and every job that was under way is over.
LEMMA RestartStep ==
  ASSUME IInv, Restart
  PROVE  IInv'
<1>1. TypeInv /\ JobInv /\ CreateInv
  BY DEF IInv
<1>2. /\ settings' = saved /\ crossed' = FALSE
      /\ dir' = [j \in Jobs |-> IF dir[j] = "tmp" THEN "absent" ELSE dir[j]]
      /\ lost' = lost \cup {j \in Jobs : phase[j] # "new" /\ dir[j] # "final"}
      /\ phase' = [j \in Jobs |-> IF phase[j] = "new" THEN "new" ELSE "over"]
      /\ line' = <<>>
      /\ at' = [r \in Clients |-> "idle"] /\ on' = [r \in Clients |-> NoId]
      /\ about' = [r \in Clients |-> NoJob] /\ draft' = [r \in Clients |-> NoRecord]
      /\ spared' = [r \in Clients |-> {}]
      /\ UNCHANGED <<made, record, manifest, saved, home, kind, created, gone>>
  BY DEF Restart
<1>3. TypeInv'
  <2>1. AskType'
    BY <1>2 DEF AskType, Steps
  <2>2. line' \in Seq(Jobs) /\ lost' \subseteq Jobs
    BY <1>1, <1>2 DEF TypeInv
  <2>3. /\ dir' \in [Jobs -> {"absent", "tmp", "final"}] /\ phase' \in [Jobs -> Phases]
        /\ \A j \in Jobs : phase'[j] # "new" => home'[j] \in Ids
    BY <1>1, <1>2 DEF TypeInv, Phases, Unborn, Settled
  <2> QED
    BY <1>1, <1>2, <2>1, <2>2, <2>3 DEF TypeInv
<1>4. JobInv'
  <2>1. ASSUME NEW j \in Jobs
        PROVE  /\ phase'[j] \in Unborn => dir'[j] = "absent"
               /\ phase'[j] \in Settled => dir'[j] = "final" \/ j \in lost'
               /\ phase'[j] \in {"new", "over"}
    BY <1>1, <1>2 DEF JobInv, Unborn, Settled
  <2> QED
    BY <2>1 DEF JobInv, Writing, Known
<1>5. \A r \in Clients : at'[r] = "idle"
  BY <1>2
<1>6. HeldInv' /\ LookInv' /\ DeleteInv'
  BY <1>5 DEF HeldInv, LookInv, LookAt, DeleteInv, DeleteAt, Creating, Deleting, Saving, Looking
<1>7. SettingsInv'
  BY <1>2, <1>5 DEF SettingsInv
<1>8. CreateInv'
  BY <1>1, <1>2, <1>5 DEF CreateInv, Creating
<1> QED
  BY <1>3, <1>4, <1>6, <1>7, <1>8 DEF IInv

LEMMA IInvInit == Init => IInv
<1> SUFFICES ASSUME Init PROVE IInv
  OBVIOUS
<1>1. saved \in Settings /\ settings = saved
  BY DefaultAssumption DEF Init, Settings
<1>2. TypeInv
  <2>1. AskType
    BY DEF Init, AskType, Steps
  <2>2. line \in Seq(Jobs) /\ phase \in [Jobs -> Phases] /\ \A j \in Jobs : phase[j] = "new"
    BY DEF Init, Phases, Unborn
  <2>3. kind \in [Jobs -> {"analyses", "exports"}] /\ dir \in [Jobs -> {"absent", "tmp", "final"}]
    BY DEF Init
  <2>4. /\ home \in [Jobs -> Ids \cup {NoId}] /\ record \in [Ids -> Records \cup {NoRecord}]
        /\ manifest \in [Ids -> Clients \cup {NoClient}] /\ created \in [Ids -> Clients \cup {NoClient}]
        /\ made \subseteq Ids /\ gone \subseteq Ids /\ lost \subseteq Jobs /\ crossed \in BOOLEAN
    BY DEF Init
  <2> QED
    BY <1>1, <2>1, <2>2, <2>3, <2>4 DEF TypeInv
<1>3. \A r \in Clients : at[r] = "idle"
  BY DEF Init
<1>4. HeldInv /\ LookInv /\ DeleteInv
  BY <1>3 DEF HeldInv, LookInv, LookAt, DeleteInv, DeleteAt, Creating, Deleting, Saving, Looking
<1>5. SettingsInv
  BY <1>1, <1>3 DEF SettingsInv
<1>6. CreateInv
  BY <1>3 DEF Init, CreateInv, Creating
<1>7. JobInv
  BY DEF Init, JobInv, Unborn, Writing, Settled, Known
<1> QED
  BY <1>2, <1>4, <1>5, <1>6, <1>7 DEF IInv

LEMMA IInvStep == IInv /\ [Next]_vars => IInv'
<1> SUFFICES ASSUME IInv, [Next]_vars PROVE IInv'
  OBVIOUS
<1>1. ASSUME NEW r \in Clients, Request(r) PROVE IInv'
  BY <1>1, ProjectStep, DeleteStep, SettingsStep, LookStep, PageStep DEF Request
<1>2. ASSUME NEW j \in Jobs, Job(j) PROVE IInv'
  BY <1>2, JobStep
<1>3. CASE UNCHANGED vars
  <2>1. /\ UNCHANGED <<made, record, manifest, dir, saved, settings, home, kind, phase, line>>
        /\ UNCHANGED <<at, on, about, draft, spared, created, gone, lost, crossed>>
    BY <1>3 DEF vars, disk, settingsVars, jobVars, requestVars, askVars, pastVars
  <2>2. TypeInv' /\ HeldInv'
    BY <2>1 DEF IInv, TypeInv, AskType, HeldInv
  <2>3. JobInv' /\ LookInv' /\ DeleteInv'
    BY <2>1 DEF IInv, JobInv, Tracked, LookInv, LookAt, DeleteInv, DeleteAt
  <2>4. SettingsInv' /\ CreateInv'
    BY <2>1 DEF IInv, SettingsInv, CreateInv
  <2> QED
    BY <2>2, <2>3, <2>4 DEF IInv
<1> QED
  BY <1>1, <1>2, <1>3, RestartStep DEF Next

LEMMA Invariance == Spec => []IInv
BY IInvInit, IInvStep, PTL DEF Spec

-----------------------------------------------------------------------------
(* Theorems                                                                 *)

\* For any number of requests, jobs, failures and restarts: a project whose
\* creation was answered keeps the manifest uploaded for it, next to a record of
\* that same manifest, until it is deleted (CreateProject, SetProjectTarget).
THEOREM ManifestKept == Spec => []OwnManifest
<1>1. IInv => OwnManifest
  <2> SUFFICES ASSUME IInv, NEW p \in Ids, created[p] # NoClient, p \notin gone
               PROVE  /\ manifest[p] = created[p]
                      /\ record[p] # NoRecord /\ record[p].owner = created[p]
    BY DEF OwnManifest
  <2>1. manifest[p] = created[p] /\ record[p] \in Records /\ record[p].owner = created[p]
    BY DEF IInv, CreateInv
  <2> QED
    BY <2>1, RecordAssumption DEF Records
<1> QED
  BY <1>1, Invariance, PTL

\* DeleteProject never gets to RemoveAll under a job that held its .tmp
\* directory when the deletion began and still does.
THEOREM WritersSpared == Spec => []DeletionSparesWriters
<1>1. IInv => DeletionSparesWriters
  BY DEF IInv, DeleteInv, DeleteAt, Deleting, DeletionSparesWriters
<1> QED
  BY <1>1, Invariance, PTL

\* GetAnalysis and GetExport, which ask the index before the store, say of a
\* job that was queued that there is none only when it left no directory or a
\* user deleted it.
THEOREM JobsFound == Spec => []JobsAreFound
<1>1. IInv => JobsAreFound
  BY DEF IInv, LookInv, LookAt, JobsAreFound
<1> QED
  BY <1>1, Invariance, PTL

\* Outside an update, the settings in memory are those of settings.json, as
\* long as no two updates overlapped (SaveSettings).
THEOREM SettingsKept == Spec => []SettingsSurvive
<1>1. IInv => SettingsSurvive
  BY DEF IInv, SettingsInv, SettingsSurvive
<1> QED
  BY <1>1, Invariance, PTL
=============================================================================
