--------------------------- MODULE ImportLifecycle ---------------------------
(***************************************************************************)
(* What the import store and queue (internal/store/imports) promise the    *)
(* users, with no file, lock, worker or restart in sight: an import is     *)
(* tried again only when its last attempt is over, attempts run one at a   *)
(* time and each at most once, what one that is over says is true and      *)
(* stays, and one that did not run to its end says so.  ImportQueue        *)
(* implements it.                                                          *)
(***************************************************************************)
EXTENDS Naturals, SequencesExt

CONSTANTS Imports, Packages

VARIABLES
  attempts,  \* attempts[i]: the attempts of import i, first to last
  trouble    \* the disk has failed once

vars == <<attempts, trouble>>

Open == {"queued", "running"}
Cut == {"incomplete", "interrupted"}
Claims == {"published", "present"}
Waiting ==
  [state |-> "queued", packages |-> [p \in Packages |-> "unlisted"], checked |-> FALSE, removal |-> "none"]

\* What an attempt may say once it is over.
Reports(states) ==
  [state : states, packages : [Packages -> Claims \cup {"unlisted", "failed"}],
   checked : BOOLEAN, removal : {"none"}]

\* It is complete if the archive was checked and every package is in Nexus, and
\* claims nothing of an archive that was refused.
True(r) ==
  /\ r.state = "complete" => r.checked /\ \A p \in Packages : r.packages[p] \in Claims
  /\ r.state = "refused" => ~r.checked /\ \A p \in Packages : r.packages[p] = "unlisted"

Over(i) == attempts[i] = <<>> \/ Last(attempts[i]).state \notin Open
Is(i, state) == ~Over(i) /\ Last(attempts[i]).state = state
Becomes(i, a) == attempts' = [attempts EXCEPT ![i][Len(attempts[i])] = a]

Init == attempts = [i \in Imports |-> <<>>] /\ trouble = FALSE

\* StartImport and RetryImport.
Try(i) == Over(i) /\ attempts' = [attempts EXCEPT ![i] = Append(@, Waiting)]

\* Where a failing disk left an attempt that seems to run, another may start.
Run(i) ==
  /\ Is(i, "queued")
  /\ trouble \/ \A k \in Imports : ~Is(k, "running")
  /\ Becomes(i, [Last(attempts[i]) EXCEPT !.state = "running"])

End(i) ==
  /\ Is(i, "running")
  /\ \E r \in Reports({"complete", "refused"} \cup Cut) : True(r) /\ Becomes(i, r)

\* A panic, a Close or a restart ends attempts, whether they ran or not.
CutShort(S) ==
  /\ \A i \in S : ~Over(i)
  /\ \E r \in [S -> Reports(Cut)] :
       attempts' = [i \in Imports |->
         IF i \in S THEN [attempts[i] EXCEPT ![Len(attempts[i])] = r[i]] ELSE attempts[i]]

\* What became of the archive is noted late, once, on the attempt that was
\* complete.
Note(i, m) ==
  /\ attempts[i][m].state = "complete" /\ attempts[i][m].removal = "none"
  /\ \E r \in {"kept", "removed"} : attempts' = [attempts EXCEPT ![i][m].removal = r]

Next ==
  /\ \/ \E i \in Imports : Try(i) \/ Run(i) \/ End(i) \/ \E m \in DOMAIN attempts[i] : Note(i, m)
     \/ \E S \in SUBSET Imports : CutShort(S)
     \/ UNCHANGED attempts
  /\ trouble' \in {trouble, TRUE}

Spec == Init /\ [][Next]_vars
=============================================================================
