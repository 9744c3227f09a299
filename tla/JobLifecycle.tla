---------------------------- MODULE JobLifecycle ----------------------------
(***************************************************************************)
(* What jobs.Queue promises the rest of the server, with no lock, worker   *)
(* or context in sight: jobs wait in line, the first in line runs when     *)
(* nothing else does, each one is settled at most once, and it is settled  *)
(* as cancelled only when somebody asked.  JobQueue implements it.         *)
(***************************************************************************)
EXTENDS Naturals, SequencesExt

CONSTANT Jobs

VARIABLES
  line,     \* the jobs that wait, first in first
  phase,    \* phase[j]: how far job j got
  asked,    \* the jobs somebody cancelled
  shut      \* no more jobs are taken

vars == <<line, phase, asked, shut>>

Settled == {"done", "failed", "cancelled"}

Init ==
  /\ line = <<>> /\ asked = {} /\ shut = FALSE
  /\ phase = [j \in Jobs |-> "new"]

Enqueue(j) ==
  /\ ~shut /\ phase[j] = "new"
  /\ line' = Append(line, j)
  /\ phase' = [phase EXCEPT ![j] = "queued"]
  /\ UNCHANGED <<asked, shut>>

Start ==
  /\ line # <<>> /\ \A j \in Jobs : phase[j] # "running"
  /\ line' = Tail(line)
  /\ phase' = [phase EXCEPT ![Head(line)] = "running"]
  /\ UNCHANGED <<asked, shut>>

Finish(j, s) ==
  /\ phase[j] = "running"
  /\ s = "cancelled" => j \in asked
  /\ phase' = [phase EXCEPT ![j] = s]
  /\ UNCHANGED <<line, asked, shut>>

\* Asking a job that has just been settled changes nothing else.
Ask(j) ==
  /\ phase[j] \in {"running"} \cup Settled
  /\ asked' = asked \cup {j}
  /\ UNCHANGED <<line, phase, shut>>

Withdraw(j) ==
  /\ \E i \in DOMAIN line : line[i] = j /\ line' = RemoveAt(line, i)
  /\ phase' = [phase EXCEPT ![j] = "withdrawn"]
  /\ asked' = asked \cup {j}
  /\ UNCHANGED shut

Settle(j) ==
  /\ phase[j] = "withdrawn"
  /\ phase' = [phase EXCEPT ![j] = "cancelled"]
  /\ UNCHANGED <<line, asked, shut>>

Shutdown ==
  /\ ~shut
  /\ shut' = TRUE
  /\ line' = <<>>
  /\ phase' = [j \in Jobs |-> IF phase[j] = "queued" THEN "abandoned" ELSE phase[j]]
  /\ UNCHANGED asked

Next ==
  \/ Start \/ Shutdown
  \/ \E j \in Jobs : \/ Enqueue(j) \/ Ask(j) \/ Withdraw(j) \/ Settle(j)
                     \/ \E s \in Settled : Finish(j, s)

Spec == Init /\ [][Next]_vars
=============================================================================
