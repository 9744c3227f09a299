---------------------------- MODULE EventStream ----------------------------
(***************************************************************************)
(* The event stream of the running job: the replay history and subscriber  *)
(* channels of jobs.Queue (internal/jobs/queue.go), read by the SSE        *)
(* handler (internal/api/events.go).  Composes with JobQueue, whose        *)
(* PublishEnd, DropEnd and Pick also touch the history.                    *)
(*                                                                         *)
(* A channel and its reader are one buffer here: the forwarding goroutine  *)
(* of Service.Subscribe and the pipe behind it only add room to it.        *)
(***************************************************************************)
EXTENDS JobQueue

CONSTANTS
  Clients,             \* connections to GET /api/jobs/current/events
  ReplayLimit, StepHeadroom, SubscriberHeadroom,
  MaxSteps, MaxOthers  \* bounds: events a job emits, by kind

\* stepHeadroom is generous: "the longest job (an analysis) reaches 9".
ASSUME StreamAssumption ==
  /\ ReplayLimit \in Nat /\ SubscriberHeadroom \in Nat \ {0}
  /\ MaxSteps \in Nat /\ StepHeadroom \in Nat /\ MaxSteps <= StepHeadroom

VARIABLES
  history,    \* q.history
  emitted,    \* how many "step" and "other" events the running job emitted
  sub,        \* a client is "away", "live", or "ended" after it got an end
  ch,         \* its subscriber's channel
  notified,   \* its subscriber's notified flag
  seen,       \* history: step events received on this connection
  lost        \* history: an event was dropped for this connection

clientVars == <<sub, ch, notified, seen, lost>>
eventVars == <<history, emitted, clientVars>>
streamVars == <<queueVars, eventVars>>

Capacity == ReplayLimit + StepHeadroom + SubscriberHeadroom

\* "log", "progress" and "candidate" events are all "other": trimmed alike.
Event(kind, j, n) == [kind |-> kind, job |-> j, n |-> n]

NoneEmitted == [step |-> 0, other |-> 0]

StreamInit ==
  /\ QueueInit
  /\ history = <<>> /\ emitted = NoneEmitted
  /\ sub = [c \in Clients |-> "away"] /\ ch = [c \in Clients |-> <<>>]
  /\ notified = [c \in Clients |-> FALSE] /\ seen = [c \in Clients |-> {}]
  /\ lost = [c \in Clients |-> FALSE]

-----------------------------------------------------------------------------
(* The history *)

\* The how manieth member of a set of indices i is.
Rank(i, indices) == Cardinality({k \in indices : k <= i})

\* The entries of h at the indices, in their order.
Kept(h, indices) ==
  [n \in 1..Cardinality(indices) |-> h[CHOOSE i \in indices : Rank(i, indices) = n]]

NonSteps(h) == {i \in DOMAIN h : h[i].kind # "step"}

\* Seeded faults: a plain last-ReplayLimit trim; no trim.
TrimAnyKind(h) == Kept(h, {i \in DOMAIN h : i > Len(h) - ReplayLimit})
TrimNothing(h) == h

\* Only the newest ReplayLimit events other than steps are kept.
Trim(h) ==
  LET drop == Cardinality(NonSteps(h)) - ReplayLimit
  IN Kept(h, {i \in DOMAIN h : h[i].kind = "step" \/ Rank(i, NonSteps(h)) > drop})

-----------------------------------------------------------------------------
(* Reading and delivering *)

\* What taking the event at the head of c's channel makes of the connection.
SeenAfter(c) ==
  IF Head(ch[c]).kind = "step" THEN seen[c] \cup {Head(ch[c])} ELSE seen[c]

\* Seeded fault: the stream goes on past an end.
SubAfterDeaf(c) == sub[c]

SubAfter(c) == IF Head(ch[c]).kind = "end" THEN "ended" ELSE sub[c]

\* deliverLocked for every subscriber: an event that finds a channel full is
\* dropped, and the notice about it needs room too, which only a reader that
\* takes an event between the two sends (one in "took") makes.
Deliver(e) ==
  \E took \in SUBSET {c \in Clients : sub[c] = "live" /\ ~notified[c]} :
    LET full == {c \in Clients : sub[c] # "away" /\ Len(ch[c]) >= Capacity}
        sent == {c \in Clients : sub[c] # "away"} \ full
    IN /\ took \subseteq full
       /\ ch' = [c \in Clients |->
                   IF c \in sent THEN Append(ch[c], e)
                   ELSE IF c \in took THEN Append(Tail(ch[c]), Event("notice", e.job, 0))
                   ELSE ch[c]]
       /\ notified' = [c \in Clients |-> c \notin sent /\ (notified[c] \/ c \in took)]
       /\ lost' = [c \in Clients |-> lost[c] \/ c \in full]
       /\ seen' = [c \in Clients |-> IF c \in took THEN SeenAfter(c) ELSE seen[c]]
       /\ sub' = [c \in Clients |-> IF c \in took THEN SubAfter(c) ELSE sub[c]]

\* publish
Publish(e) == history' = Trim(Append(history, e)) /\ Deliver(e)

-----------------------------------------------------------------------------
(* The queue's actions, with their events *)

\* job.Run emits an event of its own.
Emit(kind) ==
  /\ worker = "running"
  /\ emitted[kind] < (IF kind = "step" THEN MaxSteps ELSE MaxOthers)
  /\ emitted' = [emitted EXCEPT ![kind] = @ + 1]
  /\ Publish(Event(kind, current, emitted[kind] + 1))
  /\ UNCHANGED queueVars

\* The history of the job before is forgotten when the next one starts.
StreamPick == Pick /\ history' = <<>> /\ UNCHANGED <<emitted, clientVars>>

\* The end is delivered, then the queue is idle and the history with it.
StreamPublishEnd ==
  /\ PublishEnd
  /\ Deliver(Event("end", current, 0))
  /\ history' = <<>> /\ emitted' = NoneEmitted

\* publishCancelled publishes into whatever history there is by then.
StreamDropEnd(j) ==
  /\ DropEnd(j)
  /\ Publish(Event("end", j, 0))
  /\ UNCHANGED emitted

-----------------------------------------------------------------------------
(* Clients *)

\* Subscribe replays the history and registers in one critical section. A
\* replay that does not fit would be cut short.
Subscribe(c) ==
  /\ sub[c] = "away"
  /\ sub' = [sub EXCEPT ![c] = "live"]
  /\ ch' = [ch EXCEPT ![c] = SubSeq(history, 1, Min({Len(history), Capacity}))]
  /\ UNCHANGED <<queueVars, history, emitted, notified, seen, lost>>

\* streamEvents copies one event and returns after an "end".
Receive(c) ==
  /\ sub[c] = "live" /\ ch[c] # <<>>
  /\ ch' = [ch EXCEPT ![c] = Tail(@)]
  /\ seen' = [seen EXCEPT ![c] = SeenAfter(c)]
  /\ sub' = [sub EXCEPT ![c] = SubAfter(c)]
  /\ UNCHANGED <<queueVars, history, emitted, notified, lost>>

\* The deferred unsubscribe, after an end or because the client went away: the
\* next connection starts afresh.
Unsubscribe(c) ==
  /\ sub[c] # "away"
  /\ sub' = [sub EXCEPT ![c] = "away"]
  /\ ch' = [ch EXCEPT ![c] = <<>>] /\ notified' = [notified EXCEPT ![c] = FALSE]
  /\ seen' = [seen EXCEPT ![c] = {}] /\ lost' = [lost EXCEPT ![c] = FALSE]
  /\ UNCHANGED <<queueVars, history, emitted>>

-----------------------------------------------------------------------------

QuietWorker == Stop \/ (\E e \in Errors : RunReturns(e)) \/ Judge \/ RunFinalizer

QuietCallers ==
  \/ Close
  \/ \E j \in Jobs : Submit(j) \/ CancelRunning(j) \/ FireCancel(j) \/ CancelQueued(j) \/ DropHook(j)

StreamNext ==
  \/ (QuietWorker \/ QuietCallers) /\ UNCHANGED eventVars
  \/ StreamPick \/ StreamPublishEnd
  \/ \E kind \in {"step", "other"} : Emit(kind)
  \/ \E j \in Jobs : StreamDropEnd(j)
  \/ \E c \in Clients : Subscribe(c) \/ Receive(c) \/ Unsubscribe(c)

StreamSpec == StreamInit /\ [][StreamNext]_streamVars

\* The worker never stops by itself, a goroutine past its unlock goes on, a job
\* returns once cancelled, and a connected client reads what it is sent. Nobody
\* has to submit, cancel, close, connect or leave.
StreamFairness ==
  /\ WF_streamVars(StreamPick)
  /\ WF_streamVars((Stop \/ Judge \/ RunFinalizer) /\ UNCHANGED eventVars)
  /\ WF_streamVars(StreamPublishEnd)
  /\ WF_streamVars(RunObeysContext /\ UNCHANGED eventVars)
  /\ \A j \in Jobs : WF_streamVars((FireCancel(j) \/ DropHook(j)) /\ UNCHANGED eventVars)
                     /\ WF_streamVars(StreamDropEnd(j))
  /\ \A c \in Clients : WF_streamVars(Receive(c))

StreamFairSpec == StreamSpec /\ StreamFairness

-----------------------------------------------------------------------------
(* Properties *)

\* "history never holds more than replayLimit non-step entries, plus
\* stepHeadroom's worth of step ones, so this never hits the default case":
\* what Subscribe replays always fits, with room for live events after it,
\* however many queued jobs were cancelled meanwhile.
ReplayFits == Len(history) + SubscriberHeadroom <= Capacity

\* "A subscriber that connects mid-run needs every one of them replayed": a
\* connection nothing was dropped for has, read or still in its channel, every
\* step of the running job, each once, whenever it subscribed.
StepsReachEveryClient ==
  \A c \in Clients :
    sub[c] = "live" /\ ~lost[c] /\ current # NoJob =>
      \A n \in 1..emitted.step :
        LET e == Event("step", current, n)
        IN Cardinality({i \in DOMAIN ch[c] : ch[c][i] = e})
             + (IF e \in seen[c] THEN 1 ELSE 0) = 1

\* streamEvents ends "after the end event": when a job a client watches ends,
\* that connection ends too, unless events were dropped for it.
JobEndEndsStream ==
  \A c \in Clients :
    (worker = "ending" /\ sub[c] = "live") ~> (sub[c] # "live" \/ lost[c])

\* main.go: "The event stream only ends when its job does": while a job runs, no
\* connection is sent the end of a job that never ran.
StreamEndsWithItsJob ==
  \A c \in Clients : \A e \in Range(ch[c]) :
    worker = "running" /\ sub[c] = "live" /\ e.kind = "end" => runs[e.job] > 0
=============================================================================
