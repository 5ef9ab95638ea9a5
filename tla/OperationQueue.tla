---------------------------- MODULE OperationQueue ----------------------------
(***************************************************************************)
(* The request queue of the MCP server, packages/mcp/src/queue.ts: submit, *)
(* drain, the abort listener of a queued entry, the settling of a running  *)
(* entry and close.  JavaScript runs each of these to completion; what may *)
(* come in between are promise callbacks, which are actions of their own.  *)
(* drain is a loop: while draining is true nothing but its next iteration  *)
(* can happen.                                                             *)
(***************************************************************************)
EXTENDS Naturals, Sequences, FiniteSets

CONSTANTS Requests,       \* tool calls the client makes, each submitted once
          MaxConcurrent,  \* limits.maxConcurrent
          MaxQueued       \* limits.maxQueued

ASSUME QueueAssumption ==
  /\ IsFiniteSet(Requests)
  /\ MaxConcurrent \in Nat \ {0}
  /\ MaxQueued \in Nat

VARIABLES pending,   \* entries waiting to be started, oldest first
          active,    \* the counter of started and not yet reaped entries
          running,   \* the entries whose tracked promise is not settled
          settled,   \* what each request was answered, or "none"
          finished,  \* running entries already answered, not yet reaped
          aborted,   \* requests whose signal has fired
          closed,    \* whether close was called
          awaited,   \* the entries close waits for
          draining,  \* whether drain is in its loop
          started,   \* history: requests whose operation was started
          arrivals   \* history: queued requests in the order they came

vars == <<pending, active, running, settled, finished, aborted, closed, awaited,
          draining, started, arrivals>>

Answers == {"none", "result", "cancelled", "busy"}

TypeOK ==
  /\ pending \in Seq(Requests)
  /\ active \in Nat
  /\ running \subseteq Requests
  /\ settled \in [Requests -> Answers]
  /\ finished \subseteq Requests
  /\ aborted \subseteq Requests
  /\ closed \in BOOLEAN
  /\ awaited \subseteq Requests
  /\ draining \in BOOLEAN
  /\ started \subseteq Requests
  /\ arrivals \in Seq(Requests)

Init ==
  /\ pending = <<>>
  /\ active = 0
  /\ running = {} /\ finished = {} /\ aborted = {} /\ awaited = {} /\ started = {}
  /\ settled = [r \in Requests |-> "none"]
  /\ closed = FALSE /\ draining = FALSE
  /\ arrivals = <<>>

Queued(r) == \E i \in DOMAIN pending : pending[i] = r
New(r) == settled[r] = "none" /\ ~Queued(r) /\ r \notin started
Settle(r, answer) == settled' = [settled EXCEPT ![r] = answer]

(* s.splice(i, 1) *)
Without(s, i) == [j \in 1 .. Len(s) - 1 |-> IF j < i THEN s[j] ELSE s[j + 1]]

-------------------------------------------------------------------------------
(* submit: its three outcomes. *)
SubmitCancelled(r) ==
  /\ ~draining /\ New(r)
  /\ closed \/ r \in aborted
  /\ Settle(r, "cancelled")
  /\ UNCHANGED <<pending, active, running, finished, aborted, closed, awaited, draining,
                 started, arrivals>>

SubmitBusy(r) ==
  /\ ~draining /\ New(r)
  /\ ~closed /\ r \notin aborted
  /\ Len(pending) >= MaxQueued
  /\ Settle(r, "busy")
  /\ UNCHANGED <<pending, active, running, finished, aborted, closed, awaited, draining,
                 started, arrivals>>

SubmitQueued(r) ==
  /\ ~draining /\ New(r)
  /\ ~closed /\ r \notin aborted
  /\ Len(pending) < MaxQueued
  /\ pending' = Append(pending, r)
  /\ arrivals' = Append(arrivals, r)
  /\ draining' = TRUE
  /\ UNCHANGED <<active, running, settled, finished, aborted, closed, awaited, started>>

(* Mutant: one operation too many. *)
MayDrainOneMore == ~closed /\ active <= MaxConcurrent /\ pending # <<>>

(* One iteration of the loop of drain, and its end. *)
MayDrain == ~closed /\ active < MaxConcurrent /\ pending # <<>>

(* Mutant: the newest entry goes first. *)
DrainNewest ==
  /\ draining /\ MayDrain
  /\ pending' = Without(pending, Len(pending))
  /\ active' = active + 1
  /\ running' = running \cup {pending[Len(pending)]}
  /\ started' = started \cup {pending[Len(pending)]}
  /\ UNCHANGED <<settled, finished, aborted, closed, awaited, draining, arrivals>>

DrainEntry ==
  /\ draining /\ MayDrain
  /\ pending' = Tail(pending)
  /\ IF Head(pending) \in aborted
     THEN /\ Settle(Head(pending), "cancelled")
          /\ UNCHANGED <<active, running, started>>
     ELSE /\ active' = active + 1
          /\ running' = running \cup {Head(pending)}
          /\ started' = started \cup {Head(pending)}
          /\ UNCHANGED settled
  /\ UNCHANGED <<finished, aborted, closed, awaited, draining, arrivals>>

DrainEnds ==
  /\ draining /\ ~MayDrain
  /\ draining' = FALSE
  /\ UNCHANGED <<pending, active, running, settled, finished, aborted, closed, awaited,
                 started, arrivals>>

(* Mutant: the slot is freed by the result and once more by the finally. *)
OperationEndsTwice(r) ==
  /\ ~draining
  /\ r \in running \ finished
  /\ finished' = finished \cup {r}
  /\ active' = active - 1
  /\ \E answer \in {"result", "cancelled"} : Settle(r, answer)
  /\ UNCHANGED <<pending, running, aborted, closed, awaited, draining, started, arrivals>>

(* The promise of start() settles; a rejection is answered as cancelled. *)
OperationEnds(r) ==
  /\ ~draining
  /\ r \in running \ finished
  /\ finished' = finished \cup {r}
  /\ \E answer \in {"result", "cancelled"} : Settle(r, answer)
  /\ UNCHANGED <<pending, active, running, aborted, closed, awaited, draining, started,
                 arrivals>>

(* Mutant: the queue is not drained when a slot is freed.                 *)
ReapWithoutDrain(r) ==
  /\ ~draining
  /\ r \in finished
  /\ active' = active - 1
  /\ running' = running \ {r}
  /\ finished' = finished \ {r}
  /\ UNCHANGED <<pending, settled, aborted, closed, awaited, draining, started, arrivals>>

(* The finally callback, a promise tick later: the client may already have *)
(* its answer, and may have submitted again, when the slot is freed.       *)
Reap(r) ==
  /\ ~draining
  /\ r \in finished
  /\ active' = active - 1
  /\ running' = running \ {r}
  /\ finished' = finished \ {r}
  /\ draining' = TRUE
  /\ UNCHANGED <<pending, settled, aborted, closed, awaited, started, arrivals>>

(* The signal of a request fires: before it is submitted, while it is      *)
(* queued (the listener takes it out and answers), or while it runs (the   *)
(* operation is told; the queue does nothing).                             *)
Abort(r) ==
  /\ ~draining
  /\ r \notin aborted
  /\ aborted' = aborted \cup {r}
  /\ \/ /\ ~Queued(r)
        /\ UNCHANGED <<pending, settled>>
     \/ \E i \in DOMAIN pending :
          /\ pending[i] = r
          /\ pending' = Without(pending, i)
          /\ Settle(r, "cancelled")
  /\ UNCHANGED <<active, running, finished, closed, awaited, draining, started, arrivals>>

(* close: everything queued is answered as cancelled, then the running     *)
(* entries are awaited.                                                    *)
Close ==
  /\ ~draining
  /\ ~closed
  /\ closed' = TRUE
  /\ pending' = <<>>
  /\ settled' = [r \in Requests |-> IF Queued(r) THEN "cancelled" ELSE settled[r]]
  /\ awaited' = running
  /\ UNCHANGED <<active, running, finished, aborted, draining, started, arrivals>>

Loop == DrainEntry \/ DrainEnds

Submit(r) == SubmitCancelled(r) \/ SubmitBusy(r) \/ SubmitQueued(r)

Next ==
  \/ Loop
  \/ Close
  \/ \E r \in Requests : Submit(r) \/ OperationEnds(r) \/ Reap(r) \/ Abort(r)

(* The event loop runs to completion what it has begun; operations end     *)
(* (each is bounded by its own timeouts), and their callbacks run.         *)
Fairness ==
  /\ WF_vars(Loop)
  /\ \A r \in Requests : WF_vars(OperationEnds(r)) /\ WF_vars(Reap(r))

Spec == Init /\ [][Next]_vars
FairSpec == Spec /\ Fairness

-------------------------------------------------------------------------------
(* The two limits hold, and the counter that enforces the first one counts *)
(* exactly the running entries, those already answered but not yet reaped  *)
(* included.                                                               *)
WithinLimits ==
  /\ active = Cardinality(running)
  /\ active <= MaxConcurrent
  /\ Len(pending) <= MaxQueued

(* No request waits while a slot is free, outside the loop of drain. *)
NoIdleSlot == ~draining /\ ~closed /\ pending # <<>> => active = MaxConcurrent

(* First in, first out: a queued request overtaken by a later one has been *)
(* cancelled.                                                              *)
FirstComeFirstServed ==
  \A i, j \in DOMAIN arrivals :
    (i < j /\ arrivals[j] \in started /\ arrivals[i] \notin started)
      => settled[arrivals[i]] = "cancelled"

(* A queued entry has not been answered and its signal has not fired: the  *)
(* listener takes it out first, so the test in drain is only a safeguard.  *)
QueuedAreLive ==
  \A i \in DOMAIN pending :
    /\ settled[pending[i]] = "none"
    /\ pending[i] \notin aborted \cup started

(* Once close has been called nothing is started and nothing is queued,    *)
(* and close waits for every operation that still runs.                    *)
CloseWaitsForAll == closed => pending = <<>> /\ running \subseteq awaited

(* The bookkeeping behind these invariants: the same request is in one     *)
(* place at a time, and only a running entry still owes an answer.         *)
Bookkeeping ==
  /\ finished \subseteq running
  /\ running \subseteq started
  /\ \A i, j \in DOMAIN pending : pending[i] = pending[j] => i = j
  /\ \A r \in started : settled[r] = "none" <=> r \in running \ finished

(* The inductive invariant of the queue. *)
QueueInv ==
  /\ TypeOK /\ Bookkeeping /\ WithinLimits /\ NoIdleSlot /\ QueuedAreLive
  /\ CloseWaitsForAll

(* Every queued request is answered. *)
EveryRequestAnswered == \A r \in Requests : Queued(r) ~> settled[r] # "none"

(* The queue implements the scheduler promised to the server. *)
StatusOf(r) ==
  CASE r \in running \ finished -> "running"
    [] r \notin running \ finished /\ settled[r] # "none" /\ r \in started -> "answered"
    [] r \notin running \ finished /\ settled[r] # "none" /\ r \notin started -> "refused"
    [] r \notin running \ finished /\ settled[r] = "none" /\ Queued(r) -> "waiting"
    [] OTHER -> "new"

Promise == INSTANCE Scheduler
             WITH Limit <- MaxConcurrent, status <- [r \in Requests |-> StatusOf(r)]

SchedulerSpec == Promise!Spec
===============================================================================
