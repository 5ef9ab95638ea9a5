------------------------------ MODULE WorkerPool ------------------------------
(***************************************************************************)
(* mapWithConcurrency (src/core/util.ts): workers that share one index map *)
(* a list of items, at most so many at a time.  A step is what one worker  *)
(* does between two awaits: it stores a result and takes its next item.    *)
(* What is done to an item is up to the caller.                            *)
(***************************************************************************)
EXTENDS Integers, Sequences

CONSTANT Hole       \* what an index holds that was never run: undefined

VARIABLES
  aborted,  \* the signal given to the pool has fired
  items,    \* the list being mapped
  next,     \* the shared index, of the next item nobody has taken
  doing,    \* the index each worker is at, 0 once it has returned or thrown
  results,  \* the results by index
  rejected  \* a worker has thrown

poolVars == <<items, next, doing, results, rejected>>

PoolTypeOK(Item, Result) ==
  /\ items \in Seq(Item)
  /\ next \in 1..Len(items) + 1
  /\ doing \in Seq(0..Len(items))
  /\ results \in [1..Len(items) -> Result \cup {Hole}]
  /\ rejected \in BOOLEAN

PoolInit ==
  /\ items = <<>> /\ next = 1 /\ doing = <<>> /\ results = <<>>
  /\ rejected = FALSE

Busy == {w \in DOMAIN doing : doing[w] # 0}
ItemOf(w) == items[doing[w]]

Limit(list, concurrency) ==
  IF concurrency < Len(list) THEN concurrency ELSE Len(list)

(* A non-empty list, with the signal not fired: every worker takes one     *)
(* item before anything else runs.                                         *)
Start(list, concurrency) ==
  /\ items' = list
  /\ next' = Limit(list, concurrency) + 1
  /\ doing' = [w \in 1..Limit(list, concurrency) |-> w]
  /\ results' = [i \in 1..Len(list) |-> Hole]
  /\ rejected' = FALSE

(* Mutant: results are appended as they come.                               *)
StoreAppended(w, result) ==
  [results EXCEPT ![CHOOSE i \in 1..Len(items) :
     results[i] = Hole /\ \A j \in 1..i - 1 : results[j] # Hole] = result]

Store(w, result) == [results EXCEPT ![doing[w]] = result]

(* Mutant: the signal is not looked at before an item is taken.             *)
OnwardUnchecked(w) ==
  IF next > Len(items)
    THEN doing' = [doing EXCEPT ![w] = 0] /\ UNCHANGED next
    ELSE doing' = [doing EXCEPT ![w] = next] /\ next' = next + 1

(* The head of the loop of a worker.                                       *)
Onward(w) ==
  IF aborted \/ next > Len(items)
    THEN doing' = [doing EXCEPT ![w] = 0] /\ UNCHANGED next
    ELSE doing' = [doing EXCEPT ![w] = next] /\ next' = next + 1

(* fn resolves: the result is kept by index and the worker goes on.        *)
Settle(w, result) ==
  /\ results' = Store(w, result)
  /\ Onward(w)
  /\ UNCHANGED <<items, rejected>>

(* fn throws: the worker ends, the others go on.                           *)
Throw(w) ==
  /\ doing' = [doing EXCEPT ![w] = 0]
  /\ rejected' = TRUE
  /\ UNCHANGED <<items, next, results>>

(* Mutant: Promise.all, which rejects with the first worker that throws.    *)
DrainedOrThrown == rejected \/ Busy = {}

(* Promise.allSettled over the workers: only then does the pool report.    *)
Drained == Busy = {}
=============================================================================
