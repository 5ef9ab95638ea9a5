------------------------- MODULE OperationQueueProofs -------------------------
(***************************************************************************)
(* Proofs about OperationQueue for any number of requests and any limits:  *)
(* the limits hold, no slot idles while a request waits, none is overtaken,*)
(* close waits for every running one, and the queue implements Scheduler.  *)
(***************************************************************************)
EXTENDS OperationQueue, FiniteSetTheorems, TLAPS

(* Cutting one element out of a sequence. *)
LEMMA WithoutProperties ==
  ASSUME NEW S, NEW s \in Seq(S), NEW i \in DOMAIN s
  PROVE  /\ Without(s, i) \in Seq(S)
         /\ Len(Without(s, i)) = Len(s) - 1
         /\ \A j \in DOMAIN Without(s, i) :
              /\ j \in DOMAIN s /\ j + 1 \in DOMAIN s
              /\ Without(s, i)[j] = IF j < i THEN s[j] ELSE s[j + 1]
<1> DEFINE t == Without(s, i)
<1>1. Len(s) \in Nat \ {0} /\ i \in 1 .. Len(s) /\ DOMAIN s = 1 .. Len(s)
  OBVIOUS
<1>2. t = [j \in 1 .. Len(s) - 1 |-> IF j < i THEN s[j] ELSE s[j + 1]]
  BY DEF Without
<1>3. \A j \in 1 .. Len(s) - 1 : j \in 1 .. Len(s) /\ j + 1 \in 1 .. Len(s)
  BY <1>1
<1>4. \A j \in 1 .. Len(s) : s[j] \in S
  OBVIOUS
<1> HIDE DEF t
<1>5. t \in [1 .. Len(s) - 1 -> S]
  BY <1>2, <1>3, <1>4
<1>6. t \in Seq(S) /\ Len(t) = Len(s) - 1
  <2>1. \A k \in Nat : \A f \in [1 .. k -> S] : f \in Seq(S) /\ Len(f) = k
    OBVIOUS
  <2>2. Len(s) - 1 \in Nat
    BY <1>1
  <2> QED
    BY <1>5, <2>1, <2>2
<1> QED
  BY <1>1, <1>2, <1>3, <1>5, <1>6 DEF t

LEMMA QueueInit == Init => QueueInv
<1> SUFFICES ASSUME Init PROVE QueueInv
  OBVIOUS
<1>1. Cardinality(running) = 0
  BY FS_EmptySet DEF Init
<1>2. TypeOK
  <2>1. settled \in [Requests -> Answers]
    BY DEF Init, Answers
  <2>2. pending \in Seq(Requests) /\ arrivals \in Seq(Requests) /\ active \in Nat
    BY DEF Init
  <2> QED
    BY <2>1, <2>2 DEF Init, TypeOK
<1>3. WithinLimits
  BY <1>1, QueueAssumption DEF Init, WithinLimits
<1>4. Bookkeeping /\ NoIdleSlot /\ QueuedAreLive /\ CloseWaitsForAll
  BY DEF Init, Bookkeeping, NoIdleSlot, QueuedAreLive, CloseWaitsForAll
<1> QED
  BY <1>2, <1>3, <1>4 DEF QueueInv

LEMMA RunningIsFinite == QueueInv => IsFiniteSet(running)
BY QueueAssumption, FS_Subset DEF QueueInv, TypeOK

-------------------------------------------------------------------------------
(* One lemma per action: it preserves the invariant. *)
LEMMA SubmitPreserves ==
  ASSUME QueueInv, NEW r \in Requests, Submit(r)
  PROVE  QueueInv'
<1> USE QueueAssumption
    DEF QueueInv, TypeOK, Bookkeeping, WithinLimits, NoIdleSlot, QueuedAreLive,
        CloseWaitsForAll, Answers, New, Queued, Settle
<1>1. CASE SubmitCancelled(r)
  BY <1>1 DEF SubmitCancelled
<1>2. CASE SubmitBusy(r)
  BY <1>2 DEF SubmitBusy
<1>3. CASE SubmitQueued(r)
  BY <1>3 DEF SubmitQueued
<1> QED
  BY <1>1, <1>2, <1>3 DEF Submit

LEMMA LoopPreserves ==
  ASSUME QueueInv, Loop
  PROVE  QueueInv'
<1> USE QueueAssumption
    DEF QueueInv, TypeOK, Bookkeeping, WithinLimits, NoIdleSlot, QueuedAreLive,
        CloseWaitsForAll, Answers, MayDrain
<1>1. CASE DrainEntry
  <2> DEFINE r == Head(pending)
  <2>1. r \in Requests /\ r = pending[1] /\ r \notin aborted \cup started
    BY <1>1 DEF DrainEntry
  <2>2. /\ pending' = Tail(pending)
        /\ active' = active + 1
        /\ running' = running \cup {r}
        /\ started' = started \cup {r}
        /\ UNCHANGED <<settled, finished, aborted, closed, awaited, draining, arrivals>>
    BY <1>1, <2>1 DEF DrainEntry
  <2>3. Cardinality(running') = active + 1
    BY <2>1, <2>2, RunningIsFinite, FS_AddElement
  <2>4. /\ Len(pending') = Len(pending) - 1
        /\ \A i \in DOMAIN pending' : i + 1 \in DOMAIN pending /\ pending'[i] = pending[i + 1]
        /\ pending' \in Seq(Requests)
    BY <1>1, <2>2 DEF DrainEntry
  <2>5. WithinLimits'
    BY <1>1, <2>2, <2>3, <2>4 DEF DrainEntry
  <2>6. QueuedAreLive'
    <3> SUFFICES ASSUME NEW i \in DOMAIN pending'
                 PROVE  /\ settled'[pending'[i]] = "none"
                        /\ pending'[i] \notin aborted' \cup started'
      OBVIOUS
    <3>1. /\ i + 1 \in DOMAIN pending /\ pending'[i] = pending[i + 1]
          /\ 1 \in DOMAIN pending /\ i + 1 # 1
      BY <1>1, <2>4 DEF DrainEntry
    <3>2. pending'[i] # r
      BY <2>1, <3>1
    <3>3. settled[pending[i + 1]] = "none" /\ pending[i + 1] \notin aborted \cup started
      BY <3>1
    <3> QED
      BY <2>2, <3>1, <3>2, <3>3
  <2>7. Bookkeeping'
    <3>1. \A i, j \in DOMAIN pending' : pending'[i] = pending'[j] => i = j
      BY <2>4
    <3>2. settled[r] = "none" /\ r \notin finished
      BY <1>1, <2>1 DEF DrainEntry
    <3> QED
      BY <2>1, <2>2, <3>1, <3>2
  <2>8. TypeOK' /\ NoIdleSlot' /\ CloseWaitsForAll'
    BY <1>1, <2>1, <2>2, <2>4 DEF DrainEntry
  <2> QED
    BY <2>5, <2>6, <2>7, <2>8
<1>2. CASE DrainEnds
  <2>1. TypeOK' /\ Bookkeeping' /\ QueuedAreLive' /\ CloseWaitsForAll'
    BY <1>2 DEF DrainEnds
  <2>2. WithinLimits'
    BY <1>2 DEF DrainEnds
  <2>3. NoIdleSlot'
    BY <1>2 DEF DrainEnds
  <2> QED
    BY <2>1, <2>2, <2>3
<1> QED
  BY <1>1, <1>2 DEF Loop

LEMMA OperationEndsPreserves ==
  ASSUME QueueInv, NEW r \in Requests, OperationEnds(r)
  PROVE  QueueInv'
BY DEF OperationEnds, QueueInv, TypeOK, Bookkeeping, WithinLimits, NoIdleSlot, QueuedAreLive,
       CloseWaitsForAll, Answers, Settle

LEMMA ReapPreserves ==
  ASSUME QueueInv, NEW r \in Requests, Reap(r)
  PROVE  QueueInv'
<1> USE DEF QueueInv, TypeOK, Bookkeeping, WithinLimits, NoIdleSlot, QueuedAreLive,
            CloseWaitsForAll
<1>1. Cardinality(running') = active - 1 /\ active - 1 \in Nat
  <2>1. r \in running
    BY DEF Reap
  <2>2. Cardinality(running \ {r}) = Cardinality(running) - 1
    BY <2>1, RunningIsFinite, FS_RemoveElement
  <2>3. Cardinality(running \ {r}) \in Nat
    BY RunningIsFinite, FS_RemoveElement, FS_CardinalityType
  <2> QED
    BY <2>2, <2>3 DEF Reap
<1> QED
  BY <1>1, QueueAssumption DEF Reap

LEMMA AbortPreserves ==
  ASSUME QueueInv, NEW r \in Requests, Abort(r)
  PROVE  QueueInv'
<1> USE QueueAssumption
    DEF QueueInv, TypeOK, Bookkeeping, WithinLimits, NoIdleSlot, QueuedAreLive,
        CloseWaitsForAll, Answers, Settle, Queued
<1>1. CASE ~Queued(r)
  BY <1>1 DEF Abort
<1>2. ASSUME NEW i \in DOMAIN pending, pending[i] = r, pending' = Without(pending, i),
             settled' = [settled EXCEPT ![r] = "cancelled"]
      PROVE  QueueInv'
  <2>1. /\ pending' \in Seq(Requests)
        /\ Len(pending') = Len(pending) - 1
        /\ \A j \in DOMAIN pending' :
             /\ j \in DOMAIN pending /\ j + 1 \in DOMAIN pending
             /\ pending'[j] = IF j < i THEN pending[j] ELSE pending[j + 1]
    BY <1>2, WithoutProperties
  <2>2. \A j \in DOMAIN pending' : pending'[j] # r
    BY <1>2, <2>1
  <2>3. r \notin started
    BY <1>2
  <2>4. Bookkeeping'
    BY <1>2, <2>1, <2>3 DEF Abort
  <2>5. QueuedAreLive'
    BY <1>2, <2>1, <2>2 DEF Abort
  <2>6. WithinLimits' /\ NoIdleSlot' /\ CloseWaitsForAll' /\ TypeOK'
    BY <1>2, <2>1 DEF Abort
  <2> QED
    BY <2>4, <2>5, <2>6
<1> QED
  BY <1>1, <1>2 DEF Abort

LEMMA ClosePreserves ==
  ASSUME QueueInv, Close
  PROVE  QueueInv'
BY QueueAssumption
DEF Close, QueueInv, TypeOK, Bookkeeping, WithinLimits, NoIdleSlot, QueuedAreLive,
    CloseWaitsForAll, Answers, Queued

LEMMA QueueNext == QueueInv /\ [Next]_vars => QueueInv'
<1> SUFFICES ASSUME QueueInv, [Next]_vars PROVE QueueInv'
  OBVIOUS
<1>1. CASE UNCHANGED vars
  BY <1>1 DEF vars, QueueInv, TypeOK, Bookkeeping, WithinLimits, NoIdleSlot, QueuedAreLive,
              CloseWaitsForAll
<1> QED
  BY <1>1, SubmitPreserves, LoopPreserves, OperationEndsPreserves, ReapPreserves,
     AbortPreserves, ClosePreserves DEF Next

(* The inductive invariant holds in every state. *)
THEOREM QueueCorrect == Spec => []QueueInv
BY QueueInit, QueueNext, PTL DEF Spec

(* At most MaxConcurrent operations run, at most MaxQueued wait, and the   *)
(* counter agrees with the set of running operations.                      *)
THEOREM LimitsHold == Spec => []WithinLimits
<1>1. QueueInv => WithinLimits
  BY DEF QueueInv
<1> QED
  BY <1>1, QueueCorrect, PTL

(* No request waits while a slot is free. *)
THEOREM SlotsAreUsed == Spec => []NoIdleSlot
<1>1. QueueInv => NoIdleSlot
  BY DEF QueueInv
<1> QED
  BY <1>1, QueueCorrect, PTL

(* Nothing is queued or started after close, which waits for all the rest. *)
THEOREM CloseIsComplete == Spec => []CloseWaitsForAll
<1>1. QueueInv => CloseWaitsForAll
  BY DEF QueueInv
<1> QED
  BY <1>1, QueueCorrect, PTL

-------------------------------------------------------------------------------
(* The order.                                                              *)

(* A request is queued once. *)
ArriveOnce == \A i, j \in DOMAIN arrivals : arrivals[i] = arrivals[j] => i = j

(* What was queued is queued still, or was started or cancelled. *)
Fate(r) == Queued(r) \/ r \in started \/ settled[r] = "cancelled"
ArrivedHasFate == \A i \in DOMAIN arrivals : Fate(arrivals[i])

(* Entries wait in the order they came. *)
PendingInOrder ==
  \A a, b \in DOMAIN pending : \A i, j \in DOMAIN arrivals :
    a < b /\ pending[a] = arrivals[i] /\ pending[b] = arrivals[j] => i < j

(* Nothing waits that came before something that was started. *)
StartedFirst ==
  \A i, j \in DOMAIN arrivals : i < j /\ arrivals[j] \in started => ~Queued(arrivals[i])

OrderInv == QueueInv /\ ArriveOnce /\ ArrivedHasFate /\ PendingInOrder /\ StartedFirst

LEMMA OrderInit == Init => OrderInv
BY QueueInit DEF Init, OrderInv, ArriveOnce, ArrivedHasFate, PendingInOrder, StartedFirst

(* Whatever leaves the queue is started or cancelled, and nothing moves up *)
(* past another entry.                                                     *)
LEMMA ShrinkKeepsOrder ==
  ASSUME OrderInv, QueueInv', UNCHANGED arrivals,
         started \subseteq started',
         \A r \in Requests : Fate(r) => Fate(r)',
         \A r \in Requests : Queued(r)' => Queued(r),
         \A a \in DOMAIN pending' : \E b \in DOMAIN pending : b >= a /\ pending'[a] = pending[b],
         \A a, b \in DOMAIN pending' : a < b =>
           \E x, y \in DOMAIN pending : x < y /\ pending'[a] = pending[x] /\ pending'[b] = pending[y],
         \A j \in DOMAIN arrivals : arrivals[j] \in started' \ started =>
           \A i \in DOMAIN arrivals : i < j => ~Queued(arrivals[i])'
  PROVE  OrderInv'
<1>1. \A i \in DOMAIN arrivals : arrivals[i] \in Requests
  BY DEF OrderInv, QueueInv, TypeOK
<1>2. ArriveOnce' /\ ArrivedHasFate'
  BY <1>1 DEF OrderInv, ArriveOnce, ArrivedHasFate
<1>3. PendingInOrder'
  BY DEF OrderInv, PendingInOrder
<1>4. StartedFirst'
  BY <1>1 DEF OrderInv, StartedFirst
<1> QED
  BY <1>2, <1>3, <1>4 DEF OrderInv

(* A new entry is queued after everything that came before it. *)
LEMMA SubmitKeepsOrder ==
  ASSUME OrderInv, NEW r \in Requests, SubmitQueued(r)
  PROVE  OrderInv'
<1> DEFINE n == Len(arrivals)
           m == Len(pending)
<1>1. QueueInv'
  BY SubmitPreserves DEF OrderInv, Submit
<1>2. /\ n \in Nat /\ m \in Nat /\ DOMAIN arrivals = 1 .. n /\ DOMAIN pending = 1 .. m
      /\ \A i \in 1 .. n : arrivals[i] \in Requests
  BY DEF OrderInv, QueueInv, TypeOK
<1>3. /\ DOMAIN arrivals' = 1 .. n + 1 /\ arrivals'[n + 1] = r
      /\ \A i \in 1 .. n : arrivals'[i] = arrivals[i]
      /\ DOMAIN pending' = 1 .. m + 1 /\ pending'[m + 1] = r
      /\ \A a \in 1 .. m : pending'[a] = pending[a]
      /\ UNCHANGED <<settled, started>>
  BY DEF SubmitQueued, OrderInv, QueueInv, TypeOK
<1>4. New(r) /\ ~Fate(r)
  BY DEF SubmitQueued, New, Fate
<1>5. \A i \in 1 .. n : arrivals[i] # r
  BY <1>2, <1>4 DEF OrderInv, ArrivedHasFate
<1>6. \A a \in 1 .. m : pending[a] # r
  BY <1>2, <1>4 DEF New, Queued
<1> HIDE DEF n, m
<1>7. \A q : Queued(q)' <=> Queued(q) \/ q = r
  <2>1. \A a \in 1 .. m + 1 : a \in 1 .. m \/ a = m + 1
    BY <1>2
  <2>2. m + 1 \in 1 .. m + 1 /\ \A a \in 1 .. m : a \in 1 .. m + 1
    BY <1>2
  <2> QED
    BY <1>2, <1>3, <2>1, <2>2 DEF Queued
<1>8. \A i \in 1 .. n + 1 : i \in 1 .. n \/ i = n + 1
  BY <1>2
<1>9. ArriveOnce'
  BY <1>2, <1>3, <1>5, <1>8 DEF OrderInv, ArriveOnce
<1>10. ArrivedHasFate'
  BY <1>2, <1>3, <1>7, <1>8 DEF OrderInv, ArrivedHasFate, Fate
<1>11. PendingInOrder'
  <2> SUFFICES ASSUME NEW a \in 1 .. m + 1, NEW b \in 1 .. m + 1,
                      NEW i \in 1 .. n + 1, NEW j \in 1 .. n + 1,
                      a < b, pending'[a] = arrivals'[i], pending'[b] = arrivals'[j]
               PROVE  i < j
    BY <1>3 DEF PendingInOrder
  <2>1. a \in 1 .. m /\ pending'[a] = pending[a] /\ i \in 1 .. n /\ arrivals'[i] = arrivals[i]
    BY <1>2, <1>3, <1>6, <1>8
  <2>2. CASE b = m + 1
    BY <1>2, <1>3, <1>5, <1>8, <2>1, <2>2
  <2>3. CASE b \in 1 .. m
    <3>1. j \in 1 .. n /\ arrivals'[j] = arrivals[j] /\ pending'[b] = pending[b]
      BY <1>2, <1>3, <1>6, <1>8, <2>3
    <3> QED
      BY <1>2, <2>1, <2>3, <3>1 DEF OrderInv, PendingInOrder
  <2> QED
    BY <1>2, <2>2, <2>3
<1>12. StartedFirst'
  <2> SUFFICES ASSUME NEW i \in 1 .. n + 1, NEW j \in 1 .. n + 1, i < j, arrivals'[j] \in started
               PROVE  ~Queued(arrivals[i])'
    BY <1>3 DEF StartedFirst
  <2>1. j \in 1 .. n /\ i \in 1 .. n
    BY <1>2, <1>3, <1>4, <1>8 DEF New
  <2> QED
    BY <1>2, <1>3, <1>5, <1>7, <2>1 DEF OrderInv, StartedFirst
<1> QED
  BY <1>1, <1>9, <1>10, <1>11, <1>12 DEF OrderInv

LEMMA OrderNext == OrderInv /\ [Next]_vars => OrderInv'
<1> SUFFICES ASSUME OrderInv, [Next]_vars PROVE OrderInv'
  OBVIOUS
<1>t. QueueInv' /\ QueueInv
  BY QueueNext DEF OrderInv
<1>d. /\ Len(pending) \in Nat /\ DOMAIN pending = 1 .. Len(pending)
      /\ settled \in [Requests -> Answers]
  BY <1>t DEF QueueInv, TypeOK
<1>1. CASE UNCHANGED <<pending, settled, started, arrivals>>
  BY <1>t, <1>1 DEF OrderInv, ArriveOnce, ArrivedHasFate, Fate, PendingInOrder, StartedFirst, Queued
<1>2. ASSUME NEW r \in Requests, SubmitCancelled(r) \/ SubmitBusy(r) \/ OperationEnds(r)
      PROVE  OrderInv'
  <2>1. /\ UNCHANGED <<pending, started, arrivals>>
        /\ \A q \in Requests : settled'[q] # settled[q] => settled[q] = "none" \/ q \in started
    BY <1>t, <1>d, <1>2
    DEF SubmitCancelled, SubmitBusy, OperationEnds, Settle, New, QueueInv, Bookkeeping
  <2>2. \A q : Queued(q)' <=> Queued(q)
    BY <2>1 DEF Queued
  <2>3. \A q \in Requests : Fate(q) => Fate(q)'
    BY <2>1, <2>2 DEF Fate
  <2>4. \A i \in DOMAIN arrivals : arrivals[i] \in Requests
    BY <1>t DEF QueueInv, TypeOK
  <2> QED
    BY <1>t, <2>1, <2>2, <2>3, <2>4
    DEF OrderInv, ArriveOnce, ArrivedHasFate, PendingInOrder, StartedFirst
<1>3. CASE DrainEntry
  <2> DEFINE r == Head(pending)
  <2>1. r \in Requests /\ r = pending[1] /\ r \notin aborted /\ 1 \in DOMAIN pending
    BY <1>t, <1>3 DEF DrainEntry, MayDrain, QueueInv, TypeOK, QueuedAreLive
  <2>2. pending' = Tail(pending) /\ started' = started \cup {r} /\ UNCHANGED <<settled, arrivals>>
    BY <1>3, <2>1 DEF DrainEntry
  <2>3. /\ DOMAIN pending' = 1 .. Len(pending) - 1
        /\ \A a \in DOMAIN pending' : a + 1 \in DOMAIN pending /\ pending'[a] = pending[a + 1]
    BY <1>t, <1>d, <2>1, <2>2 DEF QueueInv, TypeOK
  <2> HIDE DEF r
  <2>4. \A q : Queued(q)' => Queued(q)
    BY <2>3 DEF Queued
  <2>5. ASSUME NEW q \in Requests, Fate(q)
        PROVE  Fate(q)'
    <3>1. CASE Queued(q)
      <4>1. PICK a \in DOMAIN pending : pending[a] = q
        BY <3>1 DEF Queued
      <4>2. CASE a = 1
        BY <2>1, <2>2, <4>1, <4>2 DEF Fate
      <4>3. CASE a # 1
        <5>1. a - 1 \in DOMAIN pending' /\ (a - 1) + 1 = a
          BY <1>d, <2>3, <4>1, <4>3
        <5>2. pending'[a - 1] = q
          BY <2>3, <4>1, <5>1
        <5> QED
          BY <5>1, <5>2 DEF Fate, Queued
      <4> QED
        BY <4>2, <4>3
    <3>2. CASE q \in started \/ settled[q] = "cancelled"
      BY <2>2, <3>2 DEF Fate
    <3> QED
      BY <2>5, <3>1, <3>2 DEF Fate
  <2>6. ASSUME NEW i \in DOMAIN arrivals, NEW j \in DOMAIN arrivals, i < j,
               arrivals[j] \in started' \ started, Queued(arrivals[i])'
        PROVE  FALSE
    <3>1. arrivals[j] = pending[1]
      BY <2>1, <2>2, <2>6
    <3>2. PICK a \in DOMAIN pending' : pending'[a] = arrivals[i]
      BY <2>2, <2>6 DEF Queued
    <3>3. 1 < a + 1 /\ a + 1 \in DOMAIN pending /\ pending[a + 1] = arrivals[i]
      BY <1>d, <2>3, <3>2
    <3>4. j < i
      BY <2>1, <3>1, <3>3 DEF OrderInv, PendingInOrder
    <3>5. i \in Int /\ j \in Int
      BY <1>t DEF QueueInv, TypeOK
    <3> QED
      BY <2>6, <3>4, <3>5
  <2>7. \A a \in DOMAIN pending' : \E b \in DOMAIN pending : b >= a /\ pending'[a] = pending[b]
    BY <1>d, <2>3
  <2>8. \A a, b \in DOMAIN pending' : a < b =>
          \E x, y \in DOMAIN pending : x < y /\ pending'[a] = pending[x] /\ pending'[b] = pending[y]
    BY <1>d, <2>3
  <2> QED
    BY <1>t, <2>2, <2>4, <2>5, <2>6, <2>7, <2>8, ShrinkKeepsOrder
<1>4. ASSUME NEW r \in Requests, Abort(r)
      PROVE  OrderInv'
  <2>1. CASE UNCHANGED <<pending, settled>>
    BY <1>1, <1>4, <2>1 DEF Abort
  <2>2. ASSUME NEW i \in DOMAIN pending, pending[i] = r, pending' = Without(pending, i),
               Settle(r, "cancelled")
        PROVE  OrderInv'
    <3>1. /\ \A a \in DOMAIN pending' :
               /\ a \in DOMAIN pending /\ a + 1 \in DOMAIN pending
               /\ pending'[a] = IF a < i THEN pending[a] ELSE pending[a + 1]
          /\ DOMAIN pending' = 1 .. Len(pending) - 1
      <4>1. pending \in Seq(Requests)
        BY <1>t DEF QueueInv, TypeOK
      <4>2. /\ pending' \in Seq(Requests) /\ Len(pending') = Len(pending) - 1
            /\ \A a \in DOMAIN pending' :
                 /\ a \in DOMAIN pending /\ a + 1 \in DOMAIN pending
                 /\ pending'[a] = IF a < i THEN pending[a] ELSE pending[a + 1]
        BY <2>2, <4>1, WithoutProperties
      <4>3. DOMAIN pending' = 1 .. Len(pending')
        BY <4>2
      <4> QED
        BY <4>2, <4>3
    <3>2. UNCHANGED <<started, arrivals>>
      BY <1>4 DEF Abort
    <3>3. \A q : Queued(q)' => Queued(q)
      BY <3>1 DEF Queued
    <3>4. ASSUME NEW q \in Requests, Fate(q)
          PROVE  Fate(q)'
      <4>1. CASE q = r
        BY <1>d, <2>2, <4>1 DEF Settle, Fate
      <4>2. CASE q # r /\ Queued(q)
        <5>1. PICK a \in DOMAIN pending : pending[a] = q
          BY <4>2 DEF Queued
        <5>2. a # i /\ i \in Int /\ a \in Int
          BY <1>d, <2>2, <4>2, <5>1
        <5>3. CASE a < i
          BY <1>d, <3>1, <5>1, <5>3 DEF Fate, Queued
        <5>4. CASE a > i
          <6>1. a - 1 \in DOMAIN pending' /\ ~(a - 1 < i) /\ (a - 1) + 1 = a
            BY <1>d, <3>1, <5>1, <5>4
          <6>2. pending'[a - 1] = q
            BY <3>1, <5>1, <6>1
          <6> QED
            BY <6>1, <6>2 DEF Fate, Queued
        <5> QED
          BY <5>2, <5>3, <5>4
      <4>3. CASE q # r /\ ~Queued(q)
        BY <1>d, <2>2, <3>2, <3>4, <4>3 DEF Settle, Fate
      <4> QED
        BY <4>1, <4>2, <4>3
    <3>5. \A a \in DOMAIN pending' : \E b \in DOMAIN pending : b >= a /\ pending'[a] = pending[b]
      BY <1>d, <3>1
    <3>6. \A a, b \in DOMAIN pending' : a < b =>
            \E x, y \in DOMAIN pending : x < y /\ pending'[a] = pending[x] /\ pending'[b] = pending[y]
      BY <1>d, <2>2, <3>1
    <3> QED
      BY <1>t, <3>2, <3>3, <3>4, <3>5, <3>6, ShrinkKeepsOrder
  <2> QED
    BY <1>4, <2>1, <2>2 DEF Abort
<1>5. CASE Close
  <2>1. /\ pending' = <<>> /\ UNCHANGED <<started, arrivals>>
        /\ settled' = [r \in Requests |-> IF Queued(r) THEN "cancelled" ELSE settled[r]]
    BY <1>5 DEF Close
  <2>2. \A q : ~Queued(q)'
    BY <2>1 DEF Queued
  <2>3. \A q \in Requests : Fate(q) => Fate(q)'
    BY <2>1 DEF Fate
  <2>4. DOMAIN pending' = {}
    BY <2>1
  <2> QED
    BY <1>t, <2>1, <2>2, <2>3, <2>4, ShrinkKeepsOrder
<1>6. CASE DrainEnds \/ (\E r \in Requests : Reap(r)) \/ UNCHANGED vars
  BY <1>1, <1>6 DEF DrainEnds, Reap, vars
<1> QED
  BY <1>2, <1>3, <1>4, <1>5, <1>6, SubmitKeepsOrder DEF Next, Loop, Submit

(* No request is overtaken: one that came earlier than a started one has   *)
(* been started or cancelled, for any number of requests and any limits.   *)
THEOREM OrderCorrect == Spec => []FirstComeFirstServed
<1>1. OrderInv => FirstComeFirstServed
  BY DEF OrderInv, ArrivedHasFate, Fate, StartedFirst, FirstComeFirstServed
<1> QED
  BY <1>1, OrderInit, OrderNext, PTL DEF Spec

-------------------------------------------------------------------------------
(* The refinement.  One lemma per action says where it moves a request;    *)
(* all other requests keep their status.                                   *)
Statuses == [q \in Requests |-> StatusOf(q)]

LEMMA MoveOne ==
  ASSUME NEW r \in Requests, NEW s, StatusOf(r)' = s,
         \A q \in Requests \ {r} : StatusOf(q)' = StatusOf(q)
  PROVE  Statuses' = [Statuses EXCEPT ![r] = s]
BY DEF Statuses

LEMMA StayAll ==
  ASSUME \A q \in Requests : StatusOf(q)' = StatusOf(q)
  PROVE  Statuses' = Statuses
BY DEF Statuses

LEMMA SubmitRefines ==
  ASSUME QueueInv, NEW r \in Requests, Submit(r)
  PROVE  Promise!Refuse(r) \/ Promise!Accept(r)
<1> USE DEF New, QueueInv, TypeOK, Bookkeeping, Answers, Settle
<1>1. StatusOf(r) = "new"
  BY DEF Submit, SubmitCancelled, SubmitBusy, SubmitQueued, StatusOf
<1>2. CASE SubmitCancelled(r) \/ SubmitBusy(r)
  <2>1. StatusOf(r)' = "refused"
    BY <1>2 DEF SubmitCancelled, SubmitBusy, StatusOf
  <2>2. \A q \in Requests \ {r} : StatusOf(q)' = StatusOf(q)
    BY <1>2 DEF SubmitCancelled, SubmitBusy, StatusOf, Queued
  <2> QED
    BY <1>1, <2>1, <2>2, MoveOne DEF Promise!Refuse, Promise!Become, Statuses
<1>3. CASE SubmitQueued(r)
  <2>1. \A q \in Requests : Queued(q)' <=> Queued(q) \/ q = r
    <3>1. /\ pending' \in Seq(Requests)
          /\ Len(pending') = Len(pending) + 1
          /\ pending'[Len(pending) + 1] = r
          /\ \A i \in 1 .. Len(pending) : pending'[i] = pending[i]
      BY <1>3 DEF SubmitQueued
    <3>2. DOMAIN pending = 1 .. Len(pending) /\ DOMAIN pending' = 1 .. Len(pending) + 1
      BY <3>1
    <3>3. ASSUME NEW q \in Requests, NEW i \in DOMAIN pending', pending'[i] = q
          PROVE  Queued(q) \/ q = r
      BY <3>1, <3>2, <3>3 DEF Queued
    <3>4. ASSUME NEW q \in Requests, NEW i \in DOMAIN pending, pending[i] = q
          PROVE  Queued(q)'
      BY <3>1, <3>2, <3>4 DEF Queued
    <3>5. Queued(r)'
      BY <3>1, <3>2 DEF Queued
    <3> QED
      BY <3>3, <3>4, <3>5 DEF Queued
  <2>2. StatusOf(r)' = "waiting"
    BY <1>3, <2>1 DEF SubmitQueued, StatusOf
  <2>3. \A q \in Requests \ {r} : StatusOf(q)' = StatusOf(q)
    BY <1>3, <2>1 DEF SubmitQueued, StatusOf
  <2> QED
    BY <1>1, <2>2, <2>3, MoveOne DEF Promise!Accept, Promise!Become, Statuses
<1> QED
  BY <1>2, <1>3 DEF Submit

LEMMA BusyBelowLimit ==
  ASSUME QueueInv, active < MaxConcurrent
  PROVE  Cardinality({q \in Requests : Statuses[q] = "running"}) < MaxConcurrent
<1> DEFINE B == {q \in Requests : Statuses[q] = "running"}
<1>1. B \subseteq running
  BY DEF StatusOf, Statuses
<1>2. Cardinality(B) <= Cardinality(running) /\ IsFiniteSet(B)
  BY <1>1, RunningIsFinite, FS_Subset
<1>3. Cardinality(B) \in Nat
  BY <1>2, FS_CardinalityType
<1> QED
  BY <1>2, <1>3, QueueAssumption DEF QueueInv, WithinLimits, TypeOK

LEMMA DrainRefines ==
  ASSUME QueueInv, DrainEntry
  PROVE  \E r \in Requests : Promise!Run(r)
<1>1. PICK r \in Requests : r = Head(pending) /\ r = pending[1] /\ 1 \in DOMAIN pending
  BY DEF DrainEntry, MayDrain, QueueInv, TypeOK
<1> USE DEF QueueInv, TypeOK, Bookkeeping, QueuedAreLive, MayDrain
<1>2. r \notin aborted \cup started /\ settled[r] = "none"
  BY <1>1
<1>3. /\ running' = running \cup {r} /\ started' = started \cup {r}
      /\ UNCHANGED <<settled, finished>>
  BY <1>1, <1>2 DEF DrainEntry
<1>4. \A q \in Requests \ {r} : Queued(q)' <=> Queued(q)
  <2>1. /\ Len(pending) \in Nat \ {0}
        /\ DOMAIN pending = 1 .. Len(pending)
        /\ DOMAIN pending' = 1 .. Len(pending) - 1
        /\ \A i \in 1 .. Len(pending) - 1 : pending'[i] = pending[i + 1]
    BY <1>1 DEF DrainEntry
  <2>2. \A i \in 2 .. Len(pending) : i - 1 \in 1 .. Len(pending) - 1 /\ i = (i - 1) + 1
    BY <2>1
  <2>3. \A i \in 1 .. Len(pending) - 1 : i + 1 \in 1 .. Len(pending)
    BY <2>1
  <2>4. ASSUME NEW q \in Requests \ {r}, NEW i \in DOMAIN pending, pending[i] = q
        PROVE  Queued(q)'
    <3>1. i \in 2 .. Len(pending)
      BY <2>1, <2>4, <1>1
    <3>2. i - 1 \in DOMAIN pending' /\ pending'[i - 1] = q
      BY <3>1, <2>1, <2>2, <2>4
    <3> QED
      BY <3>2 DEF Queued
  <2>5. ASSUME NEW q \in Requests \ {r}, NEW i \in DOMAIN pending', pending'[i] = q
        PROVE  Queued(q)
    BY <2>1, <2>3, <2>5 DEF Queued
  <2> QED
    BY <2>4, <2>5 DEF Queued
<1>5. StatusOf(r) = "waiting"
  BY <1>1, <1>2 DEF StatusOf, Queued
<1>6. StatusOf(r)' = "running"
  <2>1. r \in running' \ finished'
    BY <1>2, <1>3
  <2> QED
    BY <2>1 DEF StatusOf
<1>7. \A q \in Requests \ {r} : StatusOf(q)' = StatusOf(q)
  BY <1>1, <1>3, <1>4 DEF StatusOf
<1>8. active < MaxConcurrent
  BY DEF DrainEntry
<1> HIDE DEF QueueInv, TypeOK, Bookkeeping, QueuedAreLive, MayDrain
<1>9. Statuses' = [Statuses EXCEPT ![r] = "running"]
  BY <1>1, <1>6, <1>7, MoveOne
<1>10. Statuses[r] = "waiting"
  BY <1>1, <1>5 DEF Statuses
<1>11. Promise!Run(r)
  BY <1>8, <1>9, <1>10, BusyBelowLimit DEF Promise!Run, Promise!Cardinality, Cardinality, Promise!Become, Promise!Busy, Statuses
<1> QED
  BY <1>1, <1>11

LEMMA OperationEndsRefines ==
  ASSUME QueueInv, NEW r \in Requests, OperationEnds(r)
  PROVE  Promise!Answer(r)
<1> USE DEF QueueInv, TypeOK, Bookkeeping, Answers, OperationEnds, Settle
<1>1. StatusOf(r) = "running"
  BY DEF StatusOf
<1>2. StatusOf(r)' = "answered"
  BY DEF StatusOf
<1>3. \A q \in Requests \ {r} : StatusOf(q)' = StatusOf(q)
  BY DEF StatusOf, Queued
<1> QED
  BY <1>1, <1>2, <1>3, MoveOne DEF Promise!Answer, Promise!Become, Statuses

LEMMA ReapRefines ==
  ASSUME QueueInv, NEW r \in Requests, Reap(r)
  PROVE  Statuses' = Statuses
<1>1. \A q \in Requests : StatusOf(q)' = StatusOf(q)
  BY DEF QueueInv, Bookkeeping, Reap, StatusOf, Queued
<1> QED
  BY <1>1, StayAll

LEMMA AbortRefines ==
  ASSUME QueueInv, NEW r \in Requests, Abort(r)
  PROVE  Promise!Cancel \/ Statuses' = Statuses
<1> USE DEF QueueInv, TypeOK, Bookkeeping, QueuedAreLive, Answers, Settle
<1>1. CASE UNCHANGED <<pending, settled>>
  <2>1. \A q \in Requests : StatusOf(q)' = StatusOf(q)
    BY <1>1 DEF Abort, StatusOf, Queued
  <2> QED
    BY <2>1, StayAll
<1>2. ASSUME NEW i \in DOMAIN pending, pending[i] = r, pending' = Without(pending, i),
             settled' = [settled EXCEPT ![r] = "cancelled"]
      PROVE  Promise!Cancel
  <2>1. r \notin started /\ settled[r] = "none" /\ Queued(r)
    BY <1>2 DEF Queued
  <2>2. \A q \in Requests \ {r} : Queued(q)' <=> Queued(q)
    <3>1. /\ Len(pending) \in Nat \ {0} /\ i \in 1 .. Len(pending)
          /\ DOMAIN pending = 1 .. Len(pending)
          /\ DOMAIN pending' = 1 .. Len(pending) - 1
          /\ \A j \in 1 .. Len(pending) - 1 :
               pending'[j] = IF j < i THEN pending[j] ELSE pending[j + 1]
      BY <1>2, WithoutProperties DEF Without
    <3>2. ASSUME NEW q \in Requests \ {r}, NEW j \in DOMAIN pending, pending[j] = q
          PROVE  Queued(q)'
      <4>1. j \in 1 .. Len(pending) /\ j # i
        BY <1>2, <3>1, <3>2
      <4>2. CASE j < i
        BY <3>1, <3>2, <4>1, <4>2 DEF Queued
      <4>3. CASE j > i
        <5>1. j - 1 \in 1 .. Len(pending) - 1 /\ ~(j - 1 < i) /\ (j - 1) + 1 = j
          BY <3>1, <4>1, <4>3
        <5>2. pending'[j - 1] = q
          BY <3>1, <3>2, <5>1
        <5> QED
          BY <3>1, <5>1, <5>2 DEF Queued
      <4> QED
        BY <3>1, <4>1, <4>2, <4>3
    <3>3. ASSUME NEW q \in Requests \ {r}, NEW j \in DOMAIN pending', pending'[j] = q
          PROVE  Queued(q)
      <4>1. j \in 1 .. Len(pending) - 1 /\ j \in 1 .. Len(pending) /\ j + 1 \in 1 .. Len(pending)
        BY <3>1, <3>3
      <4>2. CASE j < i
        <5>1. pending[j] = q
          BY <3>1, <3>3, <4>1, <4>2
        <5> QED
          BY <3>1, <4>1, <5>1 DEF Queued
      <4>3. CASE ~(j < i)
        <5>1. pending[j + 1] = q
          BY <3>1, <3>3, <4>1, <4>3
        <5> QED
          BY <3>1, <4>1, <5>1 DEF Queued
      <4> QED
        BY <4>2, <4>3
    <3> QED
      BY <3>2, <3>3 DEF Queued
  <2>3. StatusOf(r) = "waiting" /\ StatusOf(r)' = "refused"
    BY <1>2, <2>1 DEF Abort, StatusOf
  <2>4. \A q \in Requests \ {r} : StatusOf(q)' = StatusOf(q)
    BY <1>2, <2>2 DEF Abort, StatusOf
  <2>5. {r} \in SUBSET {q \in Requests : Statuses[q] = "waiting"}
    BY <2>3 DEF Statuses
  <2>6. Statuses' = [q \in Requests |-> IF q \in {r} THEN "refused" ELSE Statuses[q]]
    BY <2>3, <2>4 DEF Statuses
  <2> QED
    BY <2>5, <2>6 DEF Promise!Cancel, Statuses
<1> QED
  BY <1>1, <1>2 DEF Abort

LEMMA CloseRefines ==
  ASSUME QueueInv, Close
  PROVE  Promise!Cancel
<1> DEFINE C == {q \in Requests : Queued(q)}
<1> USE DEF QueueInv, TypeOK, Bookkeeping, QueuedAreLive, Answers
<1>1. \A q \in C : StatusOf(q) = "waiting" /\ StatusOf(q)' = "refused"
  <2>1. \A q \in C : settled[q] = "none" /\ q \notin started
    BY DEF Queued
  <2>2. \A q \in C : settled'[q] = "cancelled"
    BY DEF Close
  <2> QED
    BY <2>1, <2>2 DEF Close, StatusOf
<1>2. \A q \in Requests \ C : ~Queued(q)'
  BY DEF Close, Queued
<1>3. \A q \in Requests \ C : StatusOf(q)' = StatusOf(q)
  <2>1. \A q \in Requests \ C : settled'[q] = settled[q]
    BY DEF Close
  <2> QED
    BY <1>2, <2>1 DEF Close, StatusOf
<1>4. C \in SUBSET {q \in Requests : Statuses[q] = "waiting"}
  BY <1>1 DEF Statuses
<1>5. Statuses' = [q \in Requests |-> IF q \in C THEN "refused" ELSE Statuses[q]]
  BY <1>1, <1>3 DEF Statuses
<1> QED
  BY <1>4, <1>5 DEF Promise!Cancel, Statuses

LEMMA RefinesInit == Init => Promise!Init
BY DEF Init, Promise!Init, StatusOf, Queued

LEMMA RefinesNext == QueueInv /\ [Next]_vars => [Promise!Next]_(Promise!svars)
<1> SUFFICES ASSUME QueueInv, [Next]_vars PROVE Promise!Next \/ Statuses' = Statuses
  BY DEF Promise!svars, Statuses
<1>1. CASE UNCHANGED vars \/ DrainEnds
  <2>1. \A q \in Requests : StatusOf(q)' = StatusOf(q)
    BY <1>1 DEF vars, DrainEnds, StatusOf, Queued
  <2> QED
    BY <2>1, StayAll
<1>2. CASE DrainEntry
  BY <1>2, DrainRefines DEF Promise!Next
<1>3. CASE Close
  BY <1>3, CloseRefines DEF Promise!Next
<1>4. ASSUME NEW r \in Requests, Submit(r) \/ OperationEnds(r) \/ Reap(r) \/ Abort(r)
      PROVE  Promise!Next \/ Statuses' = Statuses
  BY <1>4, SubmitRefines, OperationEndsRefines, ReapRefines, AbortRefines DEF Promise!Next
<1> QED
  BY <1>1, <1>2, <1>3, <1>4 DEF Next, Loop

(* The queue implements the scheduler the protocol server relies on: every *)
(* request is answered at most once, never more than MaxConcurrent run,    *)
(* and a request answered without being run is never run.                  *)
THEOREM ImplementsScheduler == Spec => SchedulerSpec
BY QueueCorrect, RefinesInit, RefinesNext, PTL DEF Spec, SchedulerSpec, Promise!Spec
===============================================================================
