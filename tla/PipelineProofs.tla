---------------------------- MODULE PipelineProofs ----------------------------
(***************************************************************************)
(* Proofs about the research run: RunInv is inductive, and the properties  *)
(* of module Pipeline follow from it for any number of pages, workers and  *)
(* attempts and any interval.  Lemmas about the worker pool come first,    *)
(* one for each of its operations, and then one lemma for each step.       *)
(***************************************************************************)
EXTENDS Pipeline, SequenceTheorems, FiniteSetTheorems, TLAPS

Results == Fetched \cup Extracted

LEMMA HoleIsNoResult == Hole \notin Results
BY DEF Hole, Results, Fetched, Extracted, PageIds

(* A function on an initial segment of the numbers is a sequence.           *)
LEMMA SegmentIsSeq ==
  ASSUME NEW S, NEW n \in Nat, NEW f \in [1..n -> S]
  PROVE  f \in Seq(S) /\ Len(f) = n /\ DOMAIN f = 1..n
OBVIOUS

LEMMA EmptyIsSegment ==
  ASSUME NEW S
  PROVE  <<>> \in Seq(S) /\ <<>> \in [1..0 -> S] /\ Len(<<>>) = 0
BY EmptySeq, LenProperties

LEMMA InitRunInv == Init => RunInv
<1> SUFFICES ASSUME Init PROVE RunInv
  OBVIOUS
<1>1. TypeOK
  <2>1. Pool!PoolTypeOK(PageIds, Results)
    <3>1. /\ items = <<>> /\ next = 1 /\ doing = <<>> /\ results = <<>>
          /\ rejected = FALSE /\ Len(items) = 0
      BY EmptyIsSegment DEF Init, Pool!PoolInit
    <3>4. next = 1 /\ Len(items) = 0
      BY <3>1
    <3>5. next \in 1..Len(items) + 1
      BY <3>4
    <3>2. next \in 1..Len(items) + 1 /\ rejected \in BOOLEAN
      BY <3>1, <3>5, Zenon
    <3>3. /\ items \in Seq(PageIds) /\ doing \in Seq(0..Len(items))
          /\ results \in [1..Len(items) -> Results \cup {Hole}]
      BY <3>1, EmptyIsSegment
    <3> QED
      BY <3>2, <3>3 DEF Pool!PoolTypeOK
  <2>2. pages \in Seq(Fetched) /\ wait \in Seq(Nat) /\ atGate \subseteq DOMAIN wait
    BY EmptyIsSegment DEF Init
  <2>3. details \in Details
    BY DEF Init, Details, NoDetails
  <2>4. fate \in [PageIds -> Fates]
    BY DEF Init, Fates
  <2>5. attempts \in 0..SearchAttempts /\ urls \in 0..MaxUrls /\ ahead \in Nat
    BY PipelineAssumption DEF Init
  <2>6. /\ pc \in Places /\ aborted \in BOOLEAN /\ committed \in BOOLEAN
        /\ exit \in {"none", "completed"} \cup Degraded
        /\ outcome \in Outcomes /\ called \subseteq PageIds
    BY Zenon DEF Init, Places, Outcomes
  <2> QED
    BY <2>1, <2>2, <2>3, <2>4, <2>5, <2>6, Zenon DEF TypeOK, Results
<1>2. PoolSound /\ GateSound /\ SlotsApart /\ NothingOutlivesStage
  BY DEF Init, Pool!PoolInit, Pool!Busy, PoolSound, GateSound, SlotsApart,
         NothingOutlivesStage
<1>3. PlaceSound /\ FetchSound /\ PagesSound /\ ExtractSound
  BY PipelineAssumption DEF Init, PlaceSound, FetchSound, PagesSound,
         ExtractSound, Extracting, Collecting, Degraded
<1> QED
  BY <1>1, <1>2, <1>3 DEF RunInv

----------------------------------------------------------------------------
(* The pool.                                                               *)
PoolTyped == Pool!PoolTypeOK(PageIds, Results)

Increasing(list) == \A i, j \in DOMAIN list : i < j => list[i] < list[j]

LEMMA PoolStart ==
  ASSUME NEW list \in Seq(PageIds), list # <<>>, Increasing(list),
         NEW concurrency \in Nat \ {0}, Pool!Start(list, concurrency),
         ~aborted'
  PROVE  /\ PoolTyped' /\ PoolSound'
         /\ doing' # <<>> /\ doing' \in Seq(Nat)
         /\ Pool!Busy' = DOMAIN doing'
<1> DEFINE k == Pool!Limit(list, concurrency)
<1>1. k \in 1..Len(list) /\ Len(list) \in Nat /\ DOMAIN list = 1..Len(list)
  BY DEF Pool!Limit
<1>2. /\ items' = list /\ next' = k + 1 /\ doing' = [w \in 1..k |-> w]
      /\ results' = [i \in 1..Len(list) |-> Hole] /\ rejected' = FALSE
  BY DEF Pool!Start
<1> HIDE DEF k
<1>3. PoolTyped'
  <2>1. doing' \in [1..k -> 0..Len(items')]
    BY <1>1, <1>2
  <2>2. doing' \in Seq(0..Len(items')) /\ Len(doing') = k
    BY <1>1, <2>1, SegmentIsSeq
  <2>3. next' \in 1..Len(items') + 1
    BY <1>1, <1>2
  <2>4. results' \in [1..Len(items') -> Results \cup {Hole}]
    BY <1>1, <1>2
  <2> QED
    BY <1>2, <2>2, <2>3, <2>4 DEF PoolTyped, Pool!PoolTypeOK
<1>4. Pool!Busy' = 1..k
  BY <1>1, <1>2 DEF Pool!Busy
<1>5. doing' # <<>> /\ doing' \in Seq(Nat) /\ DOMAIN doing' = 1..k
  <2>1. doing' \in [1..k -> Nat]
    BY <1>1, <1>2
  <2> QED
    BY <1>1, <2>1, SegmentIsSeq, EmptySeq
<1>6. PoolSound'
  <2>1. \A v, w \in Pool!Busy' : doing'[v] = doing'[w] => v = w
    BY <1>1, <1>2, <1>4
  <2>2. \A w \in Pool!Busy' : doing'[w] < next' /\ results'[doing'[w]] = Hole
    BY <1>1, <1>2, <1>4
  <2>3. \A i \in DOMAIN items' :
          results'[i] = Hole /\ (i >= next' \/ \E v \in Pool!Busy' : doing'[v] = i)
    <3> SUFFICES ASSUME NEW i \in 1..Len(list)
                 PROVE  results'[i] = Hole /\ (i >= k + 1 \/ i \in 1..k)
      BY <1>1, <1>2, <1>4
    <3> QED
      BY <1>1, <1>2
  <2> QED
    BY <1>2, <1>4, <1>5, <2>1, <2>2, <2>3 DEF PoolSound, Increasing
<1> QED
  BY <1>3, <1>4, <1>5, <1>6

LEMMA PoolSettle ==
  ASSUME PoolTyped, PoolSound, aborted' = aborted,
         NEW w \in Pool!Busy, NEW result \in Results,
         result.page = Pool!ItemOf(w), Pool!Settle(w, result)
  PROVE  /\ PoolTyped' /\ PoolSound'
         /\ DOMAIN doing' = DOMAIN doing
         /\ \A v \in DOMAIN doing \ {w} : doing'[v] = doing[v]
         /\ results' = [results EXCEPT ![doing[w]] = result]
         /\ items' = items
<1> USE DEF PoolTyped, Pool!PoolTypeOK
<1>1. /\ w \in DOMAIN doing /\ doing[w] \in 1..Len(items) /\ doing[w] < next
      /\ results[doing[w]] = Hole /\ next \in Nat
  BY DEF Pool!Busy, PoolSound
<1>2. /\ results' = [results EXCEPT ![doing[w]] = result]
      /\ items' = items /\ rejected' = rejected
  BY DEF Pool!Settle, Pool!Store
<1>3. \E e \in 0..Len(items) :
        /\ doing' = [doing EXCEPT ![w] = e]
        /\ \/ e = 0 /\ next' = next /\ (aborted \/ next > Len(items))
           \/ ~aborted /\ e = next /\ next \in 1..Len(items) /\ next' = next + 1
  BY DEF Pool!Settle, Pool!Onward
<1>4. PICK e \in 0..Len(items) :
        /\ doing' = [doing EXCEPT ![w] = e]
        /\ \/ e = 0 /\ next' = next /\ (aborted \/ next > Len(items))
           \/ ~aborted /\ e = next /\ next \in 1..Len(items) /\ next' = next + 1
  BY <1>3
<1>5. PoolTyped'
  BY <1>1, <1>2, <1>4
<1>6. /\ DOMAIN doing' = DOMAIN doing /\ doing'[w] = e
      /\ \A v \in DOMAIN doing \ {w} : doing'[v] = doing[v]
  BY <1>1, <1>4
<1>7. Pool!Busy' = IF e = 0 THEN Pool!Busy \ {w} ELSE Pool!Busy
  BY <1>6 DEF Pool!Busy
<1>8. PoolSound'
  <2>1. rejected' => aborted'
    BY <1>2 DEF PoolSound
  <2>2. \A v \in Pool!Busy \ {w} : doing[v] # doing[w] /\ doing[v] < next
    BY DEF PoolSound
  <2>3. \A v, u \in Pool!Busy' : doing'[v] = doing'[u] => v = u
    BY <1>4, <1>6, <1>7, <2>2 DEF PoolSound, Pool!Busy
  <2>4. \A v \in Pool!Busy' : doing'[v] < next' /\ results'[doing'[v]] = Hole
    <3> SUFFICES ASSUME NEW v \in Pool!Busy'
                 PROVE  doing'[v] < next' /\ results'[doing'[v]] = Hole
      OBVIOUS
    <3>1. CASE v = w
      <4>1. e # 0 /\ e = next /\ next' = next + 1 /\ next \in 1..Len(items)
        BY <1>4, <1>7, <3>1
      <4>2. results[next] = Hole
        <5>1. next \in DOMAIN items
          BY <4>1
        <5>2. \A i \in DOMAIN items : results[i] # Hole => i < next
          BY DEF PoolSound
        <5> QED
          BY <1>1, <5>1, <5>2
      <4> QED
        BY <1>1, <1>2, <1>6, <3>1, <4>1, <4>2
    <3>2. CASE v # w
      <4>1. v \in Pool!Busy /\ doing'[v] = doing[v] /\ doing[v] \in 1..Len(items)
        BY <1>6, <1>7, <3>2 DEF Pool!Busy
      <4> QED
        BY <1>1, <1>2, <1>4, <2>2, <3>2, <4>1 DEF PoolSound
    <3> QED
      BY <3>1, <3>2
  <2>5. \A i \in DOMAIN items' :
          IF results'[i] = Hole
          THEN i >= next' \/ rejected' \/ \E v \in Pool!Busy' : doing'[v] = i
          ELSE i < next' /\ results'[i].page = items'[i]
    <3> SUFFICES ASSUME NEW i \in DOMAIN items
                 PROVE  IF results'[i] = Hole
                        THEN i >= next' \/ rejected' \/ \E v \in Pool!Busy' : doing'[v] = i
                        ELSE i < next' /\ results'[i].page = items[i]
      BY <1>2
    <3>1. CASE i = doing[w]
      BY <1>1, <1>2, <1>4, <3>1, HoleIsNoResult DEF Pool!ItemOf
    <3>2. CASE i # doing[w]
      <4>1. results'[i] = results[i]
        BY <1>2, <3>2
      <4>2. CASE results[i] # Hole
        BY <1>4, <4>1, <4>2 DEF PoolSound
      <4>3. CASE results[i] = Hole /\ (rejected \/ \E v \in Pool!Busy : doing[v] = i)
        BY <1>2, <1>6, <1>7, <3>2, <4>1, <4>3 DEF Pool!Busy
      <4>4. CASE results[i] = Hole /\ i >= next
        BY <1>1, <1>2, <1>4, <1>6, <1>7, <3>2, <4>1, <4>4
      <4> QED
        BY <4>2, <4>3, <4>4 DEF PoolSound
    <3> QED
      BY <3>1, <3>2
  <2>6. ~aborted' /\ next' <= Len(items') => doing' # <<>> /\ Pool!Busy' = DOMAIN doing'
    BY <1>1, <1>2, <1>4, <1>6, <1>7 DEF PoolSound
  <2> QED
    BY <1>2, <2>1, <2>3, <2>4, <2>5, <2>6 DEF PoolSound
<1> QED
  BY <1>2, <1>5, <1>6, <1>8

LEMMA PoolThrow ==
  ASSUME PoolTyped, PoolSound, aborted, aborted' = aborted,
         NEW w \in Pool!Busy, Pool!Throw(w)
  PROVE  /\ PoolTyped' /\ PoolSound'
         /\ DOMAIN doing' = DOMAIN doing
         /\ \A v \in DOMAIN doing \ {w} : doing'[v] = doing[v]
         /\ doing'[w] = 0
         /\ UNCHANGED <<items, next, results>>
BY DEF PoolTyped, Pool!PoolTypeOK, PoolSound, Pool!Throw, Pool!Busy

(* A step that leaves the pool alone.                                      *)
LEMMA PoolSame ==
  ASSUME PoolTyped, PoolSound, UNCHANGED poolVars, aborted => aborted',
         aborted' \in BOOLEAN, aborted \in BOOLEAN
  PROVE  PoolTyped' /\ PoolSound' /\ Pool!Busy' = Pool!Busy
BY DEF PoolTyped, Pool!PoolTypeOK, PoolSound, Pool!Busy, poolVars

----------------------------------------------------------------------------
(* The steps of the run that leave pages, pool and gate alone.             *)

LEMMA CountsTyped ==
  ASSUME RunInv, NEW how
  PROVE  Counts(how) \in Details
<1> USE DEF RunInv, TypeOK
<1>1. NoDetails \in Details
  BY DEF NoDetails, Details
<1>2. \A status : PagesWith(pages, status) \subseteq PageIds
  <2>1. \A i \in DOMAIN pages : pages[i] \in Fetched
    OBVIOUS
  <2>2. \A i \in DOMAIN pages : pages[i].page \in PageIds
    BY <2>1 DEF Fetched
  <2> QED
    BY <2>2 DEF PagesWith
<1>3. \A i \in DOMAIN Extractions : Extractions[i].page \in PageIds
  <2> SUFFICES ASSUME NEW i \in 1..Len(results) PROVE Extractions[i].page \in PageIds
    BY DEF Extractions, Filled
  <2>1. DOMAIN results = 1..Len(items) /\ Len(items) \in Nat
    BY DEF Pool!PoolTypeOK
  <2>2. Len(results) = Len(items)
    BY <2>1, SegmentIsSeq DEF Pool!PoolTypeOK
  <2>3. /\ results[i] = Hole => Extractions[i].page = items[i]
        /\ results[i] # Hole => Extractions[i].page = results[i].page
    BY DEF Extractions, Filled
  <2>4. items[i] \in PageIds
    BY <2>2 DEF Pool!PoolTypeOK
  <2>5. results[i] # Hole => results[i].page \in PageIds
    BY <2>1, <2>2 DEF Pool!PoolTypeOK, Fetched, Extracted
  <2> QED
    BY <2>3, <2>4, <2>5
<1>4. \A status : PagesWith(Extractions, status) \subseteq PageIds
  BY <1>3 DEF PagesWith
<1>5. 1..urls \subseteq PageIds
  BY PipelineAssumption DEF PageIds
<1> QED
  BY <1>1, <1>2, <1>4, <1>5 DEF Counts, Details

(* What such a step has to show: everything else follows.                  *)
LEMMA QuietStep ==
  ASSUME RunInv, UNCHANGED <<urls, pages, poolVars, gateVars, fate>>,
         aborted => aborted', aborted' \in BOOLEAN,
         TypeOK', PlaceSound',
         pc' = pc \/ {pc, pc'} \cap {"fetching", "extracting"} = {},
         exit' = "no-links" => exit = "no-links" /\ attempts' = attempts,
         Extracting' \/ exit' = "fetch-failed" =>
            (Extracting' <=> Extracting) /\ (exit' = "fetch-failed" <=> exit = "fetch-failed"),
         pc' \in Collecting \/ exit' = "completed" => pc \in Collecting \/ exit = "completed",
         exit' = "extraction-failed" => exit = "extraction-failed"
  PROVE  RunInv'
<1> USE DEF RunInv
<1>1. PoolSound' /\ Pool!Busy' = Pool!Busy
  BY PoolSame DEF TypeOK, PoolTyped, Results
<1>2. GateSound' /\ SlotsApart' /\ NothingOutlivesStage'
  BY <1>1 DEF GateSound, SlotsApart, NothingOutlivesStage, gateVars, poolVars
<1>3. FetchSound'
  BY DEF FetchSound, poolVars
<1>4. PagesSound'
  BY DEF PagesSound
<1>5. ExtractSound'
  <2> SUFFICES ASSUME Extracting' PROVE ExtractSound'
    BY DEF ExtractSound
  <2>1. Extracting /\ (pc = "extracting" => pc' = "extracting")
    OBVIOUS
  <2>2. \A i \in DOMAIN items :
          IF results[i] = Hole THEN pc' = "extracting"
          ELSE /\ results[i] \in Extracted
               /\ fate[items[i]] = IF results[i].status = "success"
                                   THEN "extracted" ELSE "barren"
    BY <2>1 DEF ExtractSound
  <2> QED
    BY <2>1, <2>2 DEF ExtractSound, poolVars
<1> QED
  BY <1>1, <1>2, <1>3, <1>4, <1>5

(* Types of the variables a quiet step may change.                         *)
LEMMA QuietTyped ==
  ASSUME RunInv, UNCHANGED <<urls, pages, poolVars, gateVars, history>>,
         pc' \in Places, aborted' \in BOOLEAN, attempts' \in 0..SearchAttempts,
         committed' \in BOOLEAN, exit' \in {"none", "completed"} \cup Degraded,
         outcome' \in Outcomes, details' \in Details
  PROVE  TypeOK'
BY DEF RunInv, TypeOK, Pool!PoolTypeOK, poolVars, gateVars, history

LEMMA CountsKept ==
  ASSUME UNCHANGED <<urls, pages, poolVars>>, NEW how
  PROVE  Counts(how)' = Counts(how)
BY DEF Counts, PagesWith, Extractions, Filled, poolVars

LEMMA QuietActions ==
  ASSUME RunInv,
         \/ UserAborts \/ Begin \/ Preflight \/ SearchHead \/ Collated
         \/ TakeLock \/ Commit \/ AfterCommit \/ Suggested \/ Finish \/ UNCHANGED vars
  PROVE  RunInv'
<1> USE DEF RunInv, TypeOK, stageVars, endVars, history, vars, End
<1>1. CASE UserAborts
  <2>1. TypeOK'
    BY <1>1, QuietTyped DEF UserAborts
  <2>2. PlaceSound'
    BY <1>1, CountsKept DEF UserAborts, PlaceSound, Degraded
  <2> QED
    BY <1>1, <2>1, <2>2, QuietStep DEF UserAborts, Extracting
<1>2. CASE UNCHANGED vars
  <2>1. TypeOK'
    BY <1>2, QuietTyped
  <2>2. PlaceSound'
    BY <1>2, CountsKept DEF PlaceSound, Degraded
  <2> QED
    BY <1>2, <2>1, <2>2, QuietStep DEF Extracting
<1>3. CASE Begin
  <2>1. TypeOK'
    BY <1>3, QuietTyped DEF Begin, Places, Outcomes
  <2>2. PlaceSound'
    BY <1>3 DEF Begin, PlaceSound, Degraded
  <2> QED
    BY <1>3, <2>1, <2>2, QuietStep DEF Begin, Extracting, PlaceSound, Collecting
<1>4. CASE Preflight
  <2>1. TypeOK'
    BY <1>4, QuietTyped DEF Preflight, Places, Outcomes
  <2>2. PlaceSound'
    BY <1>4 DEF Preflight, PlaceSound, Degraded
  <2> QED
    BY <1>4, <2>1, <2>2, QuietStep DEF Preflight, Extracting, PlaceSound, Collecting
<1>5. CASE SearchHead
  <2>1. TypeOK'
    <3>1. attempts' \in 0..SearchAttempts
      BY <1>5, PipelineAssumption DEF SearchHead, PlaceSound
    <3> QED
      BY <1>5, <3>1, QuietTyped DEF SearchHead, Places, Outcomes
  <2>2. PlaceSound'
    BY <1>5 DEF SearchHead, PlaceSound, Degraded
  <2> QED
    BY <1>5, <2>1, <2>2, QuietStep DEF SearchHead, Extracting, PlaceSound, Collecting
<1>6. CASE Collated
  <2>1. TypeOK'
    BY <1>6, QuietTyped DEF Collated, Places, Outcomes
  <2>2. PlaceSound'
    BY <1>6 DEF Collated, PlaceSound, Degraded
  <2> QED
    BY <1>6, <2>1, <2>2, QuietStep DEF Collated, Extracting, PlaceSound, Collecting
<1>7. CASE Commit
  <2>1. TypeOK'
    BY <1>7, QuietTyped DEF Commit, Places, Outcomes
  <2>2. PlaceSound'
    BY <1>7 DEF Commit, PlaceSound, Degraded
  <2> QED
    BY <1>7, <2>1, <2>2, QuietStep DEF Commit, Extracting, PlaceSound, Collecting
<1>8. CASE AfterCommit
  <2>1. TypeOK'
    BY <1>8, QuietTyped DEF AfterCommit, Places, Outcomes
  <2>2. PlaceSound'
    BY <1>8 DEF AfterCommit, PlaceSound, Degraded
  <2> QED
    BY <1>8, <2>1, <2>2, QuietStep DEF AfterCommit, Extracting, PlaceSound, Collecting
<1>9. CASE Suggested
  <2>1. TypeOK'
    BY <1>9, QuietTyped DEF Suggested, Places, Outcomes
  <2>2. PlaceSound'
    BY <1>9 DEF Suggested, PlaceSound, Degraded
  <2> QED
    BY <1>9, <2>1, <2>2, QuietStep DEF Suggested, Extracting, PlaceSound, Collecting
<1>10. CASE Finish
  <2>1. exit \in Degraded \cup {"completed"} /\ outcome = "none"
    BY <1>10 DEF Finish, PlaceSound
  <2>2. TypeOK'
    BY <1>10, <2>1, QuietTyped, CountsTyped DEF Finish, Places, Outcomes
  <2>3. PlaceSound'
    BY <1>10, <2>1, CountsKept DEF Finish, PlaceSound, Degraded
  <2> QED
    BY <1>10, <2>1, <2>2, <2>3, QuietStep DEF Finish, Extracting, Collecting, PlaceSound
<1>11. CASE TakeLock
  <2>1. TypeOK'
    BY <1>11, QuietTyped DEF TakeLock, Places, Outcomes
  <2>2. PlaceSound'
    BY <1>11 DEF TakeLock, PlaceSound, Degraded
  <2> QED
    BY <1>11, <2>1, <2>2, QuietStep DEF TakeLock, Extracting, PlaceSound, Collecting
<1> QED
  BY <1>1, <1>2, <1>3, <1>4, <1>5, <1>6, <1>7, <1>8, <1>9, <1>10, <1>11

----------------------------------------------------------------------------
(* The search call.                                                        *)

LEMMA Numbers ==
  ASSUME NEW n \in 1..MaxUrls
  PROVE  LET list == [i \in 1..n |-> i] IN
         list \in Seq(PageIds) /\ list # <<>> /\ Increasing(list)
<1> DEFINE list == [i \in 1..n |-> i]
<1>1. n \in Nat /\ list \in [1..n -> PageIds]
  BY PipelineAssumption DEF PageIds
<1>2. list \in Seq(PageIds) /\ Len(list) = n /\ DOMAIN list = 1..n
  BY <1>1, SegmentIsSeq
<1>3. list # <<>>
  BY <1>2, EmptySeq
<1>4. Increasing(list)
  BY <1>2 DEF Increasing
<1> QED
  BY <1>2, <1>3, <1>4

(* The answer, and what it leaves of the pool and the gate.                 *)
LEMMA SearchQuiet ==
  ASSUME RunInv, SearchAnswered, UNCHANGED poolVars, UNCHANGED details,
         urls' \in 0..MaxUrls, pc' \in {"pause", "ended", "degrading"},
         exit' \in {"none", "no-links"},
         exit' = "no-links" => urls' = 0 /\ attempts = SearchAttempts,
         pc' = "degrading" <=> exit' = "no-links",
         pc' = "pause" => attempts # SearchAttempts,
         IF pc' = "ended" THEN outcome' \in {"aborted", "error"} ELSE outcome' = outcome,
         outcome' = "aborted" => aborted
  PROVE  RunInv'
<1> USE DEF RunInv, history, gateVars
<1>1. /\ pc = "searching" /\ exit = "none" /\ outcome = "none" /\ ~committed
      /\ UNCHANGED <<aborted, attempts, committed, history, pages, gateVars>>
  BY DEF SearchAnswered, SearchGives, CallFails, PlaceSound
<1>2. TypeOK'
  BY <1>1 DEF TypeOK, Pool!PoolTypeOK, poolVars, Places, Outcomes, Degraded
<1>3. PoolSound' /\ Pool!Busy' = Pool!Busy
  BY <1>1, PoolSame DEF TypeOK, PoolTyped, Results
<1>4. GateSound' /\ SlotsApart' /\ NothingOutlivesStage'
  BY <1>1, <1>3 DEF GateSound, SlotsApart, NothingOutlivesStage, poolVars
<1>5. PlaceSound'
  BY <1>1, PipelineAssumption DEF PlaceSound, TypeOK, Degraded
<1>6. FetchSound' /\ PagesSound' /\ ExtractSound'
  BY <1>1 DEF FetchSound, PagesSound, ExtractSound, Extracting, Collecting
<1> QED
  BY <1>2, <1>3, <1>4, <1>5, <1>6

LEMMA SearchKeepsInv == ASSUME RunInv, SearchAnswered PROVE RunInv'
<1> USE DEF RunInv, history, gateVars
<1>1. /\ pc = "searching" /\ exit = "none" /\ outcome = "none" /\ ~committed
      /\ UNCHANGED <<aborted, attempts, committed, history, pages, gateVars>>
  BY DEF SearchAnswered, SearchGives, CallFails, PlaceSound
<1>2. CASE CallFails
  BY <1>1, <1>2, SearchQuiet DEF CallFails, End, TypeOK
<1>3. ASSUME NEW n \in 0..MaxUrls, SearchGives(n) PROVE RunInv'
  <2>1. CASE UNCHANGED poolVars /\ pc' # "fetching"
    BY <1>1, <1>3, <2>1, SearchQuiet, Zenon DEF SearchGives, End, Degrade, LastAttempt, endVars
  <2>2. CASE /\ n > 0 /\ ~aborted /\ pc' = "fetching" /\ UNCHANGED <<exit, endVars>>
             /\ Pool!Start([i \in 1..n |-> i], FetchConcurrency)
    <3>1. /\ PoolTyped' /\ PoolSound' /\ doing' # <<>> /\ Pool!Busy' = DOMAIN doing'
          /\ items' = [i \in 1..n |-> i] /\ results' = [i \in 1..n |-> Hole]
      <4>1. /\ [i \in 1..n |-> i] \in Seq(PageIds) /\ [i \in 1..n |-> i] # <<>>
            /\ Increasing([i \in 1..n |-> i])
        BY <2>2, Numbers
      <4>2. Len([i \in 1..n |-> i]) = n
        BY <2>2, PipelineAssumption
      <4> QED
        BY <1>1, <2>2, <4>1, <4>2, PoolStart, PipelineAssumption DEF Pool!Start
    <3>2. urls' = n
      BY <1>3 DEF SearchGives
    <3>3. TypeOK'
      BY <1>1, <2>2, <3>1, <3>2 DEF TypeOK, PoolTyped, Results, Places, endVars
    <3>4. GateSound' /\ SlotsApart' /\ NothingOutlivesStage'
      BY <1>1, <2>2 DEF GateSound, SlotsApart, NothingOutlivesStage
    <3>5. PlaceSound'
      BY <1>1, <2>2 DEF PlaceSound, Degraded, endVars
    <3>6. FetchSound'
      BY <1>1, <2>2, <3>1, <3>2 DEF FetchSound
    <3>7. PagesSound' /\ ExtractSound'
      BY <1>1, <2>2 DEF PagesSound, ExtractSound, Extracting, Collecting
    <3> QED
      BY <3>1, <3>3, <3>4, <3>5, <3>6, <3>7
  <2> QED
    BY <1>3, <2>1, <2>2 DEF SearchGives, End, Degrade
<1> QED
  BY <1>2, <1>3 DEF SearchAnswered

----------------------------------------------------------------------------
(* The fetch stage.                                                        *)

LEMMA FetchDoneKeepsInv ==
  ASSUME RunInv, NEW w, FetchDone(w)
  PROVE  RunInv'
<1> USE DEF RunInv
<1>1. /\ pc = "fetching" /\ w \in Pool!Busy /\ exit = "none" /\ outcome = "none"
      /\ UNCHANGED <<pc, aborted, stageVars, gateVars, endVars, called>>
  BY DEF FetchDone, PlaceSound
<1>2. PICK status \in {"success", "error"} :
        /\ Pool!Settle(w, [page |-> Pool!ItemOf(w), status |-> status])
        /\ fate' = [fate EXCEPT ![Pool!ItemOf(w)] =
             IF status = "success" THEN "fetched"
             ELSE IF aborted THEN "cut" ELSE "missed"]
  BY DEF FetchDone
<1> DEFINE p == doing[w]
           result == [page |-> p, status |-> status]
<1>3. p \in 1..urls /\ Pool!ItemOf(w) = p /\ p \in PageIds /\ result \in Fetched
  <2>1. p \in 1..Len(items)
    BY <1>1 DEF TypeOK, Pool!PoolTypeOK, Pool!Busy
  <2>2. Len(items) = urls /\ items = [i \in 1..urls |-> i]
    BY <1>1 DEF FetchSound, TypeOK
  <2> QED
    BY <2>1, <2>2, PipelineAssumption DEF Pool!ItemOf, TypeOK, Fetched, PageIds
<1>4. /\ PoolTyped' /\ PoolSound' /\ items' = items
      /\ results' = [results EXCEPT ![p] = result]
  BY <1>1, <1>2, <1>3, PoolSettle DEF TypeOK, PoolTyped, Results
<1>5. TypeOK'
  <2>1. fate' \in [PageIds -> Fates]
    BY <1>2, <1>3 DEF TypeOK, Fates
  <2> QED
    BY <1>1, <1>4, <2>1 DEF TypeOK, PoolTyped, Results, stageVars, gateVars, endVars
<1>6. GateSound' /\ SlotsApart' /\ NothingOutlivesStage'
  BY <1>1 DEF GateSound, SlotsApart, NothingOutlivesStage, gateVars
<1>7. PlaceSound'
  BY <1>1 DEF PlaceSound, stageVars, endVars, Degraded
<1>8. FetchSound'
  <2>1. \A q \in PageIds : fate'[q] = "cut" => aborted'
    BY <1>1, <1>2, <1>3 DEF FetchSound, TypeOK
  <2>2. ASSUME NEW q \in 1..urls, results'[q] # Hole
        PROVE  /\ results'[q] \in Fetched
               /\ fate'[q] \in IF results'[q].status = "success" THEN {"fetched"}
                               ELSE {"missed", "cut"}
    <3>1. DOMAIN results = 1..urls /\ q \in PageIds
      BY <1>1, PipelineAssumption DEF FetchSound, TypeOK, Pool!PoolTypeOK, PageIds
    <3>2. CASE q = p
      BY <1>2, <1>3, <1>4, <3>1, <3>2 DEF TypeOK
    <3>3. CASE q # p
      BY <1>1, <1>2, <1>3, <1>4, <2>2, <3>1, <3>3 DEF TypeOK, FetchSound
    <3> QED
      BY <3>2, <3>3
  <2> QED
    BY <1>1, <1>4, <2>1, <2>2 DEF FetchSound, stageVars
<1>9. PagesSound' /\ ExtractSound'
  BY <1>1 DEF PagesSound, ExtractSound, Extracting, Collecting, stageVars
<1> QED
  BY <1>4, <1>5, <1>6, <1>7, <1>8, <1>9

(* A pool that is drained and was neither aborted nor left by a worker that *)
(* threw has a result at every index.                                      *)
LEMMA NoHoles ==
  ASSUME RunInv, Pool!Drained, ~aborted
  PROVE  /\ DOMAIN results = 1..Len(items) /\ Len(results) = Len(items)
         /\ \A i \in 1..Len(items) : results[i] # Hole /\ results[i].page = items[i]
         /\ \A status : Filled(status) = results
<1> USE DEF RunInv, TypeOK, Pool!PoolTypeOK
<1>1. DOMAIN results = 1..Len(items) /\ Len(results) = Len(items)
  BY SegmentIsSeq
<1>2. Pool!Busy = {}
  BY DEF Pool!Drained
<1>3. next > Len(items)
  <2>1. doing # <<>> => Len(doing) # 0
    BY EmptySeq
  <2>2. doing # <<>> => 1 \in DOMAIN doing
    BY <2>1
  <2> QED
    BY <1>2, <2>2 DEF PoolSound
<1>4. ASSUME NEW i \in 1..Len(items)
      PROVE  results[i] # Hole /\ results[i].page = items[i]
  <2>1. ~(i >= next) /\ i \in DOMAIN items
    BY <1>3
  <2>2. ~rejected
    BY DEF PoolSound
  <2> QED
    BY <1>2, <2>1, <2>2 DEF PoolSound
<1> QED
  BY <1>1, <1>4 DEF Filled

LEMMA Longer ==
  ASSUME NEW a \in Nat, NEW b \in Nat, NEW c \in Nat, a <= b
  PROVE  a * c <= b * c /\ a * c \in Nat
<1>1. PICK d \in Nat : b = a + d
  BY b - a \in Nat
<1>2. b * c = a * c + d * c
  BY <1>1
<1>3. d * c \in Nat /\ a * c \in Nat
  OBVIOUS
<1> QED
  BY <1>2, <1>3

(* The slots of the calls made in one step.                                 *)
LEMMA SlotsSpaced ==
  ASSUME RunInv
  PROVE  /\ \A k \in Nat \ {0} : Slot(k) \in Nat /\ SlotAfter(k) \in Nat
         /\ \A j, k \in Nat \ {0} : j <= k => Slot(j) + Interval <= SlotAfter(k)
         /\ \A j, k \in Nat \ {0} : j < k => Slot(j) + Interval <= Slot(k)
<1>1. ahead \in Nat /\ Interval \in Nat
  BY PipelineAssumption DEF RunInv, TypeOK
<1>2. ASSUME NEW k \in Nat \ {0} PROVE Slot(k) \in Nat /\ SlotAfter(k) \in Nat
  BY <1>1, k - 1 \in Nat, Longer DEF Slot, SlotAfter
<1>3. ASSUME NEW j \in Nat \ {0}
      PROVE  Slot(j) + Interval = ahead + j * Interval
  <2>1. j * Interval = (j - 1) * Interval + Interval
    BY <1>1
  <2>2. (j - 1) * Interval \in Nat
    BY <1>1, j - 1 \in Nat, Longer
  <2> QED
    BY <1>1, <2>1, <2>2 DEF Slot
<1>4. ASSUME NEW j \in Nat \ {0}, NEW k \in Nat \ {0}, j <= k
      PROVE  Slot(j) + Interval <= SlotAfter(k)
  BY <1>1, <1>3, <1>4, Longer DEF SlotAfter
<1>5. ASSUME NEW j \in Nat \ {0}, NEW k \in Nat \ {0}, j < k
      PROVE  Slot(j) + Interval <= Slot(k)
  <2>1. k - 1 \in Nat /\ j <= k - 1
    BY <1>5
  <2>2. j * Interval <= (k - 1) * Interval
    BY <1>1, <2>1, Longer
  <2>3. j * Interval \in Nat /\ (k - 1) * Interval \in Nat
    BY <1>1, <2>1, Longer
  <2> QED
    BY <1>1, <1>3, <2>2, <2>3 DEF Slot
<1> QED
  BY <1>2, <1>4, <1>5

(* What the filter picks, in the order of the search.                       *)
LEMMA PickedInOrder ==
  ASSUME NEW S \in SUBSET PageIds, S # {}, NEW kept \in InOrder(S)
  PROVE  /\ kept \in Seq(PageIds) /\ kept # <<>> /\ Increasing(kept)
         /\ {kept[i] : i \in DOMAIN kept} = S
<1>1. Cardinality(S) \in Nat
  <2>1. IsFiniteSet(PageIds)
    BY FS_Interval, PipelineAssumption DEF PageIds
  <2> QED
    BY <2>1, FS_Subset, FS_CardinalityType
<1>2. /\ kept \in [1..Cardinality(S) -> S] /\ {kept[i] : i \in DOMAIN kept} = S
      /\ Increasing(kept)
  BY DEF InOrder, Increasing
<1>3. kept \in [1..Cardinality(S) -> PageIds]
  BY <1>2
<1>4. kept \in Seq(PageIds) /\ Len(kept) = Cardinality(S) /\ DOMAIN kept = 1..Len(kept)
  BY <1>1, <1>3, SegmentIsSeq
<1>5. kept # <<>>
  <2>1. PICK i \in DOMAIN kept : TRUE
    BY <1>2
  <2> QED
    BY <1>4, <2>1, EmptySeq
<1> QED
  BY <1>2, <1>4, <1>5

LEMMA FetchOverKeepsInv ==
  ASSUME RunInv, FetchOver
  PROVE  RunInv'
<1> USE DEF RunInv, history
<1>1. /\ pc = "fetching" /\ Pool!Busy = {} /\ exit = "none" /\ outcome = "none"
      /\ ~committed /\ urls > 0 /\ items = [i \in 1..urls |-> i]
      /\ UNCHANGED <<aborted, attempts, urls, committed, history>>
  BY DEF FetchOver, PlaceSound, FetchSound, Pool!Drained
<1>2. CASE aborted
  <2>1. /\ pc' = "ended" /\ outcome' = "aborted"
        /\ UNCHANGED <<details, pages, exit, poolVars, gateVars>>
    BY <1>2 DEF FetchOver, AfterFetch, End
  <2>2. PoolSound' /\ Pool!Busy' = Pool!Busy
    BY <1>1, <2>1, PoolSame DEF TypeOK, PoolTyped, Results
  <2>3. TypeOK'
    BY <1>1, <2>1 DEF TypeOK, Pool!PoolTypeOK, poolVars, gateVars, Places, Outcomes
  <2>4. GateSound' /\ SlotsApart' /\ NothingOutlivesStage'
    BY <1>1, <2>1, <2>2 DEF GateSound, SlotsApart, NothingOutlivesStage, gateVars
  <2>5. PlaceSound' /\ FetchSound' /\ PagesSound' /\ ExtractSound'
    BY <1>1, <1>2, <2>1 DEF PlaceSound, FetchSound, PagesSound, ExtractSound,
                            Extracting, Collecting, Degraded
  <2> QED
    BY <2>2, <2>3, <2>4, <2>5
<1>3. CASE ~aborted
  <2> DEFINE S == Successes(results)
  <2>1. /\ Len(items) = urls /\ DOMAIN results = 1..urls /\ Len(results) = urls
        /\ Filled("error") = results
        /\ \A p \in 1..urls : results[p] # Hole /\ results[p].page = p
    <3>1. Len(items) = urls
      BY <1>1 DEF TypeOK
    <3>2. Pool!Drained
      BY DEF FetchOver
    <3> QED
      BY <1>1, <1>3, <3>1, <3>2, NoHoles
  <2>2. /\ 1..urls \subseteq PageIds
        /\ \A p \in 1..urls : /\ results[p] \in Fetched
                              /\ results[p].status = "error" => fate[p] = "missed"
    <3>1. 1..urls \subseteq PageIds
      BY PipelineAssumption DEF TypeOK, PageIds
    <3> QED
      BY <1>1, <1>3, <2>1, <3>1 DEF FetchSound
  <2>3. pages' = results /\ PickUp(results)
    BY <1>3, <2>1 DEF FetchOver, AfterFetch
  <2>4. pages' \in Seq(Fetched) /\ Len(pages') = urls
    <3>1. urls \in Nat /\ results \in [1..urls -> Fetched]
      BY <2>1, <2>2 DEF TypeOK, Pool!PoolTypeOK
    <3> QED
      BY <2>3, <3>1, SegmentIsSeq
  <2>5. CASE S = {}
    <3>1. /\ pc' = "degrading" /\ exit' = "fetch-failed"
          /\ UNCHANGED <<endVars, poolVars, gateVars>>
      BY <2>3, <2>5 DEF PickUp, Degrade
    <3>2. PoolSound' /\ Pool!Busy' = Pool!Busy
      BY <1>1, <3>1, PoolSame DEF TypeOK, PoolTyped, Results
    <3>3. TypeOK'
      BY <1>1, <2>4, <3>1 DEF TypeOK, Pool!PoolTypeOK, poolVars, gateVars, endVars,
                              Places, Degraded
    <3>4. GateSound' /\ SlotsApart' /\ NothingOutlivesStage'
      BY <1>1, <3>1, <3>2 DEF GateSound, SlotsApart, NothingOutlivesStage, gateVars
    <3>5. PlaceSound' /\ FetchSound' /\ ExtractSound'
      BY <1>1, <3>1 DEF PlaceSound, FetchSound, ExtractSound, endVars,
                        Extracting, Collecting, Degraded
    <3>6. \A p \in 1..urls : results[p].status = "error"
      BY <2>1, <2>2, <2>5 DEF Successes, Fetched
    <3>7. PagesSound'
      BY <1>1, <2>1, <2>2, <2>3, <2>4, <3>6 DEF PagesSound
    <3> QED
      BY <3>2, <3>3, <3>4, <3>5, <3>7
  <2>6. CASE S # {}
    <3>1. PICK kept \in InOrder(S) :
            StartExtract([i \in DOMAIN kept |-> results[kept[i]].page])
      BY <2>3, <2>6 DEF PickUp
    <3>2. UNCHANGED <<exit, endVars>>
      BY <2>3, <2>6 DEF PickUp
    <3>3. /\ kept \in Seq(PageIds) /\ kept # <<>> /\ Increasing(kept)
          /\ {kept[i] : i \in DOMAIN kept} = S
      BY <2>1, <2>2, <2>6, PickedInOrder DEF Successes
    <3>4. [i \in DOMAIN kept |-> results[kept[i]].page] = kept
      <4>1. \A i \in DOMAIN kept : kept[i] \in 1..urls
        BY <2>1, <3>3 DEF Successes
      <4> QED
        BY <2>1, <3>3, <4>1
    <3>5. /\ Pool!Start(kept, ExtractConcurrency) /\ atGate' = DOMAIN doing'
          /\ wait' = [w \in DOMAIN doing' |-> Slot(w)]
          /\ ahead' = SlotAfter(Len(doing')) /\ pc' = "extracting"
      BY <3>1, <3>4 DEF StartExtract
    <3>6. /\ PoolTyped' /\ PoolSound' /\ doing' # <<>> /\ doing' \in Seq(Nat)
          /\ Pool!Busy' = DOMAIN doing'
      BY <1>1, <1>3, <3>3, <3>5, PoolStart, PipelineAssumption
    <3>7. /\ Len(doing') \in Nat \ {0} /\ DOMAIN doing' = 1..Len(doing')
      BY <3>6, EmptySeq
    <3>8. /\ wait' \in Seq(Nat) /\ DOMAIN wait' = DOMAIN doing' /\ ahead' \in Nat
      <4>1. wait' \in [1..Len(doing') -> Nat]
        BY <3>5, <3>7, SlotsSpaced
      <4> QED
        BY <3>5, <3>7, <4>1, SlotsSpaced, SegmentIsSeq
    <3>9. TypeOK'
      BY <1>1, <2>4, <3>2, <3>5, <3>6, <3>8 DEF TypeOK, PoolTyped, Results, endVars, Places
    <3>10. GateSound' /\ NothingOutlivesStage'
      BY <3>5, <3>6, <3>8 DEF GateSound, NothingOutlivesStage
    <3>11. SlotsApart'
      <4>1. \A v \in atGate' : wait'[v] + Interval <= ahead'
        BY <3>5, <3>7, SlotsSpaced
      <4>2. \A v, w \in atGate' : v < w => wait'[v] + Interval <= wait'[w]
        BY <3>5, <3>7, SlotsSpaced
      <4>3. \A v, w \in atGate' : v # w => v < w \/ w < v
        BY <3>5, <3>7
      <4> QED
        BY <4>1, <4>2, <4>3 DEF SlotsApart
    <3>12. PlaceSound' /\ FetchSound'
      BY <1>1, <3>2, <3>5 DEF PlaceSound, FetchSound, endVars, Degraded
    <3>13. PagesSound'
      BY <1>1, <2>1, <2>2, <2>3, <2>4, <3>2 DEF PagesSound
    <3>14. ExtractSound'
      <4>1. items' = kept /\ results' = [i \in 1..Len(kept) |-> Hole]
        BY <3>5 DEF Pool!Start
      <4>2. \A i \in DOMAIN items' : results'[i] = Hole
        BY <3>3, <4>1
      <4>3. {kept[i] : i \in DOMAIN kept} = {p \in 1..urls : results[p].status = "success"}
        BY <2>1, <3>3 DEF Successes
      <4> QED
        BY <1>1, <2>3, <3>2, <3>3, <3>5, <4>1, <4>2, <4>3 DEF ExtractSound, Collecting
    <3> QED
      BY <3>6, <3>9, <3>10, <3>11, <3>12, <3>13, <3>14
  <2> QED
    BY <2>5, <2>6
<1> QED
  BY <1>2, <1>3

----------------------------------------------------------------------------
(* The extract stage: time and the gate.                                   *)

LEMMA TickKeepsInv ==
  ASSUME RunInv, Tick
  PROVE  RunInv'
<1> USE DEF RunInv, Tick, history, stageVars, endVars
<1>1. PoolSound' /\ Pool!Busy' = Pool!Busy
  BY PoolSame DEF TypeOK, PoolTyped, Results
<1>2. /\ wait' \in Seq(Nat) /\ DOMAIN wait' = DOMAIN wait /\ ahead' \in Nat
      /\ \A v \in DOMAIN wait : wait[v] \in Nat
  <2>1. /\ wait \in Seq(Nat) /\ Len(wait) \in Nat /\ DOMAIN wait = 1..Len(wait)
        /\ \A v \in DOMAIN wait : wait[v] \in Nat
    BY DEF TypeOK
  <2>2. wait' \in [1..Len(wait) -> Nat]
    BY <2>1
  <2> QED
    BY <2>1, <2>2, SegmentIsSeq DEF TypeOK
<1>3. TypeOK'
  BY <1>2 DEF TypeOK, Pool!PoolTypeOK, poolVars
<1>4. GateSound' /\ NothingOutlivesStage'
  BY <1>1, <1>2 DEF GateSound, NothingOutlivesStage, poolVars
<1>5. SlotsApart'
  <2>1. \A v \in atGate : v \in DOMAIN wait
    BY DEF TypeOK
  <2>2. Interval \in Nat /\ ahead \in Nat
    BY PipelineAssumption DEF TypeOK
  <2>3. \A v \in atGate : wait'[v] > 0 => wait[v] > 0 /\ wait'[v] = wait[v] - 1
    BY <1>2, <2>1
  <2>4. ahead' = ahead - 1 /\ atGate' = atGate
    OBVIOUS
  <2>5. ASSUME NEW v \in atGate, wait'[v] > 0
        PROVE  wait'[v] + Interval <= ahead'
    BY <1>2, <2>1, <2>2, <2>3, <2>4, <2>5 DEF SlotsApart
  <2>6. ASSUME NEW v \in atGate, wait'[v] > 0, NEW u \in atGate \ {v}, wait'[u] > 0
        PROVE  wait'[v] + Interval <= wait'[u] \/ wait'[u] + Interval <= wait'[v]
    <3>1. wait[v] + Interval <= wait[u] \/ wait[u] + Interval <= wait[v]
      BY <2>3, <2>6 DEF SlotsApart
    <3>2. wait[v] \in Nat /\ wait[u] \in Nat
      BY <1>2, <2>1
    <3> QED
      BY <2>2, <2>3, <2>6, <3>1, <3>2
  <2> QED
    BY <2>4, <2>5, <2>6 DEF SlotsApart
<1>6. PlaceSound' /\ FetchSound' /\ PagesSound'
  <2>1. \A how : Counts(how)' = Counts(how)
    BY CountsKept
  <2> QED
    BY <2>1 DEF PlaceSound, FetchSound, PagesSound, Extracting, Degraded, poolVars
<1>7. ExtractSound'
  BY DEF ExtractSound, Extracting, poolVars
<1> QED
  BY <1>1, <1>3, <1>4, <1>5, <1>6, <1>7

LEMMA PassGateKeepsInv ==
  ASSUME RunInv, NEW w, PassGate(w)
  PROVE  RunInv'
<1> USE DEF RunInv, PassGate, stageVars, endVars
<1>1. PoolSound' /\ Pool!Busy' = Pool!Busy
  BY PoolSame DEF TypeOK, PoolTyped, Results
<1>2. Pool!ItemOf(w) \in PageIds
  <2>1. w \in Pool!Busy
    BY DEF GateSound
  <2>2. doing[w] \in 1..Len(items)
    BY <2>1 DEF Pool!Busy, TypeOK, Pool!PoolTypeOK
  <2> QED
    BY <2>2 DEF Pool!ItemOf, TypeOK, Pool!PoolTypeOK
<1>3. TypeOK'
  BY <1>2 DEF TypeOK, Pool!PoolTypeOK, poolVars
<1>4. GateSound' /\ NothingOutlivesStage' /\ SlotsApart'
  BY <1>1 DEF GateSound, NothingOutlivesStage, SlotsApart, poolVars
<1>5. PlaceSound' /\ FetchSound' /\ PagesSound'
  <2>1. \A how : Counts(how)' = Counts(how)
    BY CountsKept
  <2> QED
    BY <2>1 DEF PlaceSound, FetchSound, PagesSound, Extracting, Degraded, poolVars
<1>6. ExtractSound'
  BY DEF ExtractSound, Extracting, poolVars
<1> QED
  BY <1>1, <1>3, <1>4, <1>5, <1>6

(* What a worker that ends its page in this stage has to show: the pool is *)
(* sound, and the result of the page, if there is one, is its fate.         *)
LEMMA WorkerStep ==
  ASSUME RunInv, pc = "extracting", NEW w \in Pool!Busy,
         UNCHANGED <<pc, aborted, stageVars, endVars, called>>,
         PoolTyped', PoolSound', items' = items,
         wait' \in Seq(Nat), atGate' \subseteq DOMAIN wait', ahead' \in Nat,
         DOMAIN wait' = DOMAIN doing', atGate' \subseteq Pool!Busy', SlotsApart',
         NEW became \in Fates \ {"cut"},
         fate' = [fate EXCEPT ![Pool!ItemOf(w)] = became],
         \/ results' = results
         \/ \E result \in Extracted :
              /\ results' = [results EXCEPT ![doing[w]] = result]
              /\ became = IF result.status = "success" THEN "extracted" ELSE "barren"
  PROVE  RunInv'
<1> USE DEF RunInv, stageVars, endVars
<1> DEFINE k == doing[w]
<1>1. /\ k \in 1..Len(items) /\ items[k] \in PageIds /\ Pool!ItemOf(w) = items[k]
      /\ results[k] = Hole
  BY DEF Pool!Busy, PoolSound, TypeOK, Pool!PoolTypeOK, Pool!ItemOf
<1>2. /\ fate \in [PageIds -> Fates] /\ fate' \in [PageIds -> Fates]
      /\ fate'[items[k]] = became
      /\ \A p \in PageIds : p # items[k] => fate'[p] = fate[p]
  BY <1>1 DEF TypeOK
<1>3. TypeOK'
  BY <1>2 DEF TypeOK, PoolTyped, Results
<1>4. GateSound' /\ NothingOutlivesStage'
  BY DEF GateSound, NothingOutlivesStage
<1>5. PlaceSound' /\ FetchSound'
  BY <1>1, <1>2 DEF PlaceSound, FetchSound, Degraded
<1>6. PagesSound'
  <2>1. urls \in Nat /\ 1..urls \subseteq PageIds
    BY PipelineAssumption DEF TypeOK, PageIds
  <2>2. items[k] \in 1..urls /\ pages[items[k]].status = "success"
    <3>1. k \in DOMAIN items
      BY <1>1 DEF TypeOK, Pool!PoolTypeOK
    <3>2. Extracting
      BY DEF Extracting
    <3>3. {items[i] : i \in DOMAIN items} = {p \in 1..urls : pages[p].status = "success"}
      BY <3>2 DEF ExtractSound
    <3>4. items[k] \in {items[i] : i \in DOMAIN items}
      BY <3>1
    <3> QED
      BY <3>3, <3>4
  <2> QED
    BY <1>2, <2>1, <2>2 DEF PagesSound, Extracting
<1>7. ExtractSound'
  <2>1. DOMAIN items = 1..Len(items) /\ DOMAIN results = 1..Len(items)
    BY DEF TypeOK, Pool!PoolTypeOK
  <2>2. \A i \in DOMAIN items : i # k => items[i] # items[k] /\ items[i] \in PageIds
    <3>1. \A i \in DOMAIN items : items[i] \in PageIds /\ items[i] \in Nat
      <4>1. \A i \in DOMAIN items : items[i] \in PageIds
        BY DEF TypeOK, Pool!PoolTypeOK
      <4>2. PageIds \subseteq Nat
        BY PipelineAssumption DEF PageIds
      <4> QED
        BY <4>1, <4>2
    <3>2. \A i \in DOMAIN items : i # k => i < k \/ k < i
      BY <1>1, <2>1
    <3> QED
      BY <1>1, <2>1, <3>1, <3>2 DEF PoolSound
  <2>3. ASSUME NEW i \in DOMAIN items
        PROVE  IF results'[i] = Hole THEN pc = "extracting"
               ELSE /\ results'[i] \in Extracted
                    /\ fate'[items[i]] = IF results'[i].status = "success"
                                         THEN "extracted" ELSE "barren"
    <3>1. CASE i = k
      BY <1>1, <1>2, <2>1, <3>1
    <3>2. CASE i # k
      <4>1. results'[i] = results[i] /\ fate'[items[i]] = fate[items[i]]
        BY <1>2, <2>1, <2>2, <3>2
      <4> QED
        BY <4>1 DEF ExtractSound, Extracting
    <3> QED
      BY <3>1, <3>2
  <2>4. exit = "none"
    BY DEF PlaceSound
  <2> QED
    BY <2>3, <2>4 DEF ExtractSound, Extracting, Collecting
<1> QED
  BY <1>3, <1>4, <1>5, <1>6, <1>7

LEMMA GateAbortedKeepsInv ==
  ASSUME RunInv, NEW w, GateAborted(w)
  PROVE  RunInv'
<1> USE DEF RunInv, GateAborted
<1>1. w \in Pool!Busy /\ DOMAIN wait = DOMAIN doing /\ atGate \subseteq Pool!Busy
  BY DEF GateSound
<1>2. /\ PoolTyped' /\ PoolSound' /\ DOMAIN doing' = DOMAIN doing
      /\ \A v \in DOMAIN doing \ {w} : doing'[v] = doing[v]
      /\ UNCHANGED <<items, next, results>>
  BY <1>1, PoolThrow DEF TypeOK, PoolTyped, Results
<1>3. atGate' \subseteq Pool!Busy' /\ DOMAIN wait' = DOMAIN doing'
  BY <1>1, <1>2 DEF Pool!Busy
<1>4. SlotsApart'
  BY DEF SlotsApart
<1>5. wait' \in Seq(Nat) /\ ahead' \in Nat /\ atGate' \subseteq DOMAIN wait'
  BY DEF TypeOK
<1>6. "dropped" \in Fates \ {"cut"}
  BY DEF Fates
<1> QED
  BY <1>1, <1>2, <1>3, <1>4, <1>5, <1>6, WorkerStep

(* A worker that goes on to the gate, or ends.                              *)
LEMMA ToGateIsSafe ==
  ASSUME RunInv, pc = "extracting", NEW w \in Pool!Busy \ atGate, ToGate(w),
         DOMAIN doing' = DOMAIN doing,
         \A v \in DOMAIN doing \ {w} : doing'[v] = doing[v]
  PROVE  /\ wait' \in Seq(Nat) /\ atGate' \subseteq DOMAIN wait' /\ ahead' \in Nat
         /\ DOMAIN wait' = DOMAIN doing' /\ atGate' \subseteq Pool!Busy' /\ SlotsApart'
<1> USE DEF RunInv
<1>1. w \in Pool!Busy /\ DOMAIN wait = DOMAIN doing /\ atGate \subseteq Pool!Busy
  BY DEF GateSound
<1>2. CASE doing'[w] = 0
  BY <1>1, <1>2 DEF ToGate, gateVars, TypeOK, SlotsApart, Pool!Busy
<1>3. CASE doing'[w] # 0
  <2>1. /\ atGate' = atGate \cup {w} /\ wait' = [wait EXCEPT ![w] = Slot(1)]
        /\ ahead' = SlotAfter(1)
    BY <1>3 DEF ToGate
  <2>2. /\ Slot(1) = ahead /\ SlotAfter(1) = ahead + Interval
        /\ ahead \in Nat /\ Interval \in Nat
    BY PipelineAssumption DEF Slot, SlotAfter, TypeOK
  <2>3. wait' \in Seq(Nat) /\ DOMAIN wait' = DOMAIN wait
    BY <1>1, <2>1, <2>2 DEF TypeOK, Pool!Busy
  <2>4. atGate' \subseteq Pool!Busy'
    BY <1>1, <1>3, <2>1 DEF Pool!Busy
  <2>5. SlotsApart'
    <3>1. /\ wait'[w] = ahead /\ ahead' = ahead + Interval
          /\ \A v \in atGate : wait'[v] = wait[v] /\ wait[v] \in Nat
      BY <1>1, <2>1, <2>2 DEF Pool!Busy, TypeOK
    <3>2. \A v \in atGate : wait'[v] > 0 => wait'[v] + Interval <= ahead
      BY <3>1 DEF SlotsApart
    <3>3. \A v \in atGate' : wait'[v] > 0 => wait'[v] + Interval <= ahead'
      BY <2>1, <2>2, <3>1, <3>2
    <3>4. ASSUME NEW v \in atGate', NEW u \in atGate' \ {v}, wait'[v] > 0, wait'[u] > 0
          PROVE  wait'[v] + Interval <= wait'[u] \/ wait'[u] + Interval <= wait'[v]
      BY <2>1, <3>1, <3>2, <3>4 DEF SlotsApart
    <3> QED
      BY <3>3, <3>4 DEF SlotsApart
  <2> QED
    BY <1>1, <2>2, <2>1, <2>3, <2>4, <2>5 DEF Pool!Busy
<1> QED
  BY <1>2, <1>3

LEMMA ExtractDoneKeepsInv ==
  ASSUME RunInv, NEW w, ExtractDone(w)
  PROVE  RunInv'
<1> USE DEF RunInv
<1>1. /\ pc = "extracting" /\ w \in Pool!Busy \ atGate
      /\ UNCHANGED <<pc, aborted, stageVars, endVars, called>>
  BY DEF ExtractDone
<1>2. DOMAIN wait = DOMAIN doing /\ atGate \subseteq Pool!Busy
  BY <1>1 DEF GateSound
<1>3. ASSUME NEW status \in {"success", "failed"},
             Pool!Settle(w, [page |-> Pool!ItemOf(w), status |-> status]),
             ToGate(w),
             fate' = [fate EXCEPT ![Pool!ItemOf(w)] =
                        IF status = "success" THEN "extracted" ELSE "barren"]
      PROVE  RunInv'
  <2> DEFINE result == [page |-> Pool!ItemOf(w), status |-> status]
             became == IF status = "success" THEN "extracted" ELSE "barren"
  <2>1. Pool!ItemOf(w) \in PageIds
    BY <1>1 DEF Pool!Busy, TypeOK, Pool!PoolTypeOK, Pool!ItemOf
  <2>2. result \in Extracted /\ result \in Results /\ became \in Fates \ {"cut"}
        /\ result.status = status
    BY <2>1 DEF Extracted, Results, Fates
  <2>3. /\ PoolTyped' /\ PoolSound' /\ DOMAIN doing' = DOMAIN doing
        /\ \A v \in DOMAIN doing \ {w} : doing'[v] = doing[v]
        /\ results' = [results EXCEPT ![doing[w]] = result] /\ items' = items
    BY <1>1, <1>3, <2>2, PoolSettle DEF TypeOK, PoolTyped, Results
  <2>4. /\ wait' \in Seq(Nat) /\ atGate' \subseteq DOMAIN wait' /\ ahead' \in Nat
        /\ DOMAIN wait' = DOMAIN doing' /\ atGate' \subseteq Pool!Busy' /\ SlotsApart'
    BY <1>1, <1>3, <2>3, ToGateIsSafe
  <2>5. became = IF result.status = "success" THEN "extracted" ELSE "barren"
    OBVIOUS
  <2> HIDE DEF result, became
  <2> QED
    BY <1>1, <1>3, <2>2, <2>3, <2>4, <2>5, WorkerStep DEF became
<1>4. ASSUME aborted, Pool!Throw(w), UNCHANGED gateVars,
             fate' = [fate EXCEPT ![Pool!ItemOf(w)] = "dropped"]
      PROVE  RunInv'
  <2>1. /\ PoolTyped' /\ PoolSound' /\ DOMAIN doing' = DOMAIN doing
        /\ \A v \in DOMAIN doing \ {w} : doing'[v] = doing[v]
        /\ UNCHANGED <<items, next, results>>
    BY <1>1, <1>4, PoolThrow DEF TypeOK, PoolTyped, Results
  <2>2. atGate' \subseteq Pool!Busy' /\ DOMAIN wait' = DOMAIN doing'
    BY <1>1, <1>2, <1>4, <2>1 DEF Pool!Busy, gateVars
  <2>3. /\ SlotsApart' /\ wait' \in Seq(Nat) /\ ahead' \in Nat
        /\ atGate' \subseteq DOMAIN wait'
    BY <1>4 DEF SlotsApart, TypeOK, gateVars
  <2>4. "dropped" \in Fates \ {"cut"}
    BY DEF Fates
  <2> QED
    BY <1>1, <1>4, <2>1, <2>2, <2>3, <2>4, WorkerStep
<1> QED
  BY <1>3, <1>4 DEF ExtractDone

LEMMA ExtractOverKeepsInv ==
  ASSUME RunInv, ExtractOver
  PROVE  RunInv'
<1> USE DEF RunInv, ExtractOver, history
<1>1. exit = "none" /\ outcome = "none" /\ ~committed /\ Pool!Busy = {}
  BY DEF PlaceSound, Pool!Drained
<1>2. PoolSound' /\ Pool!Busy' = Pool!Busy
  BY PoolSame DEF TypeOK, PoolTyped, Results
<1>3. TypeOK'
  BY <1>1 DEF TypeOK, Pool!PoolTypeOK, poolVars, gateVars, endVars, AfterExtract, End,
              Degrade, Places, Outcomes, Degraded
<1>4. SlotsApart'
  BY DEF SlotsApart, gateVars
<1>5. NothingOutlivesStage'
  BY <1>1, <1>2 DEF NothingOutlivesStage
<1>6. atGate' = {}
  BY <1>1 DEF GateSound, gateVars
<1>7. CASE aborted \/ rejected
  <2>1. aborted /\ pc' = "ended" /\ outcome' = "aborted" /\ UNCHANGED <<exit, details>>
    BY <1>7 DEF AfterExtract, End, PoolSound
  <2>2. PlaceSound' /\ FetchSound' /\ PagesSound' /\ ExtractSound'
    BY <1>1, <2>1 DEF PlaceSound, FetchSound, PagesSound, ExtractSound,
                      Extracting, Collecting, Degraded
  <2> QED
    BY <1>2, <1>3, <1>4, <1>5, <1>6, <2>1, <2>2 DEF GateSound
<1>8. CASE ~aborted /\ ~rejected
  <2>1. /\ DOMAIN results = 1..Len(items) /\ Extractions = results
        /\ DOMAIN items = 1..Len(items)
        /\ \A i \in DOMAIN items : results[i] # Hole
    BY <1>8, NoHoles DEF Extractions, TypeOK, Pool!PoolTypeOK
  <2>2. /\ \/ /\ Successes(results) = {} /\ pc' = "degrading"
              /\ exit' = "extraction-failed"
           \/ /\ Successes(results) # {} /\ pc' = "collating"
              /\ exit' = exit
        /\ UNCHANGED endVars
    BY <1>8, <2>1 DEF AfterExtract, Degrade
  <2>3. PlaceSound' /\ FetchSound' /\ PagesSound'
    BY <1>1, <2>2 DEF PlaceSound, FetchSound, PagesSound, endVars, Extracting,
                      Collecting, Degraded, TypeOK
  <2>4. ExtractSound'
    <3>1. \A i \in DOMAIN items :
            /\ results[i] \in Extracted
            /\ fate[items[i]] = IF results[i].status = "success"
                                THEN "extracted" ELSE "barren"
            /\ results[i].status # "success" => results[i].status = "failed"
      BY <2>1 DEF ExtractSound, Extracting, Extracted
    <3>2. CASE Successes(results) = {} /\ exit' = "extraction-failed" /\ pc' = "degrading"
      <4>1. \A i \in DOMAIN items : results[i].status = "failed"
        BY <2>1, <3>1, <3>2 DEF Successes
      <4> QED
        BY <2>1, <3>1, <3>2, <4>1 DEF ExtractSound, Extracting, Collecting, poolVars
    <3>3. CASE Successes(results) # {} /\ exit' = exit /\ pc' = "collating"
      <4>1. \E i \in DOMAIN items : results[i].status = "success"
        BY <2>1, <3>3 DEF Successes
      <4> QED
        BY <1>1, <2>1, <3>1, <3>3, <4>1 DEF ExtractSound, Extracting, Collecting, poolVars
    <3> QED
      BY <2>2, <3>2, <3>3
  <2> QED
    BY <1>2, <1>3, <1>4, <1>5, <1>6, <2>2, <2>3, <2>4 DEF GateSound
<1> QED
  BY <1>7, <1>8

----------------------------------------------------------------------------
(* The invariant is inductive.                                             *)
LEMMA NextKeepsRunInv == RunInv /\ [Next]_vars => RunInv'
<1> SUFFICES ASSUME RunInv, [Next]_vars PROVE RunInv'
  OBVIOUS
<1>1. CASE \/ UserAborts \/ Begin \/ Preflight \/ SearchHead \/ Collated
           \/ TakeLock \/ Commit \/ AfterCommit \/ Suggested \/ Finish \/ UNCHANGED vars
  BY <1>1, QuietActions
<1>2. CASE SearchAnswered
  BY <1>2, SearchKeepsInv
<1>3. CASE FetchOver
  BY <1>3, FetchOverKeepsInv
<1>4. CASE ExtractOver
  BY <1>4, ExtractOverKeepsInv
<1>5. CASE Tick
  BY <1>5, TickKeepsInv
<1>6. ASSUME NEW w \in DOMAIN doing, Worker(w) PROVE RunInv'
  BY <1>6, FetchDoneKeepsInv, PassGateKeepsInv, GateAbortedKeepsInv,
     ExtractDoneKeepsInv DEF Worker
<1> QED
  BY <1>1, <1>2, <1>3, <1>4, <1>5, <1>6 DEF Next, Stage, Done

LEMMA RunInvHolds == Spec => []RunInv
BY InitRunInv, NextKeepsRunInv, PTL DEF Spec

(* The variables of a run keep to their types.                              *)
THEOREM TypeCorrect == Spec => []TypeOK
<1>1. RunInv => TypeOK
  BY DEF RunInv
<1> QED
  BY <1>1, RunInvHolds, PTL

(* No request of a run outlives the stage that started it: the pool reports *)
(* only when every worker has ended, also when one of them threw.           *)
THEOREM PoolIsDrained == Spec => []NothingOutlivesStage
<1>1. RunInv => NothingOutlivesStage
  BY DEF RunInv
<1> QED
  BY <1>1, RunInvHolds, PTL

(* The limiter hands out slots a whole interval apart, however many calls   *)
(* come to it at once and whenever they come.                               *)
THEOREM SlotsCorrect == Spec => []SlotsApart
<1>1. RunInv => SlotsApart
  BY DEF RunInv
<1> QED
  BY <1>1, RunInvHolds, PTL

----------------------------------------------------------------------------
(* A run that reached its fetched pages and has returned: where each page   *)
(* of the search is, in the page list, in the extractions and in its fate.  *)
LEMMA ReturnedPages ==
  ASSUME RunInv, outcome \in {"fetch-failed", "extraction-failed", "completed"}
  PROVE  /\ urls \in Nat \ {0} /\ outcome = exit /\ details = Counts(exit)
         /\ DOMAIN pages = 1..urls
         /\ \A p \in 1..urls :
              /\ pages[p].page = p /\ pages[p].status \in {"success", "error"}
              /\ pages[p].status = "error" => fate[p] = "missed"
              /\ pages[p].status = "success" => fate[p] \in {"extracted", "barren"}
<1> USE DEF RunInv
<1>1. /\ outcome = exit /\ details = Counts(exit) /\ pc = "ended"
      /\ exit \in {"fetch-failed", "extraction-failed", "completed"}
  BY DEF PlaceSound, Degraded
<1>2. /\ urls \in Nat \ {0} /\ Len(pages) = urls /\ DOMAIN pages = 1..urls
      /\ \A p \in 1..urls : /\ pages[p].page = p
                            /\ pages[p].status = "error" => fate[p] = "missed"
                            /\ exit = "fetch-failed" => pages[p].status = "error"
  <2>1. Extracting \/ exit = "fetch-failed"
    BY <1>1 DEF Extracting
  <2>2. urls \in Nat /\ pages \in Seq(Fetched)
    BY PipelineAssumption DEF TypeOK
  <2> QED
    BY <2>1, <2>2 DEF PagesSound
<1>3. \A p \in 1..urls : pages[p].status \in {"success", "error"}
  <2>1. \A p \in 1..urls : pages[p] \in Fetched
    BY <1>2 DEF TypeOK
  <2> QED
    BY <2>1 DEF Fetched
<1>4. ASSUME NEW p \in 1..urls, pages[p].status = "success"
      PROVE  fate[p] \in {"extracted", "barren"}
  <2>1. Extracting
    BY <1>1, <1>2, <1>4 DEF Extracting
  <2>2. PICK i \in DOMAIN items : items[i] = p
    BY <1>4, <2>1 DEF ExtractSound
  <2> QED
    BY <1>1, <2>1, <2>2 DEF ExtractSound
<1> QED
  BY <1>1, <1>2, <1>3, <1>4

(* The extractions of such a run: one for each fetched page.                *)
LEMMA ReturnedExtractions ==
  ASSUME RunInv, outcome \in {"extraction-failed", "completed"}
  PROVE  /\ items # <<>> /\ DOMAIN items = 1..Len(items) /\ Extractions = results
         /\ DOMAIN results = DOMAIN items
         /\ {items[i] : i \in DOMAIN items} = {p \in 1..urls : pages[p].status = "success"}
         /\ \A i \in DOMAIN items :
              /\ results[i].page = items[i]
              /\ results[i].status \in {"success", "failed"}
              /\ fate[items[i]] = IF results[i].status = "success"
                                  THEN "extracted" ELSE "barren"
<1> USE DEF RunInv
<1>1. pc = "ended" /\ exit \in {"extraction-failed", "completed"}
  BY DEF PlaceSound, Degraded
<1>2. Extracting
  BY <1>1 DEF Extracting
<1>3. /\ DOMAIN items = 1..Len(items) /\ Len(items) \in Nat
      /\ DOMAIN results = 1..Len(items)
      /\ Len(results) = Len(items)
  BY SegmentIsSeq DEF TypeOK, Pool!PoolTypeOK
<1>4. \A i \in DOMAIN items : results[i] # Hole /\ results[i] \in Extracted
  BY <1>1, <1>2 DEF ExtractSound
<1>5. Extractions = results
  BY <1>3, <1>4 DEF Extractions, Filled, TypeOK, Pool!PoolTypeOK
<1>6. \A i \in DOMAIN items : /\ results[i].page = items[i]
                             /\ results[i].status \in {"success", "failed"}
  BY <1>4 DEF PoolSound, Extracted
<1> QED
  BY <1>1, <1>2, <1>3, <1>5, <1>6 DEF ExtractSound

(* The outcome of a run is the one it earned (OutcomeDeserved).             *)
THEOREM OutcomeCorrect == Spec => []OutcomeDeserved
<1>1. ASSUME RunInv PROVE OutcomeDeserved
  <2> USE DEF RunInv
  <2>1. outcome = "no-links" => urls = 0 /\ attempts = SearchAttempts
    BY <1>1 DEF PlaceSound, FetchSound, Degraded
  <2>2. outcome \in Degraded => ~committed
    BY <1>1 DEF PlaceSound
  <2>3. outcome = "aborted" => aborted
    BY <1>1 DEF PlaceSound
  <2>4. ASSUME outcome = "fetch-failed"
        PROVE  urls > 0 /\ \A p \in 1..urls : fate[p] = "missed"
    BY <1>1, <2>4, ReturnedPages DEF PagesSound
  <2>5. ASSUME outcome \in {"extraction-failed", "completed"}
        PROVE  /\ \A p \in 1..urls : fate[p] \in {"missed", "barren", "extracted"}
               /\ outcome = "extraction-failed" =>
                    /\ \A p \in 1..urls : fate[p] \in {"missed", "barren"}
                    /\ \E p \in 1..urls : fate[p] = "barren"
               /\ outcome = "completed" =>
                    committed /\ \E p \in 1..urls : fate[p] = "extracted"
    <3>1. \A p \in 1..urls : fate[p] \in {"missed", "barren", "extracted"}
      BY <1>1, <2>5, ReturnedPages
    <3>2. /\ outcome = exit /\ pc = "ended" /\ Extracting
          /\ outcome = "completed" => committed
      BY <1>1, <2>5 DEF PlaceSound, Extracting, Degraded
    <3>3. /\ \A i \in DOMAIN items : items[i] \in 1..urls
          /\ \A p \in 1..urls : pages[p].status = "success" =>
               \E i \in DOMAIN items : items[i] = p
      BY <1>1, <2>5, ReturnedExtractions
    <3>4. ASSUME outcome = "completed" PROVE \E p \in 1..urls : fate[p] = "extracted"
      <4>1. PICK i \in DOMAIN items : results[i].status = "success"
        BY <1>1, <3>2, <3>4 DEF ExtractSound
      <4>2. fate[items[i]] = "extracted"
        BY <1>1, <2>5, <4>1, ReturnedExtractions
      <4> QED
        BY <3>3, <4>2
    <3>5. ASSUME outcome = "extraction-failed"
          PROVE  /\ \A p \in 1..urls : fate[p] \in {"missed", "barren"}
                 /\ \E p \in 1..urls : fate[p] = "barren"
      <4>1. \A i \in DOMAIN items : results[i].status = "failed"
        BY <1>1, <3>2, <3>5 DEF ExtractSound
      <4>2. \A i \in DOMAIN items : fate[items[i]] = "barren"
        BY <1>1, <2>5, <4>1, ReturnedExtractions
      <4>3. \E i \in DOMAIN items : TRUE
        <5>1. items \in Seq(PageIds) /\ items # <<>>
          BY <1>1, <3>2 DEF TypeOK, Pool!PoolTypeOK, ExtractSound
        <5>2. Len(items) # 0 /\ Len(items) \in Nat
          BY <5>1, EmptySeq
        <5>3. 1 \in DOMAIN items
          BY <1>1, <2>5, <5>2, ReturnedExtractions
        <5> QED
          BY <5>3
      <4>4. \A p \in 1..urls : fate[p] \in {"missed", "barren"}
        BY <1>1, <2>5, <3>3, <4>2, ReturnedPages
      <4> QED
        BY <3>3, <4>2, <4>3, <4>4
    <3> QED
      BY <3>1, <3>2, <3>4, <3>5
  <2> QED
    BY <2>1, <2>2, <2>3, <2>4, <2>5 DEF OutcomeDeserved
<1> QED
  BY <1>1, RunInvHolds, PTL

(* The counts of a result account for every page (PagesAccounted).          *)
THEOREM CountsCorrect == Spec => []PagesAccounted
<1>1. ASSUME RunInv, outcome \in {"fetch-failed", "extraction-failed", "completed"}
      PROVE  LET with(fates) == {p \in 1..urls : fate[p] \in fates} IN
             /\ details.searched = 1..urls
             /\ details.fetched = with({"extracted", "barren"})
             /\ details.pagesFailed = with({"missed"})
             /\ details.extractionFailed = with({"barren"})
             /\ outcome # "fetch-failed" =>
                  /\ PagesWith(Extractions, "success") = with({"extracted"})
                  /\ \A i, j \in DOMAIN Extractions :
                       i < j => Extractions[i].page < Extractions[j].page
  <2> DEFINE with(fates) == {p \in 1..urls : fate[p] \in fates}
  <2>1. /\ outcome = exit /\ details = Counts(exit) /\ DOMAIN pages = 1..urls
        /\ \A p \in 1..urls :
              /\ pages[p].page = p /\ pages[p].status \in {"success", "error"}
              /\ pages[p].status = "error" => fate[p] = "missed"
              /\ pages[p].status = "success" => fate[p] \in {"extracted", "barren"}
    BY <1>1, ReturnedPages
  <2>2. /\ PagesWith(pages, "success") = {p \in 1..urls : pages[p].status = "success"}
        /\ PagesWith(pages, "error") = {p \in 1..urls : pages[p].status = "error"}
    BY <2>1 DEF PagesWith
  <2>3. /\ PagesWith(pages, "success") = with({"extracted", "barren"})
        /\ PagesWith(pages, "error") = with({"missed"})
    BY <2>1, <2>2
  <2>4. /\ details.searched = 1..urls
        /\ details.fetched = PagesWith(pages, "success")
        /\ details.pagesFailed = PagesWith(pages, "error")
        /\ details.extractionFailed = IF outcome = "fetch-failed" THEN {}
                                      ELSE PagesWith(Extractions, "failed")
    BY <1>1, <2>1 DEF Counts
  <2>5. ASSUME outcome # "fetch-failed"
        PROVE  /\ PagesWith(Extractions, "success") = with({"extracted"})
               /\ PagesWith(Extractions, "failed") = with({"barren"})
               /\ \A i, j \in DOMAIN Extractions :
                    i < j => Extractions[i].page < Extractions[j].page
    <3>1. /\ Extractions = results /\ DOMAIN results = DOMAIN items
          /\ {items[i] : i \in DOMAIN items} = {p \in 1..urls : pages[p].status = "success"}
          /\ \A i \in DOMAIN items :
              /\ results[i].page = items[i]
              /\ results[i].status \in {"success", "failed"}
              /\ fate[items[i]] = IF results[i].status = "success"
                                  THEN "extracted" ELSE "barren"
      BY <1>1, <2>5, ReturnedExtractions
    <3>2. \A status : PagesWith(results, status) =
                        {items[i] : i \in {j \in DOMAIN items : results[j].status = status}}
      BY <3>1 DEF PagesWith
    <3>3. \A p \in 1..urls : fate[p] \in {"extracted", "barren"} =>
            \E i \in DOMAIN items : items[i] = p
      BY <2>1, <3>1
    <3>4. \A i \in DOMAIN items : items[i] \in 1..urls
      BY <3>1
    <3>5. PagesWith(results, "success") = with({"extracted"})
      BY <3>1, <3>2, <3>3, <3>4
    <3>6. PagesWith(results, "failed") = with({"barren"})
      BY <3>1, <3>2, <3>3, <3>4
    <3>7. \A i, j \in DOMAIN items : i < j => items[i] < items[j]
      BY <1>1 DEF RunInv, PoolSound
    <3> QED
      BY <3>1, <3>5, <3>6, <3>7
  <2>6. outcome = "fetch-failed" => with({"barren"}) = {}
    BY <1>1, <2>1 DEF RunInv, PagesSound
  <2> QED
    BY <1>1, <2>3, <2>4, <2>5, <2>6
<1>2. RunInv => PagesAccounted
  BY <1>1 DEF PagesAccounted
<1> QED
  BY <1>2, RunInvHolds, PTL

(* Once aborted the run starts nothing, and ends as aborted or with the    *)
(* error of the call of its own that was under way (AbortStopsWork).       *)
THEOREM AbortCorrect == Spec => AbortStopsWork
<1> DEFINE Starts ==
      /\ attempts' = attempts /\ next' = next /\ called' = called
      /\ pc # "locked" => committed' = committed
      /\ \A place \in {"collating", "locked", "suggesting", "degrading"} :
           pc' = place => pc = place
      /\ pc \in {"pause", "fetching", "extracting"}
           => outcome' \in {"none", "aborted"}
      /\ pc \in {"searching", "collating"}
           => outcome' \in {"none", "aborted", "error"}
<1>1. ASSUME RunInv, [Next]_vars, aborted PROVE Starts
  <2> USE DEF vars, stageVars, poolVars, gateVars, endVars, history, End
  <2>1. pc # "ended" => outcome = "none"
    BY <1>1 DEF RunInv, PlaceSound
  <2>2. CASE UserAborts \/ Begin \/ Preflight \/ SearchHead \/ UNCHANGED vars
    BY <1>1, <2>1, <2>2 DEF UserAborts, Begin, Preflight, SearchHead
  <2>3. CASE SearchAnswered
    BY <1>1, <2>1, <2>3 DEF SearchAnswered, SearchGives, CallFails
  <2>4. CASE Collated \/ TakeLock \/ Commit \/ AfterCommit \/ Suggested \/ Finish
    BY <1>1, <2>1, <2>4 DEF Collated, TakeLock, Commit, AfterCommit,
                            Suggested, Finish
  <2>5. CASE FetchOver \/ ExtractOver
    BY <1>1, <2>1, <2>5 DEF FetchOver, AfterFetch, ExtractOver, AfterExtract
  <2>6. CASE Tick
    BY <1>1, <2>1, <2>6 DEF Tick
  <2>7. ASSUME NEW w \in DOMAIN doing, Worker(w) PROVE Starts
    <3>1. CASE FetchDone(w)
      BY <1>1, <2>1, <3>1 DEF FetchDone, Pool!Settle, Pool!Onward
    <3>2. CASE PassGate(w)
      BY <1>1, <3>2 DEF PassGate
    <3>3. CASE GateAborted(w)
      BY <1>1, <2>1, <3>3 DEF GateAborted, Pool!Throw
    <3>4. CASE ExtractDone(w)
      BY <1>1, <2>1, <3>4 DEF ExtractDone, Pool!Settle, Pool!Onward, Pool!Throw
    <3> QED
      BY <2>7, <3>1, <3>2, <3>3, <3>4 DEF Worker
  <2> HIDE DEF Starts
  <2> QED
    BY <1>1, <2>2, <2>3, <2>4, <2>5, <2>6, <2>7 DEF Next, Stage, Done
<1>2. RunInv /\ [Next]_vars => [aborted => Starts]_vars
  BY <1>1
<1> QED
  BY <1>2, RunInvHolds, PTL DEF Spec, AbortStopsWork
=============================================================================
