------------------------------- MODULE Pipeline -------------------------------
(***************************************************************************)
(* One research run (src/core/operations/research.ts): preflight, search   *)
(* with its own retries, fetch and extract over a worker pool, collate,    *)
(* the commit to the cache, the suggestions and the last sidecar, with the *)
(* degraded exits in between and an abort at any moment.                   *)
(*                                                                         *)
(* A step is what runs between two awaits.  A call of a model is one step  *)
(* (module ModelCall has its attempts); so are the commit and the sidecar  *)
(* of a degraded exit (module CacheStore has their files and locks).       *)
(***************************************************************************)
EXTENDS Integers, Sequences, FiniteSets

CONSTANTS
  MaxUrls,            \* min(params.maxUrls, settings.maxUrls)
  SearchAttempts,     \* settings.searchRetryAttempts
  FetchConcurrency,   \* settings.fetchConcurrency
  ExtractConcurrency, \* settings.extractionConcurrency
  Interval            \* settings.minRequestIntervalMs, 0 for no gate

ASSUME PipelineAssumption ==
  /\ MaxUrls \in Nat /\ Interval \in Nat
  /\ SearchAttempts \in Nat \ {0}
  /\ FetchConcurrency \in Nat \ {0} /\ ExtractConcurrency \in Nat \ {0}

VARIABLES
  pc,        \* the await the run is at: see Places
  aborted,   \* the signal of the run has fired
  attempts,  \* search calls made
  urls,      \* how many sources the last search call gave: pages 1..urls
  pages,     \* what the fetch stage returned, in the order of the search
  items, next, doing, results, rejected,  \* the pool of the stage under way
  atGate,    \* workers waiting at the rate limiter
  wait,      \* the time each of them still has to wait
  ahead,     \* the time until the limiter's next free slot
  committed, \* the report is in the cache
  exit,      \* what the run will return if its last step is not aborted
  outcome,   \* how it ended: see Outcomes
  details,   \* the counts returned with the result, as sets of pages
  fate,      \* history: what really became of each page
  called     \* history: pages whose extraction call has begun

stageVars == <<attempts, urls, pages, committed, exit>>
poolVars  == <<items, next, doing, results, rejected>>
gateVars  == <<atGate, wait, ahead>>
endVars   == <<outcome, details>>
history   == <<fate, called>>
vars == <<pc, aborted, stageVars, poolVars, gateVars, endVars, history>>

PageIds  == 1..MaxUrls
Hole     == [page |-> 0, status |-> "undefined"]
Fetched  == [page : PageIds, status : {"success", "error"}]
Extracted == [page : PageIds, status : {"success", "failed"}]

Pool == INSTANCE WorkerPool

Places == {"called", "preflight", "search", "searching", "pause", "fetching",
           "extracting", "collating", "committing", "locked", "committed",
           "suggesting", "sidecar", "degrading", "ended"}
Degraded == {"no-links", "fetch-failed", "extraction-failed"}
Outcomes == {"none", "missing-models", "aborted", "error", "completed"}
              \cup Degraded
Fates == {"none", "missed", "cut", "fetched", "extracted", "barren", "dropped"}
Details == [searched : SUBSET PageIds, fetched : SUBSET PageIds,
            pagesFailed : SUBSET PageIds, extractionFailed : SUBSET PageIds]
NoDetails == [searched |-> {}, fetched |-> {}, pagesFailed |-> {},
              extractionFailed |-> {}]

TypeOK ==
  /\ pc \in Places /\ aborted \in BOOLEAN
  /\ attempts \in 0..SearchAttempts /\ urls \in 0..MaxUrls
  /\ pages \in Seq(Fetched)
  /\ Pool!PoolTypeOK(PageIds, Fetched \cup Extracted)
  /\ wait \in Seq(Nat) /\ atGate \subseteq DOMAIN wait /\ ahead \in Nat
  /\ committed \in BOOLEAN
  /\ exit \in {"none", "completed"} \cup Degraded
  /\ outcome \in Outcomes /\ details \in Details
  /\ fate \in [PageIds -> Fates] /\ called \subseteq PageIds

Init ==
  /\ pc = "called" /\ aborted \in BOOLEAN
  /\ attempts = 0 /\ urls = 0 /\ pages = <<>>
  /\ Pool!PoolInit
  /\ atGate = {} /\ wait = <<>> /\ ahead = 0
  /\ committed = FALSE /\ exit = "none"
  /\ outcome = "none" /\ details = NoDetails
  /\ fate = [p \in PageIds |-> "none"] /\ called = {}

End(how) == pc' = "ended" /\ outcome' = how /\ UNCHANGED details

(* The signal of the caller fires.                                         *)
UserAborts ==
  /\ ~aborted /\ pc # "ended"
  /\ aborted' = TRUE
  /\ UNCHANGED <<pc, stageVars, poolVars, gateVars, endVars, history>>

----------------------------------------------------------------------------
(* Before the stages: throwIfAborted around the preflight of the models.   *)
(* The preflight and, after the second check, the set-up of the telemetry  *)
(* may fail, aborted or not; an abort during that set-up is seen at the    *)
(* head of the search.                                                     *)
Begin ==
  /\ pc = "called"
  /\ IF aborted THEN End("aborted") ELSE pc' = "preflight" /\ UNCHANGED endVars
  /\ UNCHANGED <<aborted, stageVars, poolVars, gateVars, history>>

Preflight ==
  /\ pc = "preflight"
  /\ \/ End("missing-models")
     \/ End("error")
     \/ aborted /\ End("aborted")
     \/ ~aborted /\ pc' = "search" /\ UNCHANGED endVars
  /\ UNCHANGED <<aborted, stageVars, poolVars, gateVars, history>>

(* A stage that gives the run up: degradedReturn with this outcome.        *)
Degrade(how) == pc' = "degrading" /\ exit' = how /\ UNCHANGED endVars

(* The head of the search loop, on entry and after each pause; the pause   *)
(* itself ends early with an abort.                                        *)
SearchHead ==
  /\ pc \in {"search", "pause"}
  /\ \/ aborted /\ End("aborted") /\ UNCHANGED attempts
     \/ /\ ~aborted
        /\ attempts' = attempts + 1
        /\ pc' = "searching"
        /\ UNCHANGED endVars
  /\ UNCHANGED <<aborted, urls, pages, committed, exit, poolVars, gateVars,
                 history>>

LastAttempt == attempts = SearchAttempts

(* The search call gives n distinct sources.  Without any the loop goes    *)
(* on, unless this was the last attempt or the run is aborted.             *)
SearchGives(n) ==
  /\ urls' = n
  /\ \/ /\ n = 0 /\ ~aborted /\ ~LastAttempt
        /\ pc' = "pause"
        /\ UNCHANGED <<exit, endVars, poolVars>>
     \/ aborted /\ End("aborted") /\ UNCHANGED <<exit, poolVars>>
     \/ /\ n = 0 /\ ~aborted /\ LastAttempt
        /\ Degrade("no-links")
        /\ UNCHANGED poolVars
     \/ /\ n > 0 /\ ~aborted
        /\ Pool!Start([i \in 1..n |-> i], FetchConcurrency)
        /\ pc' = "fetching"
        /\ UNCHANGED <<exit, endVars>>
  /\ UNCHANGED <<pages, gateVars>>

(* A call ends with a value or an error; one that is aborted ends with the *)
(* abort, although a client may still hand over a value, or fail for want  *)
(* of a model or a key before its first attempt.                           *)
CallFails ==
  /\ \/ End("error")
     \/ aborted /\ End("aborted")
  /\ UNCHANGED <<urls, pages, exit, poolVars, gateVars>>

SearchAnswered ==
  /\ pc = "searching"
  /\ (\E n \in 0..MaxUrls : SearchGives(n)) \/ CallFails
  /\ UNCHANGED <<aborted, attempts, committed, history>>

----------------------------------------------------------------------------
(* Fetch: fetchPages over the pool.  fetchSingle turns every failure into  *)
(* a page with an error, that of its aborted requests too.                 *)
FetchDone(w) ==
  /\ pc = "fetching" /\ w \in Pool!Busy
  /\ \E status \in {"success", "error"} :
       /\ Pool!Settle(w, [page |-> Pool!ItemOf(w), status |-> status])
       /\ fate' = [fate EXCEPT ![Pool!ItemOf(w)] =
            IF status = "success" THEN "fetched"
            ELSE IF aborted THEN "cut" ELSE "missed"]
  /\ UNCHANGED <<pc, aborted, stageVars, gateVars, endVars, called>>

(* Indices the pool never ran are filled in as failures.                   *)
Filled(status) ==
  [i \in 1..Len(results) |->
     IF results[i] = Hole THEN [page |-> items[i], status |-> status]
     ELSE results[i]]

(* filter: the positions that succeeded, and the lists of some positions   *)
(* in increasing order (there is exactly one).                             *)
Successes(list) == {i \in DOMAIN list : list[i].status = "success"}

InOrder(S) ==
  {f \in [1..Cardinality(S) -> S] :
     /\ {f[i] : i \in DOMAIN f} = S
     /\ \A i, j \in DOMAIN f : i < j => f[i] < f[j]}

(* createRateLimiter: when the k-th of the calls made in one step may go,  *)
(* and the next free slot after k of them.                                 *)
Slot(k) == ahead + (k - 1) * Interval

(* Mutant: the slot after this call is counted from now, not from the slot  *)
(* given to the call before it.                                             *)
SlotFromNow(k) == Interval

SlotAfter(k) == ahead + k * Interval

StartExtract(list) ==
  /\ Pool!Start(list, ExtractConcurrency)
  /\ atGate' = DOMAIN doing'
  /\ wait' = [w \in DOMAIN doing' |-> Slot(w)]
  /\ ahead' = SlotAfter(Len(doing'))
  /\ pc' = "extracting"

PickUp(list) ==
  IF Successes(list) = {}
    THEN Degrade("fetch-failed") /\ UNCHANGED <<poolVars, gateVars>>
    ELSE /\ \E kept \in InOrder(Successes(list)) :
              StartExtract([i \in DOMAIN kept |-> list[kept[i]].page])
         /\ UNCHANGED <<exit, endVars>>

(* Mutant: no throwIfAborted after the fetch stage.                         *)
AfterFetchUnchecked == pages' = Filled("error") /\ PickUp(Filled("error"))

AfterFetch ==
  IF aborted
  THEN End("aborted") /\ UNCHANGED <<pages, exit, poolVars, gateVars>>
  ELSE pages' = Filled("error") /\ PickUp(Filled("error"))

FetchOver ==
  /\ pc = "fetching" /\ Pool!Drained
  /\ AfterFetch
  /\ UNCHANGED <<aborted, attempts, urls, committed, history>>

----------------------------------------------------------------------------
(* Extract: each worker takes its slot at the gate, then calls the model.  *)
Tick ==
  /\ pc = "extracting" /\ ahead > 0
  /\ ahead' = ahead - 1
  /\ wait' = [w \in DOMAIN wait |-> IF wait[w] > 0 THEN wait[w] - 1 ELSE 0]
  /\ UNCHANGED <<pc, aborted, stageVars, poolVars, atGate, endVars, history>>

(* The timer of the wait may fire late, never early.                       *)
PassGate(w) ==
  /\ pc = "extracting" /\ w \in atGate
  /\ ~aborted /\ wait[w] = 0
  /\ atGate' = atGate \ {w}
  /\ called' = called \cup {Pool!ItemOf(w)}
  /\ UNCHANGED <<pc, aborted, stageVars, poolVars, wait, ahead, endVars, fate>>

(* An abort ends the wait, and extractPage throws if it comes just after.  *)
GateAborted(w) ==
  /\ pc = "extracting" /\ w \in atGate /\ aborted
  /\ Pool!Throw(w)
  /\ atGate' = atGate \ {w}
  /\ fate' = [fate EXCEPT ![Pool!ItemOf(w)] = "dropped"]
  /\ UNCHANGED <<pc, aborted, stageVars, wait, ahead, endVars, called>>

(* A worker that took another page goes to the gate with it.               *)
ToGate(w) ==
  IF doing'[w] = 0 THEN UNCHANGED gateVars
  ELSE /\ atGate' = atGate \cup {w}
       /\ wait' = [wait EXCEPT ![w] = Slot(1)]
       /\ ahead' = SlotAfter(1)

(* The extraction call returns text, or fails; extractPage turns a failure *)
(* into a failed extraction unless the run is aborted, when it throws.     *)
ExtractDone(w) ==
  /\ pc = "extracting" /\ w \in Pool!Busy \ atGate
  /\ \/ \E status \in {"success", "failed"} :
          /\ status = "failed" => ~aborted
          /\ Pool!Settle(w, [page |-> Pool!ItemOf(w), status |-> status])
          /\ ToGate(w)
          /\ fate' = [fate EXCEPT ![Pool!ItemOf(w)] =
                        IF status = "success" THEN "extracted" ELSE "barren"]
     \/ /\ aborted
        /\ Pool!Throw(w)
        /\ fate' = [fate EXCEPT ![Pool!ItemOf(w)] = "dropped"]
        /\ UNCHANGED gateVars
  /\ UNCHANGED <<pc, aborted, stageVars, endVars, called>>

Extractions == Filled("failed")

AfterExtract ==
  IF aborted \/ rejected
    THEN End("aborted") /\ UNCHANGED exit
    ELSE IF Successes(Extractions) = {} THEN Degrade("extraction-failed")
    ELSE pc' = "collating" /\ UNCHANGED <<exit, endVars>>

ExtractOver ==
  /\ pc = "extracting" /\ Pool!Drained
  /\ AfterExtract
  /\ UNCHANGED <<aborted, attempts, urls, pages, committed, poolVars, gateVars,
                 history>>

----------------------------------------------------------------------------
(* Collate, and throwIfAborted before anything is staged.                  *)
Collated ==
  /\ pc = "collating"
  /\ \/ aborted /\ End("aborted")
     \/ End("error")
     \/ ~aborted /\ pc' = "committing" /\ UNCHANGED endVars
  /\ UNCHANGED <<aborted, stageVars, poolVars, gateVars, history>>

(* The downloads are started and the lock is waited for, and looked at once *)
(* more for an abort when it is there.                                     *)
TakeLock ==
  /\ pc = "committing"
  /\ \/ aborted /\ End("aborted")
     \/ End("error")
     \/ ~aborted /\ pc' = "locked" /\ UNCHANGED endVars
  /\ UNCHANGED <<aborted, stageVars, poolVars, gateVars, history>>

(* Under the lock: an abort does not stop what is being written.           *)
Commit ==
  /\ pc = "locked"
  /\ \/ End("error") /\ UNCHANGED committed
     \/ committed' = TRUE /\ pc' = "committed" /\ UNCHANGED endVars
  /\ UNCHANGED <<aborted, attempts, urls, pages, exit, poolVars, gateVars,
                 history>>

(* The index, the downloads and their flush; then the suggestion stage     *)
(* begins, unless aborted.                                                 *)
AfterCommit ==
  /\ pc = "committed"
  /\ \/ aborted /\ End("aborted")
     \/ End("error")
     \/ ~aborted /\ pc' = "suggesting" /\ UNCHANGED endVars
  /\ UNCHANGED <<aborted, stageVars, poolVars, gateVars, history>>

(* A failure of the suggestions is swallowed, an abort is not.             *)
Suggested ==
  /\ pc = "suggesting"
  /\ IF aborted THEN End("aborted") /\ UNCHANGED exit
     ELSE pc' = "sidecar" /\ exit' = "completed" /\ UNCHANGED endVars
  /\ UNCHANGED <<aborted, attempts, urls, pages, committed, poolVars, gateVars,
                 history>>

----------------------------------------------------------------------------
(* The counts of the result.                                               *)
PagesWith(list, status) ==
  {list[i].page : i \in {j \in DOMAIN list : list[j].status = status}}

Counts(how) ==
  IF how = "no-links" THEN NoDetails
  ELSE [searched |-> 1..urls,
        fetched |-> PagesWith(pages, "success"),
        pagesFailed |-> PagesWith(pages, "error"),
        extractionFailed |-> IF how = "fetch-failed" THEN {}
                             ELSE PagesWith(Extractions, "failed")]

(* The sidecar is written under the lock, which an abort may still keep    *)
(* the run from taking; any other failure of it is swallowed.              *)
Finish ==
  /\ pc \in {"sidecar", "degrading"}
  /\ \/ pc' = "ended" /\ outcome' = exit /\ details' = Counts(exit)
     \/ aborted /\ End("aborted")
  /\ UNCHANGED <<aborted, stageVars, poolVars, gateVars, history>>

Stage == \/ Begin \/ Preflight \/ SearchHead \/ SearchAnswered \/ FetchOver
         \/ ExtractOver \/ Collated \/ TakeLock \/ Commit \/ AfterCommit
         \/ Suggested \/ Finish

Worker(w) == FetchDone(w) \/ PassGate(w) \/ GateAborted(w) \/ ExtractDone(w)

Done == pc = "ended" /\ UNCHANGED vars

Next ==
  \/ UserAborts \/ Tick \/ Stage
  \/ \E w \in DOMAIN doing : Worker(w)
  \/ Done

Spec == Init /\ [][Next]_vars

----------------------------------------------------------------------------
(* Properties.                                                             *)

(* The outcome is the one the run earned.  A search without links is       *)
(* reported only when every attempt came back empty, a failed fetch or     *)
(* extraction only when each page failed by itself and none because the    *)
(* run was aborted; nothing was committed then.  A completed run has       *)
(* committed a report with at least one source, and only an aborted run is *)
(* reported as aborted.                                                    *)
OutcomeDeserved ==
  LET all(fates) == \A p \in 1..urls : fate[p] \in fates IN
  /\ outcome = "no-links" => urls = 0 /\ attempts = SearchAttempts
  /\ outcome = "fetch-failed" => urls > 0 /\ all({"missed"})
  /\ outcome = "extraction-failed" =>
       all({"missed", "barren"}) /\ \E p \in 1..urls : fate[p] = "barren"
  /\ outcome \in Degraded => ~committed
  /\ outcome = "completed" =>
       /\ committed
       /\ all({"missed", "barren", "extracted"})
       /\ \E p \in 1..urls : fate[p] = "extracted"
  /\ outcome = "aborted" => aborted

(* The counts of a result put every page the search gave in one place, the *)
(* one where it really ended up: no page is counted twice, none is lost;   *)
(* and the extractions keep the order of the search whatever order the     *)
(* workers finished in.                                                    *)
PagesAccounted ==
  LET with(fates) == {p \in 1..urls : fate[p] \in fates} IN
  outcome \in {"fetch-failed", "extraction-failed", "completed"} =>
    /\ details.searched = 1..urls
    /\ details.fetched = with({"extracted", "barren"})
    /\ details.pagesFailed = with({"missed"})
    /\ details.extractionFailed = with({"barren"})
    /\ outcome # "fetch-failed" =>
         /\ PagesWith(Extractions, "success") = with({"extracted"})
         /\ \A i, j \in DOMAIN Extractions :
              i < j => Extractions[i].page < Extractions[j].page

(* The pool is empty outside its stages: no request runs on behind a run   *)
(* that has been answered or has gone on, even when one worker threw.      *)
NothingOutlivesStage == pc \notin {"fetching", "extracting"} => Pool!Busy = {}

(* Once aborted the run starts nothing: no search call, no page, no        *)
(* extraction call, no synthesis, no commit that did not have its lock, no *)
(* suggestions and no degraded exit.  If it was fetching, extracting or    *)
(* between two searches it ends as aborted; if a call of its own was under *)
(* way, as aborted or with the error of that call.                         *)
AbortStopsWork ==
  [][ aborted =>
        /\ attempts' = attempts /\ next' = next /\ called' = called
        /\ pc # "locked" => committed' = committed
        /\ \A place \in {"collating", "locked", "suggesting", "degrading"} :
             pc' = place => pc = place
        /\ pc \in {"pause", "fetching", "extracting"}
             => outcome' \in {"none", "aborted"}
        /\ pc \in {"searching", "collating"}
             => outcome' \in {"none", "aborted", "error"} ]_vars

(* Two extractions that wait at the rate limiter wait for slots a whole    *)
(* interval apart, and the next free slot is an interval after both.       *)
SlotsApart ==
  \A v \in atGate : wait[v] > 0 =>
    /\ wait[v] + Interval <= ahead
    /\ \A w \in atGate \ {v} : wait[w] > 0 =>
         wait[v] + Interval <= wait[w] \/ wait[w] + Interval <= wait[v]

----------------------------------------------------------------------------
(* The inductive invariant, in parts.                                      *)

(* The pool: each worker has an index of its own with no result yet; every *)
(* index before next has its result, is being worked on, or was lost by a  *)
(* worker that threw, which takes an abort; and as long as nobody aborts   *)
(* no worker ends before the list does.                                    *)
PoolSound ==
  /\ rejected => aborted
  /\ \A v, w \in Pool!Busy : doing[v] = doing[w] => v = w
  /\ \A w \in Pool!Busy : doing[w] < next /\ results[doing[w]] = Hole
  /\ \A i \in DOMAIN items :
       IF results[i] = Hole
       THEN i >= next \/ rejected \/ \E w \in Pool!Busy : doing[w] = i
       ELSE i < next /\ results[i].page = items[i]
  /\ ~aborted /\ next <= Len(items) => doing # <<>> /\ Pool!Busy = DOMAIN doing
  /\ \A i, j \in DOMAIN items : i < j => items[i] < items[j]

(* Outside its stages the pool is empty; the gate belongs to the extract   *)
(* stage, and those who wait there are busy workers.                       *)
GateSound ==
  /\ pc = "extracting" => DOMAIN wait = DOMAIN doing /\ atGate \subseteq Pool!Busy
  /\ pc # "extracting" => atGate = {}

(* The place of the run, what it will return and what it has committed; a  *)
(* search attempt is left whenever the head of the loop is to come.        *)
PlaceSound ==
  /\ pc \in {"called", "preflight", "search", "pause"} => attempts < SearchAttempts
  /\ pc \in {"sidecar", "degrading", "ended"} \/ exit = "none"
  /\ pc = "sidecar" => exit = "completed"
  /\ pc = "degrading" => exit \in Degraded
  /\ exit = "completed" \/ pc \in {"committed", "suggesting"} => committed
  /\ committed => pc \in {"committed", "suggesting", "sidecar", "ended"}
  /\ exit \in Degraded => ~committed
  /\ outcome = "none" <=> pc # "ended"
  /\ outcome = "aborted" => aborted
  /\ outcome \in Degraded \cup {"completed"} =>
       outcome = exit /\ details = Counts(exit)

(* The fetch stage: what the pool has recorded is what became of a page.   *)
FetchSound ==
  /\ \A p \in PageIds : fate[p] = "cut" => aborted
  /\ exit = "no-links" => urls = 0 /\ attempts = SearchAttempts
  /\ pc = "fetching" =>
       /\ urls > 0 /\ items = [i \in 1..urls |-> i]
       /\ \A p \in 1..urls : results[p] # Hole =>
            /\ results[p] \in Fetched
            /\ fate[p] \in IF results[p].status = "success" THEN {"fetched"}
                           ELSE {"missed", "cut"}

(* After it: the pages fetched, and those that were not.                   *)
Collecting == {"collating", "committing", "locked", "committed", "suggesting",
               "sidecar"}
Extracting == \/ pc \in Collecting \cup {"extracting"}
              \/ exit \in {"extraction-failed", "completed"}
PagesSound ==
  Extracting \/ exit = "fetch-failed" =>
    /\ urls > 0 /\ Len(pages) = urls
    /\ \A p \in 1..urls :
         /\ pages[p].page = p
         /\ pages[p].status = "error" => fate[p] = "missed"
         /\ exit = "fetch-failed" => pages[p].status = "error"

(* The extract stage and after it: each fetched page has its place in the  *)
(* pool, and its result is what became of it.                              *)
ExtractSound ==
  Extracting =>
    /\ items # <<>>
    /\ {items[i] : i \in DOMAIN items} = {p \in 1..urls : pages[p].status = "success"}
    /\ \A i \in DOMAIN items :
         IF results[i] = Hole THEN pc = "extracting"
         ELSE /\ results[i] \in Extracted
              /\ fate[items[i]] = IF results[i].status = "success"
                                  THEN "extracted" ELSE "barren"
    /\ pc \in Collecting \/ exit = "completed" =>
         \E i \in DOMAIN items : results[i].status = "success"
    /\ exit = "extraction-failed" =>
         \A i \in DOMAIN items : results[i].status = "failed"

RunInv == /\ TypeOK /\ PoolSound /\ GateSound /\ PlaceSound /\ SlotsApart
          /\ FetchSound /\ PagesSound /\ ExtractSound /\ NothingOutlivesStage
=============================================================================
