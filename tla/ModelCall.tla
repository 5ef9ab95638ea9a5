------------------------------ MODULE ModelCall ------------------------------
(***************************************************************************)
(* One call of a language model by the native host: callLlm                *)
(* (src/llm.ts) under the shared policy runModelWithPolicy                 *)
(* (src/core/llm.ts), which owns every retry (withRetry), the time limit   *)
(* of an attempt (callWithAbortTimeout) and the wait between two attempts  *)
(* (sleep).                                                                *)
(*                                                                         *)
(* Node runs one callback at a time, so a step is what runs between two    *)
(* awaits; the user's abort, the timers, the provider's answer and the     *)
(* background reads of the response bodies interleave with those steps.    *)
(* Each attempt brings one citation by the stream hook and one by the      *)
(* background read, each named by the attempt it belongs to.               *)
(***************************************************************************)
EXTENDS Integers, FiniteSets, TLC

CONSTANTS Attempts    \* retry.attempts, at least 1

ASSUME AttemptsAssumption == Attempts \in Nat \ {0}

VARIABLES
  pc,           \* where the call is: see Places
  attempt,      \* the attempt under way or the last one, 0 before the first
  aborted,      \* the caller's signal has fired
  hasTimeout,   \* the request sets a time limit for an attempt
  fired,        \* the timer of this attempt has fired (its own timedOut flag)
  timedOut,     \* the flag runModelWithPolicy keeps for the last attempt
  threw,        \* withRetry: the last attempt threw
  lastError,    \* withRetry: the class of the last error thrown
  lastResult,   \* withRetry: the last value an attempt resolved to
  attemptRoute, \* the serving route this attempt has observed
  sinks,        \* the citation sink of each attempt
  reads,        \* attempts whose background body read has not finished
  citations,    \* the out-parameter of the caller: annotations.citations
  route,        \* the route the caller was told, as the attempt it came from
  outcome,      \* how the call ended: see Outcomes
  log           \* what each attempt really came to (history)

vars == <<pc, attempt, aborted, hasTimeout, fired, timedOut, threw, lastError,
          lastResult, attemptRoute, sinks, reads, citations, route, outcome, log>>

attemptVars == <<fired, attemptRoute, sinks, reads, citations, route>>
policyVars  == <<timedOut, threw, lastError, lastResult, log>>

Tries == 1..Attempts
Places == {"resolving", "loop", "calling", "settling", "classify", "backoff",
           "ended"}
Outcomes == {"none", "value", "abort", "timeout", "error", "config"}

(* What isRetryableMessage makes of an error: none at all, one worth a     *)
(* retry (429, 5xx, network), one that must fail fast (quota, billing).    *)
Errors == {"none", "transient", "fatal"}
Cites  == Tries \X {"stream", "body"}
OwnCites(a) == {a} \X {"stream", "body"}

TypeOK ==
  /\ pc \in Places
  /\ attempt \in 0..Attempts
  /\ aborted \in BOOLEAN /\ hasTimeout \in BOOLEAN
  /\ fired \in BOOLEAN /\ timedOut \in BOOLEAN /\ threw \in BOOLEAN
  /\ lastError \in Errors
  /\ lastResult \in [from : 0..Attempts, error : Errors]
  /\ attemptRoute \in 0..Attempts
  /\ sinks \in [Tries -> SUBSET Cites]
  /\ reads \subseteq Tries
  /\ citations \subseteq Cites
  /\ route \in 0..Attempts
  /\ outcome \in Outcomes
  /\ log \in [Tries -> [error : Errors, late : BOOLEAN]]

Init ==
  /\ pc = "resolving" /\ attempt = 0
  /\ aborted = FALSE /\ hasTimeout \in BOOLEAN
  /\ fired = FALSE /\ timedOut = FALSE /\ threw = FALSE
  /\ lastError = "none" /\ lastResult = [from |-> 0, error |-> "none"]
  /\ attemptRoute = 0
  /\ sinks = [a \in Tries |-> {}] /\ reads = {}
  /\ citations = {} /\ route = 0
  /\ outcome = "none"
  /\ log = [a \in Tries |-> [error |-> "none", late |-> FALSE]]

End(how) == pc' = "ended" /\ outcome' = how

----------------------------------------------------------------------------
(* What happens around the call.                                           *)

(* The caller's signal fires, at any moment.                               *)
UserAborts ==
  /\ ~aborted /\ pc # "ended"
  /\ aborted' = TRUE
  /\ UNCHANGED <<pc, attempt, hasTimeout, outcome, attemptVars, policyVars>>

(* Mutant: one timer for the call, not set again for a retry.               *)
TimerOnce ==
  /\ hasTimeout /\ ~fired /\ pc \in {"calling", "settling"} /\ attempt = 1
  /\ fired' = TRUE
  /\ UNCHANGED <<pc, attempt, aborted, hasTimeout, outcome, attemptRoute, sinks,
                 reads, citations, route, policyVars>>

(* The timer of the attempt fires: it sets the attempt's flag and aborts   *)
(* the attempt's signal, and nothing else; the call goes on waiting for    *)
(* the attempt itself.                                                     *)
TimerFires ==
  /\ hasTimeout /\ ~fired /\ pc \in {"calling", "settling"}
  /\ fired' = TRUE
  /\ UNCHANGED <<pc, attempt, aborted, hasTimeout, outcome, attemptRoute, sinks,
                 reads, citations, route, policyVars>>

(* A chunk of the stream reaches onProviderStreamEvent: its citation goes  *)
(* to the sink of this attempt, and the route it names is remembered.      *)
StreamEvent ==
  /\ pc = "calling"
  /\ \/ sinks' = [sinks EXCEPT ![attempt] = @ \cup {<<attempt, "stream">>}]
        /\ UNCHANGED attemptRoute
     \/ attemptRoute' = attempt /\ UNCHANGED sinks
  /\ UNCHANGED <<pc, attempt, aborted, hasTimeout, outcome, fired, reads,
                 citations, route, policyVars>>

(* Mutant: every read fills the sink of the attempt under way.              *)
SinkShared(a) == attempt

(* The background read of a response body ends, possibly long after its    *)
(* attempt: it fills the sink of the attempt that started it.              *)
SinkOf(a) == a
BodyRead(a) ==
  /\ a \in reads
  /\ reads' = reads \ {a}
  /\ sinks' = [sinks EXCEPT ![SinkOf(a)] = @ \cup {<<a, "body">>}]
  /\ UNCHANGED <<pc, attempt, aborted, hasTimeout, outcome, fired, attemptRoute,
                 citations, route, policyVars>>

Environment ==
  UserAborts \/ TimerFires \/ StreamEvent \/ (\E a \in Tries : BodyRead(a))

----------------------------------------------------------------------------
(* callLlm before its attempts: the model and its key are looked up.       *)
Resolve ==
  /\ pc = "resolving"
  /\ \/ pc' = "loop" /\ UNCHANGED outcome
     \/ End("config")
  /\ UNCHANGED <<attempt, aborted, hasTimeout, attemptVars, policyVars>>

(* Mutant: no throwIfAborted at the head of the loop.                       *)
StartUnchecked ==
  /\ attempt' = attempt + 1
  /\ pc' = "calling"
  /\ threw' = FALSE /\ timedOut' = FALSE /\ fired' = FALSE
  /\ attemptRoute' = 0
  /\ citations' = {}
  /\ reads' = reads \cup {attempt'}
  /\ UNCHANGED <<aborted, hasTimeout, sinks, route, lastError, lastResult,
                 outcome, log>>

(* The head of the loop of withRetry: throwIfAborted, then the next        *)
(* attempt with its flags, its sink and its time limit; the caller's       *)
(* citations are emptied.                                                  *)
StartAttempt ==
  /\ ~aborted
  /\ attempt' = attempt + 1
  /\ pc' = "calling"
  /\ threw' = FALSE /\ timedOut' = FALSE /\ fired' = FALSE
  /\ attemptRoute' = 0
  /\ citations' = {}
  /\ reads' = reads \cup {attempt'}
  /\ UNCHANGED <<aborted, hasTimeout, sinks, route, lastError, lastResult,
                 outcome, log>>

AbortAtHead ==
  /\ aborted
  /\ End("abort")
  /\ UNCHANGED <<attempt, aborted, hasTimeout, attemptVars, policyVars>>

LoopHead == pc = "loop" /\ (StartAttempt \/ AbortAtHead)

(* Mutant: the flag of the timer is lost when the attempt resolves.         *)
TimerForgotten(error) ==
  /\ pc' = "classify"
  /\ timedOut' = FALSE
  /\ lastResult' = [from |-> attempt, error |-> error]
  /\ log' = [log EXCEPT ![attempt] = [error |-> error, late |-> fired]]
  /\ UNCHANGED <<threw, lastError>>

(* callWithAbortTimeout hands over what the attempt resolved to, with the  *)
(* flag of its timer, and clears the timer.                                *)
Resolved(error) ==
  /\ pc' = "classify"
  /\ timedOut' = fired
  /\ lastResult' = [from |-> attempt, error |-> error]
  /\ log' = [log EXCEPT ![attempt] = [error |-> error, late |-> fired]]
  /\ UNCHANGED <<threw, lastError>>

(* It threw: the error becomes an AttemptTimeoutError if the timer had     *)
(* fired and the caller had not aborted.                                   *)
Threw(error) ==
  /\ pc' = "classify"
  /\ threw' = TRUE
  /\ timedOut' = (fired /\ ~aborted)
  /\ lastError' = error
  /\ log' = [log EXCEPT ![attempt] = [error |-> error, late |-> fired]]
  /\ UNCHANGED lastResult

(* The transport answers. An answer may come although the signal of the    *)
(* attempt has fired (a message whose stopReason is "aborted" is no error  *)
(* for callLlm). Without an error the route is told to the caller and the  *)
(* background read is awaited.                                             *)
TellRoute == route' = IF attemptRoute # 0 THEN attemptRoute ELSE route

Answered ==
  /\ pc = "calling"
  /\ pc' = "settling"
  /\ TellRoute
  /\ UNCHANGED <<attempt, aborted, hasTimeout, outcome, fired, attemptRoute,
                 sinks, reads, citations, policyVars>>

Refused ==
  /\ pc = "calling"
  /\ \E error \in {"transient", "fatal"} : Resolved(error) \/ Threw(error)
  /\ UNCHANGED <<attempt, aborted, hasTimeout, outcome, attemptVars>>

(* settleAnnotationSink returns when the read is over or after 2 seconds,  *)
(* and the sink as it is then is copied to the caller's citations.         *)
Settle ==
  /\ pc = "settling"
  /\ citations' = citations \cup sinks[attempt]
  /\ Resolved("none")
  /\ UNCHANGED <<attempt, aborted, hasTimeout, outcome, fired, attemptRoute,
                 sinks, reads, route>>

(* The classifier and what follows the loop. An attempt is repeated if it  *)
(* timed out or its error is transient, and attempts are left.             *)
Retryable == timedOut \/ (IF threw THEN lastError ELSE lastResult.error) = "transient"

Again == ~aborted /\ Retryable /\ attempt < Attempts

Verdict ==
  IF aborted THEN "abort"
  ELSE IF timedOut THEN "timeout"
  ELSE IF threw \/ lastResult.error # "none" THEN "error" ELSE "value"

Classify ==
  /\ pc = "classify"
  /\ IF Again THEN pc' = "backoff" /\ UNCHANGED outcome ELSE End(Verdict)
  /\ UNCHANGED <<attempt, aborted, hasTimeout, attemptVars, policyVars>>

(* The wait before the next attempt: an abort ends it with an error, and   *)
(* so does an abort that came before it began.                             *)
Waited ==
  /\ pc = "backoff" /\ ~aborted
  /\ pc' = "loop"
  /\ UNCHANGED <<attempt, aborted, hasTimeout, outcome, attemptVars, policyVars>>

WaitAborted == pc = "backoff" /\ AbortAtHead

Call == Resolve \/ LoopHead \/ Settle \/ Classify \/ Waited \/ WaitAborted
Transport == Answered \/ Refused

Done == pc = "ended" /\ UNCHANGED vars

Next == Environment \/ Call \/ Transport \/ Done

Spec == Init /\ [][Next]_vars

(* The event loop runs what is ready and timers fire; the transport        *)
(* answers once the signal of its attempt has fired (callWithAbortTimeout  *)
(* asks that of it), and owes nothing before.                              *)
Fairness ==
  /\ WF_vars(Call)
  /\ WF_vars(TimerFires)
  /\ WF_vars((aborted \/ fired) /\ Transport)

FairSpec == Spec /\ Fairness

----------------------------------------------------------------------------
(* Properties.                                                             *)

Ended == pc = "ended"

(* A call returns a value only from its last attempt, when that attempt    *)
(* succeeded within its time limit: never the partial text of an attempt   *)
(* cut off by its timer, never the value of an earlier attempt.            *)
ValueIsWhole ==
  outcome = "value" =>
    /\ lastResult.from = attempt
    /\ log[attempt] = [error |-> "none", late |-> FALSE]

(* The citations returned with a value are those of the attempt that made  *)
(* the value, whatever the body reads of earlier attempts do late.         *)
CitationsBelong == outcome = "value" => citations \subseteq OwnCites(lastResult.from)

(* The call reports the failure of its last attempt and nothing worse: a   *)
(* timeout only if that attempt ran over its limit, an error only if it    *)
(* failed within it, and either one only when a further attempt was not    *)
(* allowed or would not have helped.                                       *)
FailureIsTheLast ==
  /\ outcome = "timeout" => log[attempt].late /\ attempt = Attempts
  /\ outcome = "error" =>
       /\ log[attempt].error # "none" /\ ~log[attempt].late
       /\ log[attempt].error = "transient" => attempt = Attempts

(* Once the caller has aborted no attempt starts, and a call that had      *)
(* begun its attempts ends as aborted whatever it had in hand.             *)
AbortWins ==
  [][ aborted => /\ attempt' = attempt
                 /\ pc \notin {"resolving", "ended"} /\ pc' = "ended"
                      => outcome' = "abort" ]_vars

(* A further attempt is made only after one that ran over its limit or     *)
(* failed with a transient error; a success or an error that must fail     *)
(* fast is never repeated.                                                 *)
NoNeedlessAttempt ==
  [][ attempt' > attempt /\ attempt > 0
        => log[attempt].late \/ log[attempt].error = "transient" ]_vars

(* A call with a time limit ends, and so does any call that is aborted.    *)
EveryCallEnds == hasTimeout \/ aborted ~> Ended

(* What the doc of onRouteProvider says of a call (src/llm.ts:137): the    *)
(* route the caller has is the one of the final successful attempt.        *)
RouteOfTheValue == outcome = "value" => route \in {0, lastResult.from}
=============================================================================
