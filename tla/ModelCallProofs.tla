--------------------------- MODULE ModelCallProofs ---------------------------
(***************************************************************************)
(* ModelCall for any number of attempts: what a call returns belongs to    *)
(* its last attempt, failures are reported as what they are, an abort wins *)
(* and nothing is repeated in vain. Each follows from one inductive        *)
(* invariant, which says what the flags of the policy mean at each place.  *)
(***************************************************************************)
EXTENDS ModelCall, TLAPS

(* The number of attempts made at each place of the call.                  *)
Counted ==
  /\ pc = "resolving" => attempt = 0
  /\ pc \in {"loop", "backoff"} => attempt < Attempts
  /\ pc \in {"calling", "settling", "classify", "backoff"} => attempt >= 1

(* Citations are kept apart by attempt.                                    *)
Apart ==
  /\ \A a \in Tries : sinks[a] \subseteq OwnCites(a)
  /\ citations \subseteq OwnCites(attempt)

(* What the flags and the result of the policy say once an attempt is over.*)
Judged ==
  /\ threw => lastError = log[attempt].error /\ lastError # "none"
  /\ ~threw => lastResult.from = attempt /\ lastResult.error = log[attempt].error
  /\ timedOut => log[attempt].late
  /\ log[attempt].late => timedOut \/ (threw /\ aborted)

FlagsRight ==
  /\ pc \in {"calling", "settling"} => ~threw /\ ~timedOut
  /\ pc = "classify" => Judged

(* Why another attempt is coming.                                          *)
Deserved ==
  pc \in {"backoff", "loop"} /\ attempt > 0 =>
    log[attempt].late \/ log[attempt].error = "transient"

OutcomeRight ==
  /\ outcome # "none" <=> pc = "ended"
  /\ ValueIsWhole /\ FailureIsTheLast
  /\ outcome \in {"value", "timeout", "error"} => attempt >= 1

IInv == TypeOK /\ Counted /\ Apart /\ FlagsRight /\ Deserved /\ OutcomeRight

LEMMA InitIInv == Init => IInv
  <1> SUFFICES ASSUME Init PROVE IInv
    OBVIOUS
  <1> USE AttemptsAssumption DEF Init
  <1>1. TypeOK
    <2>1. lastResult \in [from : 0..Attempts, error : Errors]
      BY DEF Errors
    <2>2. sinks \in [Tries -> SUBSET Cites]
      OBVIOUS
    <2>3. log \in [Tries -> [error : Errors, late : BOOLEAN]]
      BY DEF Errors
    <2> QED BY <2>1, <2>2, <2>3 DEF TypeOK, Places, Errors, Outcomes
  <1>2. Apart
    BY DEF Apart
  <1>3. Counted /\ FlagsRight /\ Deserved /\ OutcomeRight
    BY DEF Counted, FlagsRight, Deserved, OutcomeRight, ValueIsWhole, FailureIsTheLast
  <1> QED BY <1>1, <1>2, <1>3 DEF IInv

LogTyped == log \in [Tries -> [error : Errors, late : BOOLEAN]]

(* Entering the verdict on the attempt in the log keeps the log's type.    *)
LEMMA LogKeeps ==
  ASSUME LogTyped, attempt \in Tries, NEW e \in Errors, fired \in BOOLEAN,
         log' = [log EXCEPT ![attempt] = [error |-> e, late |-> fired]]
  PROVE  LogTyped'
  BY DEF LogTyped

LEMMA TypeStep == TypeOK /\ Counted /\ [Next]_vars => TypeOK'
  <1> SUFFICES ASSUME TypeOK, Counted, [Next]_vars PROVE TypeOK'
    OBVIOUS
  <1> USE AttemptsAssumption
  <1> USE DEF TypeOK, Counted, Tries, Places, Errors, Outcomes, attemptVars, policyVars
  <1>1. CASE Environment
    <2>1. CASE UserAborts
      BY <2>1 DEF UserAborts
    <2>4. CASE TimerFires
      BY <2>4 DEF TimerFires
    <2>2. CASE StreamEvent
      <3>1. attempt \in Tries
        BY <2>2 DEF StreamEvent
      <3>2. sinks' \in [Tries -> SUBSET Cites]
        BY <2>2, <3>1 DEF StreamEvent, Cites
      <3> QED BY <2>2, <3>1, <3>2 DEF StreamEvent
    <2>3. ASSUME NEW a \in Tries, BodyRead(a) PROVE TypeOK'
      <3>1. sinks' \in [Tries -> SUBSET Cites]
        BY <2>3 DEF BodyRead, SinkOf, Cites
      <3> QED BY <2>3, <3>1 DEF BodyRead
    <2> QED BY <1>1, <2>1, <2>2, <2>3, <2>4 DEF Environment
  <1>2. CASE Resolve
    BY <1>2 DEF Resolve, End
  <1>3. CASE LoopHead
    <2>1. CASE StartAttempt
      <3>1. attempt' \in Tries
        BY <1>3, <2>1 DEF LoopHead, StartAttempt
      <3>2. reads' \subseteq Tries /\ citations' \subseteq Cites
        BY <2>1, <3>1 DEF StartAttempt
      <3>3. pc' \in Places /\ fired' \in BOOLEAN /\ timedOut' \in BOOLEAN
        BY <2>1 DEF StartAttempt
      <3>4. threw' \in BOOLEAN /\ attemptRoute' \in 0..Attempts
        <4>1. threw' = FALSE /\ attemptRoute' = 0
          BY <2>1 DEF StartAttempt
        <4>2. 0 \in 0..Attempts
          BY AttemptsAssumption
        <4> QED BY <4>1, <4>2
      <3>5. UNCHANGED <<aborted, hasTimeout, sinks, route, lastError, lastResult,
                        outcome, log>>
        BY <2>1 DEF StartAttempt
      <3> HIDE DEF Places, Errors, Outcomes
      <3> QED BY <3>1, <3>2, <3>3, <3>4, <3>5
    <2>2. CASE AbortAtHead
      BY <2>2 DEF AbortAtHead, End
    <2> QED BY <1>3, <2>1, <2>2 DEF LoopHead
  <1>4. CASE Settle
    <2>1. citations' \subseteq Cites
      BY <1>4 DEF Settle
    <2>2. attempt \in Tries /\ "none" \in Errors
      BY <1>4 DEF Settle
    <2>3. LogTyped'
      BY <1>4, <2>2, LogKeeps DEF Settle, Resolved, LogTyped
    <2>4. lastResult' \in [from : 0..Attempts, error : Errors]
      BY <1>4 DEF Settle, Resolved
    <2> QED BY <1>4, <2>1, <2>3, <2>4 DEF Settle, Resolved, LogTyped
  <1>5. CASE Classify \/ Waited \/ WaitAborted
    BY <1>5 DEF Classify, Waited, WaitAborted, AbortAtHead, End, Verdict
  <1>6. CASE Answered
    BY <1>6 DEF Answered, TellRoute
  <1>7. CASE Refused
    <2> PICK error \in {"transient", "fatal"} : Resolved(error) \/ Threw(error)
      BY <1>7 DEF Refused
    <2>1. attempt \in Tries
      BY <1>7 DEF Refused
    <2>2. LogTyped'
      BY <2>1, LogKeeps DEF Resolved, Threw, LogTyped
    <2>3. lastResult' \in [from : 0..Attempts, error : Errors]
      BY DEF Resolved, Threw
    <2>4. /\ pc' = "classify" /\ timedOut' \in BOOLEAN
          /\ threw' \in BOOLEAN /\ lastError' \in Errors
      BY DEF Resolved, Threw
    <2> QED BY <1>7, <2>2, <2>3, <2>4 DEF Refused, LogTyped
  <1>8. CASE UNCHANGED vars
    BY <1>8 DEF vars
  <1> QED BY <1>1, <1>2, <1>3, <1>4, <1>5, <1>6, <1>7, <1>8
         DEF Next, Call, Transport, Done

LEMMA ApartStep == TypeOK /\ Counted /\ Apart /\ [Next]_vars => Apart'
  <1> SUFFICES ASSUME TypeOK, Counted, Apart, [Next]_vars PROVE Apart'
    OBVIOUS
  <1> USE AttemptsAssumption
  <1> USE DEF TypeOK, Counted, Apart, Tries, OwnCites, attemptVars
  <1>1. CASE StreamEvent \/ \E a \in Tries : BodyRead(a)
    BY <1>1 DEF StreamEvent, BodyRead, SinkOf
  <1>2. CASE UserAborts \/ TimerFires
    BY <1>2 DEF UserAborts, TimerFires
  <1>3. CASE LoopHead
    BY <1>3 DEF LoopHead, StartAttempt, AbortAtHead
  <1>4. CASE Settle
    BY <1>4 DEF Settle
  <1>5. CASE Resolve \/ Classify \/ Waited \/ WaitAborted
    BY <1>5 DEF Resolve, Classify, Waited, WaitAborted, AbortAtHead
  <1>6. CASE Transport
    BY <1>6 DEF Transport, Answered, Refused
  <1>7. CASE UNCHANGED vars
    BY <1>7 DEF vars
  <1> QED BY <1>1, <1>2, <1>3, <1>4, <1>5, <1>6, <1>7 DEF Next, Environment, Call, Done

LEMMA PolicyStep ==
  IInv /\ [Next]_vars => (Counted /\ FlagsRight /\ Deserved /\ OutcomeRight)'
  <1> SUFFICES ASSUME IInv, [Next]_vars
               PROVE (Counted /\ FlagsRight /\ Deserved /\ OutcomeRight)'
    OBVIOUS
  <1> USE AttemptsAssumption
  <1> USE DEF IInv, TypeOK, Counted, FlagsRight, Judged, Deserved, OutcomeRight,
              ValueIsWhole, FailureIsTheLast, Tries, Errors, Outcomes, attemptVars,
              policyVars
  <1>1. CASE Environment
    BY <1>1 DEF Environment, UserAborts, TimerFires, StreamEvent, BodyRead
  <1>2. CASE Resolve
    BY <1>2 DEF Resolve, End
  <1>3. CASE LoopHead
    BY <1>3 DEF LoopHead, StartAttempt, AbortAtHead, End
  <1>4. CASE Settle
    <2>1. pc = "settling" /\ attempt >= 1 /\ attempt \in Tries /\ ~threw
      BY <1>4 DEF Settle
    <2>2. log'[attempt].error = "none" /\ log'[attempt].late = fired
      BY <1>4, <2>1 DEF Settle, Resolved
    <2>3. lastResult'.from = attempt /\ lastResult'.error = "none"
      BY <1>4 DEF Settle, Resolved
    <2>4. timedOut' = fired /\ threw' = FALSE /\ UNCHANGED attempt
      BY <1>4, <2>1 DEF Settle, Resolved
    <2>5. Judged'
      BY <2>1, <2>2, <2>3, <2>4
    <2> QED BY <1>4, <2>1, <2>5 DEF Settle, Resolved
  <1>5. CASE Classify
    BY <1>5 DEF Classify, Again, Retryable, Verdict, End
  <1>6. CASE Waited \/ WaitAborted
    BY <1>6 DEF Waited, WaitAborted, AbortAtHead, End
  <1>7. CASE Answered
    BY <1>7 DEF Answered
  <1>8. CASE Refused
    <2> PICK error \in {"transient", "fatal"} : Resolved(error) \/ Threw(error)
      BY <1>8 DEF Refused
    <2>1. pc = "calling" /\ attempt >= 1 /\ attempt \in Tries /\ ~threw
      BY <1>8 DEF Refused
    <2>2. log'[attempt].error = error /\ log'[attempt].late = fired
      BY <2>1 DEF Resolved, Threw
    <2>3. CASE Resolved(error)
      <3>1. lastResult'.from = attempt /\ lastResult'.error = error
        BY <2>3 DEF Resolved
      <3>2. timedOut' = fired /\ threw' = FALSE /\ UNCHANGED attempt
        BY <1>8, <2>1, <2>3 DEF Refused, Resolved
      <3>3. Judged'
        BY <2>1, <2>2, <3>1, <3>2
      <3>4. pc' = "classify" /\ UNCHANGED outcome
        BY <1>8, <2>3 DEF Refused, Resolved
      <3> QED BY <2>1, <3>2, <3>3, <3>4
    <2>4. CASE Threw(error)
      <3>1. timedOut' = (fired /\ ~aborted) /\ threw' = TRUE /\ lastError' = error
        BY <2>4 DEF Threw
      <3>2. UNCHANGED <<attempt, aborted, outcome>> /\ pc' = "classify"
        BY <1>8, <2>4 DEF Refused, Threw
      <3>3. Judged'
        BY <2>1, <2>2, <3>1, <3>2
      <3> QED BY <2>1, <3>2, <3>3
    <2> QED BY <2>3, <2>4
  <1>9. CASE UNCHANGED vars
    BY <1>9 DEF vars
  <1> QED BY <1>1, <1>2, <1>3, <1>4, <1>5, <1>6, <1>7, <1>8, <1>9
         DEF Next, Call, Transport, Done

LEMMA Inductive == IInv /\ [Next]_vars => IInv'
  BY TypeStep, ApartStep, PolicyStep DEF IInv

THEOREM InvHolds == Spec => []IInv
  BY InitIInv, Inductive, PTL DEF Spec

(* The variables keep their types: src/core/llm.ts, src/llm.ts.            *)
THEOREM TypeCorrect == Spec => []TypeOK
  <1>1. IInv => TypeOK
    BY DEF IInv
  <1> QED BY <1>1, InvHolds, PTL

(* A value is returned whole and from the last attempt.                    *)
THEOREM ValueCorrect == Spec => []ValueIsWhole
  <1>1. IInv => ValueIsWhole
    BY DEF IInv, OutcomeRight
  <1> QED BY <1>1, InvHolds, PTL

(* The citations returned are those of the attempt that made the value.    *)
THEOREM CitationsCorrect == Spec => []CitationsBelong
  <1>1. IInv => CitationsBelong
    BY DEF IInv, OutcomeRight, ValueIsWhole, Apart, CitationsBelong
  <1> QED BY <1>1, InvHolds, PTL

(* A failure is that of the last attempt, and of the right kind.           *)
THEOREM FailureCorrect == Spec => []FailureIsTheLast
  <1>1. IInv => FailureIsTheLast
    BY DEF IInv, OutcomeRight
  <1> QED BY <1>1, InvHolds, PTL

(* An abort wins over whatever the call has in hand.                       *)
THEOREM AbortCorrect == Spec => AbortWins
  <1>1. [Next]_vars =>
          [ aborted => /\ attempt' = attempt
                       /\ pc \notin {"resolving", "ended"} /\ pc' = "ended"
                            => outcome' = "abort" ]_vars
    BY DEF Next, Environment, UserAborts, TimerFires, StreamEvent, BodyRead, Call,
           Resolve, LoopHead, StartAttempt, AbortAtHead, Settle, Resolved, Classify,
           Verdict, Waited, WaitAborted, Transport, Answered, Refused, Threw, End, Done, vars
  <1> QED BY <1>1, PTL DEF Spec, AbortWins

(* A further attempt is made only if the one before deserved it.           *)
THEOREM AttemptsDeserved == Spec => NoNeedlessAttempt
  <1>1. IInv /\ [Next]_vars =>
          [ attempt' > attempt /\ attempt > 0
              => log[attempt].late \/ log[attempt].error = "transient" ]_vars
    <2> SUFFICES ASSUME IInv, [Next]_vars, attempt' > attempt, attempt > 0
                 PROVE log[attempt].late \/ log[attempt].error = "transient"
      OBVIOUS
    <2>1. LoopHead
      BY DEF IInv, TypeOK, Next, Environment, UserAborts, TimerFires, StreamEvent, BodyRead,
             Call, Resolve, Settle, Classify, Waited, WaitAborted, AbortAtHead,
             Transport, Answered, Refused, Done, vars
    <2> QED BY <2>1 DEF LoopHead, IInv, Deserved
  <1> QED BY <1>1, InvHolds, PTL DEF Spec, NoNeedlessAttempt
=============================================================================
