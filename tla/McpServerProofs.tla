--------------------------- MODULE McpServerProofs ----------------------------
(***************************************************************************)
(* Proofs about McpServer: types, that no load is kept once its failure    *)
(* has been dealt with, and that a shutdown leaves no call unanswered.     *)
(***************************************************************************)
EXTENDS McpServer, FiniteSetTheorems, TLAPS

N == Cardinality(Calls)

LEMMA CallsCounted == N \in Nat /\ LoadIds = 1 .. N
BY ServerAssumption, FS_CardinalityType DEF N, LoadIds

-------------------------------------------------------------------------------
(* The invariant of the loads.                                             *)

Used(n) == loads[n] # "none"

(* Loads are numbered as they begin. *)
UsedInOrder == \E k \in Nat : \A n \in LoadIds : Used(n) <=> n <= k

(* Only a call that has been started has joined a load. *)
JoinedByStarted ==
  \A c \in Calls : joined[c] # 0 => status[c] \in {"running", "answered"} /\ Used(joined[c])

(* The kept load is neither over nor missing; unless it is there for good, *)
(* each load has a call that began it.                                     *)
KeptIsLive == ready # 0 => loads[ready] \notin {"none"} \cup Failures

Joiners(n) == {c \in Calls : joined[c] = n}

EachHasJoiner ==
  \/ ready # 0 /\ loads[ready] = "ok"
  \/ \A n \in LoadIds : Used(n) => Joiners(n) # {}

ResolvingHasJoined == \A c \in Calls : phase[c] = "resolving" => joined[c] \in LoadIds

RunningHasPhase == \A c \in Calls : status[c] = "running" <=> phase[c] # "none"

LoadInv ==
  /\ TypeOK
  /\ UsedInOrder /\ JoinedByStarted /\ KeptIsLive /\ EachHasJoiner /\ ResolvingHasJoined
  /\ RunningHasPhase

(* A call that waits can begin a load if none is kept: there are fewer     *)
(* loads than calls that have been started.                                *)
LEMMA NextLoadExists ==
  ASSUME LoadInv, NEW c \in Calls, status[c] = "waiting", ready = 0
  PROVE  /\ NextLoad \in LoadIds /\ ~Used(NextLoad)
         /\ \A n \in LoadIds : n < NextLoad => Used(n)
<1>1. PICK k \in Nat : \A n \in LoadIds : Used(n) <=> n <= k
  BY DEF LoadInv, UsedInOrder
<1>2. k < N
  <2> SUFFICES ASSUME k >= N PROVE FALSE
    BY <1>1, CallsCounted
  <2> DEFINE Others == Calls \ {c}
             starter == [n \in LoadIds |-> CHOOSE d \in Others : joined[d] = n]
  <2>1. \A n \in LoadIds : Used(n)
    BY <1>1, CallsCounted
  <2>2. \A n \in LoadIds : \E d \in Others : joined[d] = n
    <3>1. joined[c] = 0
      BY DEF LoadInv, JoinedByStarted
    <3>2. \A n \in LoadIds : n # 0
      BY CallsCounted
    <3>3. QED
      BY <2>1, <3>1, <3>2 DEF LoadInv, EachHasJoiner, Joiners
  <2>3. starter \in [LoadIds -> Others] /\ \A n \in LoadIds : joined[starter[n]] = n
    BY <2>2
  <2>4. IsFiniteSet(LoadIds) /\ Cardinality(LoadIds) = N
    BY CallsCounted, FS_Interval
  <2>5. IsFiniteSet(Others) /\ Cardinality(Others) = N - 1
    BY ServerAssumption, FS_RemoveElement DEF N
  <2> HIDE DEF starter, Others
  <2>6. \E x, y \in LoadIds : x # y /\ starter[x] = starter[y]
    BY <2>3, <2>4, <2>5, CallsCounted, FS_PigeonHole
  <2>7. QED
    BY <2>3, <2>6
<1>3. k + 1 \in LoadIds
  BY <1>2, CallsCounted
<1>4. \E n \in LoadIds : loads[n] = "none" /\ \A m \in 1 .. (n - 1) : loads[m] # "none"
  <2>1. loads[k + 1] = "none"
    BY <1>1, <1>3 DEF Used
  <2>2. \A m \in 1 .. k : loads[m] # "none"
    BY <1>1, <1>2, CallsCounted DEF Used
  <2>3. QED
    BY <1>3, <2>1, <2>2
<1>5. /\ NextLoad \in LoadIds /\ loads[NextLoad] = "none"
      /\ \A m \in 1 .. (NextLoad - 1) : loads[m] # "none"
  BY <1>4 DEF NextLoad
<1>6. QED
  BY <1>5, CallsCounted DEF Used

LEMMA LoadInit == Init => LoadInv
<1> SUFFICES ASSUME Init PROVE LoadInv
  OBVIOUS
<1>1. 1 \in LoadIds
  <2>1. N # 0
    BY ServerAssumption, FS_EmptySet DEF N
  <2>2. QED
    BY <2>1, CallsCounted
<1>2. TypeOK
  BY <1>1 DEF Init, TypeOK, Queue!Init, Phases, Answers, LoadStates, Failures
<1>3. UsedInOrder
  <2>1. CASE loads = [n \in LoadIds |-> IF n = 1 THEN "ok" ELSE "none"]
    <3>1. \A n \in LoadIds : Used(n) <=> n <= 1
      BY <2>1, CallsCounted DEF Used
    <3>2. QED
      BY <3>1 DEF UsedInOrder
  <2>2. CASE loads = [n \in LoadIds |-> "none"]
    <3>1. \A n \in LoadIds : Used(n) <=> n <= 0
      BY <2>2, CallsCounted DEF Used
    <3>2. QED
      BY <3>1 DEF UsedInOrder
  <2>3. QED
    BY <2>1, <2>2 DEF Init
<1>4. JoinedByStarted /\ ResolvingHasJoined /\ RunningHasPhase
  BY DEF Init, Queue!Init, JoinedByStarted, ResolvingHasJoined, RunningHasPhase
<1>5. KeptIsLive /\ EachHasJoiner
  BY <1>1 DEF Init, KeptIsLive, EachHasJoiner, Used, Failures
<1>6. QED
  BY <1>2, <1>3, <1>4, <1>5 DEF LoadInv

(* A step that concerns no load. *)
LEMMA LoadElsewhere ==
  ASSUME LoadInv, TypeOK', UNCHANGED loadVars,
         \A c \in Calls : status[c] \in {"running", "answered"} => status'[c] \in {"running", "answered"},
         \A c \in Calls : phase'[c] = "resolving" => phase[c] = "resolving",
         RunningHasPhase'
  PROVE  LoadInv'
<1>1. UNCHANGED <<loads, ready, joined>>
  BY DEF loadVars
<1>2. UsedInOrder' /\ KeptIsLive' /\ EachHasJoiner'
  BY <1>1 DEF LoadInv, UsedInOrder, KeptIsLive, EachHasJoiner, Used, Joiners
<1>3. JoinedByStarted' /\ ResolvingHasJoined'
  BY <1>1 DEF LoadInv, JoinedByStarted, ResolvingHasJoined, Used
<1>4. QED
  BY <1>2, <1>3 DEF LoadInv

(* The queue starts a call, which joins a load or begins one. *)
LEMMA LoadStart ==
  ASSUME LoadInv, NEW c \in Calls, Start(c)
  PROVE  /\ LoadInv' /\ joined'[c] \in LoadIds
         /\ loads'[joined'[c]] \notin {"none"} \cup Failures
         /\ loads'[joined'[c]] = "reading" \/ joined'[c] = ready
         /\ \A n \in LoadIds : loads'[n] # loads[n] => ~Used(n) /\ loads'[n] = "reading"
<1>1. /\ status[c] = "waiting" /\ status' = [status EXCEPT ![c] = "running"]
      /\ phase' = [phase EXCEPT ![c] = "resolving"]
      /\ UNCHANGED <<answer, cancelled, file, closeVars>>
      /\ sawBroken' = IF file = "broken" THEN sawBroken \cup {c} ELSE sawBroken
  BY DEF Start, Queue!Run, Queue!Become, Phase
<1>2. joined[c] = 0
  BY <1>1 DEF LoadInv, JoinedByStarted
<1>3. \A n \in LoadIds : n # 0 /\ n \in Nat
  BY CallsCounted
<1>4. PICK n \in LoadIds :
        /\ joined' = [joined EXCEPT ![c] = n] /\ ready' = n
        /\ \/ n = ready /\ loads' = loads
           \/ /\ ready = 0 /\ loads' = [loads EXCEPT ![n] = "reading"] /\ ~Used(n)
              /\ \A m \in LoadIds : m < n => Used(m)
        /\ joinedLive' \in {joinedLive, joinedLive \cup {c}}
  <2>1. CASE ready # 0
    BY <2>1 DEF Start, ResolveRuntime, Join, LoadInv, TypeOK
  <2>2. CASE ready = 0
    BY <1>1, <2>2, NextLoadExists DEF Start, ResolveRuntime, Join
  <2>3. QED
    BY <2>1, <2>2
<1>5. \A m \in LoadIds : loads'[m] = loads[m] \/ (m = n /\ loads'[m] = "reading" /\ ~Used(n))
  BY <1>4 DEF LoadInv, TypeOK
<1>6. loads'[n] \notin {"none"} \cup Failures /\ (loads'[n] = "reading" \/ n = ready)
  BY <1>3, <1>4 DEF LoadInv, TypeOK, KeptIsLive, Failures
<1>7. TypeOK'
  <2>1. loads' \in [LoadIds -> LoadStates]
    BY <1>4 DEF LoadInv, TypeOK, LoadStates
  <2>2. /\ status' \in [Calls -> {"new", "waiting", "running", "answered", "refused"}]
        /\ phase' \in [Calls -> Phases]
    BY <1>1 DEF LoadInv, TypeOK, Phases
  <2>3. joined' \in [Calls -> {0} \cup LoadIds] /\ ready' \in {0} \cup LoadIds
    BY <1>4 DEF LoadInv, TypeOK
  <2>4. sawBroken' \subseteq Calls /\ joinedLive' \subseteq Calls
    BY <1>1, <1>4 DEF LoadInv, TypeOK
  <2>5. QED
    BY <1>1, <2>1, <2>2, <2>3, <2>4 DEF LoadInv, TypeOK, closeVars
<1>8. \A d \in Calls : joined'[d] = IF d = c THEN n ELSE joined[d]
  BY <1>4 DEF LoadInv, TypeOK
<1>9. UsedInOrder'
  <2>1. CASE loads' = loads
    BY <2>1 DEF LoadInv, UsedInOrder, Used
  <2>2. CASE ready = 0 /\ loads' = [loads EXCEPT ![n] = "reading"] /\ ~Used(n)
             /\ \A m \in LoadIds : m < n => Used(m)
    <3>1. \A m \in LoadIds : Used(m) <=> m < n
      <4>1. PICK k \in Nat : \A m \in LoadIds : Used(m) <=> m <= k
        BY DEF LoadInv, UsedInOrder
      <4>2. QED
        BY <1>3, <2>2, <4>1
    <3>2. \A m \in LoadIds : Used(m)' <=> m <= n
      BY <1>3, <2>2, <3>1 DEF Used, LoadInv, TypeOK
    <3>3. QED
      BY <1>3, <3>2 DEF UsedInOrder
  <2>3. QED
    BY <1>4, <2>1, <2>2
<1>10. JoinedByStarted'
  BY <1>1, <1>5, <1>6, <1>8 DEF LoadInv, JoinedByStarted, Used, TypeOK
<1>11. KeptIsLive'
  BY <1>4, <1>6 DEF KeptIsLive
<1>12. EachHasJoiner'
  <2>1. CASE ready # 0 /\ loads[ready] = "ok"
    BY <1>3, <1>4, <2>1 DEF EachHasJoiner
  <2>2. CASE \A m \in LoadIds : Used(m) => Joiners(m) # {}
    <3>1. ASSUME NEW m \in LoadIds, Used(m)'
          PROVE  Joiners(m)' # {}
      <4>1. CASE m = n
        BY <1>8, <4>1 DEF Joiners
      <4>2. CASE m # n
        <5>1. PICK d \in Calls : joined[d] = m
          BY <1>5, <2>2, <3>1, <4>2 DEF Used, Joiners
        <5>2. QED
          BY <1>2, <1>3, <1>8, <5>1 DEF Joiners
      <4>3. QED
        BY <4>1, <4>2
    <3>2. QED
      BY <3>1 DEF EachHasJoiner
  <2>3. QED
    BY <2>1, <2>2 DEF LoadInv, EachHasJoiner
<1>13. ResolvingHasJoined' /\ RunningHasPhase'
  BY <1>1, <1>8 DEF LoadInv, ResolvingHasJoined, RunningHasPhase, TypeOK
<1>14. QED
  BY <1>4, <1>5, <1>6, <1>7, <1>8, <1>9, <1>10, <1>11, <1>12, <1>13 DEF LoadInv

(* A load goes on, and is told of only once it has been forgotten; nobody  *)
(* joins it by that.                                                       *)
Steps == {"readGood", "readBad", "unreadable", "unusable", "ok"} \cup Failures

LEMMA LoadStep ==
  ASSUME LoadInv, NEW n \in LoadIds, Load(n)
  PROVE  /\ UNCHANGED <<requestVars, file, joined, closeVars, history>>
         /\ ready' = ready \/ (ready = n /\ ready' = 0)
         /\ loads[n] \in {"reading", "readGood", "readBad", "unreadable", "unusable"}
         /\ \E state \in Steps :
              /\ loads' = [loads EXCEPT ![n] = state]
              /\ state \in Failures => ready' # n
              /\ state = "readBad" => loads[n] = "reading" /\ file = "broken"
              /\ state = "unreadable" => loads[n] = "readBad"
              /\ state = "configuration" => loads[n] = "unreadable"
<1>1. file \in {"good", "broken"}
  BY DEF LoadInv, TypeOK
<1>2. CASE ReadFile(n)
  <2>1. CASE file = "good"
    BY <1>2, <2>1 DEF ReadFile, Steps, Failures
  <2>2. CASE file = "broken"
    BY <1>2, <2>2 DEF ReadFile, Steps, Failures
  <2>3. QED
    BY <1>1, <2>1, <2>2
<1>3. CASE LoadSucceeds(n) \/ LoadFails(n) \/ RuntimeFails(n)
  BY <1>3 DEF LoadSucceeds, LoadFails, RuntimeFails, Steps, Failures
<1>4. CASE Forget(n)
  <2>1. n # 0
    BY CallsCounted
  <2>2. /\ loads[n] \in {"unreadable", "unusable"}
        /\ loads' = [loads EXCEPT ![n] = Told(n)]
        /\ ready' = IF ready = n THEN 0 ELSE ready
        /\ UNCHANGED <<requestVars, file, joined, closeVars, history>>
    BY <1>4 DEF Forget
  <2>3. CASE loads[n] = "unreadable"
    BY <2>1, <2>2, <2>3 DEF Told, Steps, Failures
  <2>4. CASE loads[n] = "unusable"
    BY <2>1, <2>2, <2>4 DEF Told, Steps, Failures
  <2>5. QED
    BY <2>2, <2>3, <2>4
<1>5. QED
  BY <1>2, <1>3, <1>4 DEF Load

LEMMA LoadGoesOn ==
  ASSUME LoadInv, NEW n \in LoadIds, Load(n)
  PROVE  LoadInv'
<1>1. /\ UNCHANGED <<requestVars, file, joined, closeVars, history>>
      /\ loads[n] \notin {"none", "ok"}
      /\ ready' = ready \/ (ready = n /\ ready' = 0)
  BY LoadStep
<1>2. PICK state \in Steps :
        loads' = [loads EXCEPT ![n] = state] /\ (state \in Failures => ready' # n)
  BY LoadStep
<1>3. /\ \A m \in LoadIds : loads'[m] = IF m = n THEN state ELSE loads[m]
      /\ state # "none"
  BY <1>2 DEF LoadInv, TypeOK, Steps, Failures
<1>4. \A m \in LoadIds : Used(m)' <=> Used(m)
  BY <1>1, <1>3 DEF Used
<1>5. UNCHANGED <<status, phase, joined>>
  BY <1>1 DEF requestVars
<1>6. TypeOK'
  <2>1. loads' \in [LoadIds -> LoadStates]
    BY <1>2 DEF LoadInv, TypeOK, LoadStates, Steps
  <2>2. ready' \in {0} \cup LoadIds
    BY <1>1 DEF LoadInv, TypeOK
  <2>3. QED
    BY <1>1, <2>1, <2>2 DEF LoadInv, TypeOK, requestVars, closeVars, history
<1>7. UsedInOrder'
  BY <1>4 DEF LoadInv, UsedInOrder
<1>8. JoinedByStarted'
  BY <1>4, <1>5 DEF LoadInv, JoinedByStarted, TypeOK
<1>9. KeptIsLive'
  BY <1>1, <1>2, <1>3 DEF LoadInv, TypeOK, KeptIsLive
<1>10. EachHasJoiner'
  <2>1. CASE ready # 0 /\ loads[ready] = "ok"
    BY <1>1, <1>3, <2>1 DEF LoadInv, TypeOK, EachHasJoiner
  <2>2. CASE \A m \in LoadIds : Used(m) => Joiners(m) # {}
    BY <1>4, <1>5, <2>2 DEF EachHasJoiner, Joiners
  <2>3. QED
    BY <2>1, <2>2 DEF LoadInv, EachHasJoiner
<1>11. ResolvingHasJoined' /\ RunningHasPhase'
  BY <1>5 DEF LoadInv, ResolvingHasJoined, RunningHasPhase
<1>12. QED
  BY <1>6, <1>7, <1>8, <1>9, <1>10, <1>11 DEF LoadInv

(* A running call is answered. *)
LEMMA FinishStep ==
  ASSUME TypeOK, RunningHasPhase, NEW c \in Calls, NEW a \in Answers, Finish(c, a)
  PROVE  /\ status[c] = "running" /\ status' = [status EXCEPT ![c] = "answered"]
         /\ phase' = [phase EXCEPT ![c] = "none"] /\ answer' = [answer EXCEPT ![c] = a]
         /\ status' \in [Calls -> {"new", "waiting", "running", "answered", "refused"}]
         /\ phase' \in [Calls -> Phases] /\ answer' \in [Calls -> Answers]
         /\ RunningHasPhase'
<1>1. /\ status[c] = "running" /\ status' = [status EXCEPT ![c] = "answered"]
      /\ phase' = [phase EXCEPT ![c] = "none"] /\ answer' = [answer EXCEPT ![c] = a]
  BY DEF Finish, Queue!Answer, Queue!Become, Answer, Phase
<1>2. QED
  BY <1>1 DEF TypeOK, RunningHasPhase, Phases

(* What waits is refused when the server closes. *)
LEMMA CloseStep ==
  ASSUME TypeOK, BeginClose
  PROVE  /\ shutdown' \in BOOLEAN /\ closing' \in {"open", "draining", "closed"}
         /\ status' \in [Calls -> {"new", "waiting", "running", "answered", "refused"}]
         /\ answer' \in [Calls -> Answers]
         /\ \A c \in Calls : status'[c] = status[c] \/ (status[c] = "waiting" /\ status'[c] = "refused")
         /\ \A c \in Calls : answer'[c] = answer[c] \/ (status'[c] = "refused" /\ answer'[c] = "cancelled")
BY DEF BeginClose, TypeOK, Waiting, Answers

LEMMA LoadNext == LoadInv /\ [Next]_vars => LoadInv'
<1> SUFFICES ASSUME LoadInv, [Next]_vars
             PROVE  LoadInv'
  OBVIOUS
<1>t. TypeOK /\ RunningHasPhase
  BY DEF LoadInv
<1>1. ASSUME NEW c \in Calls, Submit(c) \/ Cancel(c)
      PROVE  LoadInv'
  <2>1. /\ UNCHANGED <<phase, file, loadVars, closeVars, history>> /\ cancelled' \subseteq Calls
        /\ \/ UNCHANGED status
           \/ status[c] \in {"new", "waiting"}
              /\ \E place \in {"waiting", "refused"} : status' = [status EXCEPT ![c] = place]
        /\ \/ UNCHANGED answer
           \/ \E a \in {"cancelled", "busy"} : answer' = [answer EXCEPT ![c] = a]
    BY <1>1, <1>t DEF Submit, Cancel, Queue!Refuse, Queue!Accept, Queue!Become, Answer, TypeOK
  <2>2. TypeOK'
    <3>1. status' \in [Calls -> {"new", "waiting", "running", "answered", "refused"}]
      BY <2>1, <1>t DEF TypeOK
    <3>2. answer' \in [Calls -> Answers]
      BY <2>1, <1>t DEF TypeOK, Answers
    <3>3. QED
      BY <2>1, <3>1, <3>2, <1>t DEF TypeOK, loadVars, closeVars, history
  <2>3. RunningHasPhase' /\ \A d \in Calls : status'[d] = status[d] \/ status[d] \in {"new", "waiting"}
    BY <1>t, <2>1 DEF RunningHasPhase, TypeOK
  <2>4. QED
    BY <2>1, <2>2, <2>3, LoadElsewhere
<1>2. ASSUME NEW c \in Calls, Refused(c) \/ BeginExecution(c) \/ EndExecution(c) \/ Hang(c)
      PROVE  LoadInv'
  <2>1. UNCHANGED <<cancelled, file, loadVars, closeVars, history>>
    BY <1>2 DEF Refused, BeginExecution, EndExecution, Hang
  <2>2. CASE \E a \in Answers : Finish(c, a)
    <3>1. /\ status[c] = "running" /\ status' = [status EXCEPT ![c] = "answered"]
          /\ phase' = [phase EXCEPT ![c] = "none"]
          /\ status' \in [Calls -> {"new", "waiting", "running", "answered", "refused"}]
          /\ phase' \in [Calls -> Phases] /\ answer' \in [Calls -> Answers]
          /\ RunningHasPhase'
      BY <1>t, <2>2, FinishStep
    <3>2. TypeOK'
      BY <1>t, <2>1, <3>1 DEF TypeOK, loadVars, closeVars, history
    <3>3. QED
      BY <1>t, <2>1, <3>1, <3>2, LoadElsewhere DEF TypeOK
  <2>3. CASE /\ UNCHANGED <<status, answer>> /\ phase[c] \in {"resolving", "executing"}
             /\ \E place \in {"executing", "hung"} : phase' = [phase EXCEPT ![c] = place]
    <3>1. TypeOK'
      BY <1>t, <2>1, <2>3 DEF TypeOK, Phases, loadVars, closeVars, history
    <3>2. RunningHasPhase'
      BY <1>t, <2>3 DEF TypeOK, RunningHasPhase
    <3>3. QED
      BY <1>t, <2>1, <2>3, <3>1, <3>2, LoadElsewhere DEF TypeOK
  <2>4. QED
    BY <1>2, <2>2, <2>3 DEF Refused, BeginExecution, EndExecution, Hang, Phase, Answers
<1>3. ASSUME ConnectionCloses \/ \E s \in Signals : SignalArrives(s)
      PROVE  LoadInv'
  <2>1. /\ UNCHANGED <<phase, cancelled, file, loadVars, history>>
        /\ signals' \subseteq Signals /\ exit' \in {"none", "0", "1", "signal", "killed"}
        /\ BeginClose \/ UNCHANGED <<status, answer, shutdown, closing>>
    BY <1>3, <1>t DEF ConnectionCloses, SignalArrives, TypeOK
  <2>2. /\ shutdown' \in BOOLEAN /\ closing' \in {"open", "draining", "closed"}
        /\ status' \in [Calls -> {"new", "waiting", "running", "answered", "refused"}]
        /\ answer' \in [Calls -> Answers]
        /\ \A c \in Calls : status'[c] = status[c] \/ (status[c] = "waiting" /\ status'[c] = "refused")
    <3>1. CASE BeginClose
      BY <1>t, <3>1, CloseStep
    <3>2. CASE UNCHANGED <<status, answer, shutdown, closing>>
      BY <1>t, <3>2 DEF TypeOK
    <3>3. QED
      BY <2>1, <3>1, <3>2
  <2>3. TypeOK'
    BY <1>t, <2>1, <2>2 DEF TypeOK, loadVars, history
  <2>4. RunningHasPhase'
    BY <1>t, <2>1, <2>2 DEF RunningHasPhase
  <2>5. QED
    BY <2>1, <2>2, <2>3, <2>4, LoadElsewhere
<1>4. ASSUME EditFile \/ Drained \/ Exit \/ HardExit \/ UNCHANGED vars
      PROVE  LoadInv'
  <2>1. /\ UNCHANGED <<status, phase, answer, cancelled, loadVars>>
        /\ file' \in {"good", "broken"}
        /\ closing' \in {"open", "draining", "closed"} /\ UNCHANGED <<shutdown, signals>>
        /\ exit' \in {"none", "0", "1", "signal", "killed"}
        /\ sawBroken' \subseteq Calls /\ UNCHANGED joinedLive
    BY <1>4, <1>t
    DEF EditFile, Drained, Exit, HardExit, Leave, vars, requestVars, closeVars, history, TypeOK
  <2>2. TypeOK'
    BY <1>t, <2>1 DEF TypeOK, loadVars
  <2>3. RunningHasPhase'
    BY <1>t, <2>1 DEF RunningHasPhase
  <2>4. QED
    BY <2>1, <2>2, <2>3, LoadElsewhere
<1>5. QED
  BY <1>1, <1>2, <1>3, <1>4, LoadStart, LoadGoesOn DEF Next, Ended

(* The variables of the server keep their types; in particular no call     *)
(* ever needs more loads than there are calls.                             *)
THEOREM TypeCorrect == Spec => []TypeOK
<1>1. LoadInv => TypeOK
  BY DEF LoadInv
<1>2. QED
  BY <1>1, LoadInit, LoadNext, PTL DEF Spec

-------------------------------------------------------------------------------
(* Refusals.                                                               *)

BrokenSeen == file = "broken" => \A c \in Calls : phase[c] = "resolving" => c \in sawBroken

(* A call that joined a load which is not a configuration found it alive.  *)
JoinedAlive == \A c \in Calls : joined[c] # 0 /\ loads[joined[c]] # "ok" => c \in joinedLive

(* While the file is being read, those that joined wait for it. *)
ReadersWait ==
  \A c \in Calls : joined[c] # 0 /\ loads[joined[c]] = "reading" => phase[c] = "resolving"

Blameless(c) == c \in sawBroken \/ \E d \in Calls \ {c} : joined[d] = joined[c]

Bad == {"readBad", "unreadable", "configuration"}

BadIsSeen ==
  \A c \in Calls : joined[c] # 0 /\ loads[joined[c]] \in Bad => Blameless(c)

RefusedByFailure ==
  \A c \in Calls : answer[c] \in Failures => joined[c] # 0 /\ loads[joined[c]] = answer[c]

RefusalInv ==
  LoadInv /\ BrokenSeen /\ JoinedAlive /\ ReadersWait /\ BadIsSeen /\ RefusedByFailure

LEMMA RefusalInit == Init => RefusalInv
<1> SUFFICES ASSUME Init PROVE RefusalInv
  OBVIOUS
<1>1. BrokenSeen /\ JoinedAlive /\ ReadersWait /\ BadIsSeen /\ RefusedByFailure
  BY DEF Init, BrokenSeen, JoinedAlive, ReadersWait, BadIsSeen, RefusedByFailure, Failures
<1>2. QED
  BY <1>1, LoadInit DEF RefusalInv

(* A step that leaves the loads alone and starts nothing. *)
LEMMA RefusalElsewhere ==
  ASSUME RefusalInv, UNCHANGED <<loadVars, joinedLive>>,
         \A c \in Calls : phase'[c] = "resolving" => phase[c] = "resolving",
         \A c \in Calls : phase[c] = "resolving" /\ loads[joined[c]] = "reading"
                            => phase'[c] = "resolving",
         \A c \in Calls : answer'[c] \in Failures /\ answer'[c] # answer[c]
                            => loads[joined[c]] = answer'[c] /\ joined[c] # 0,
         sawBroken \subseteq sawBroken',
         file' = "broken" => file = "broken" \/ \A c \in Calls : phase[c] = "resolving" => c \in sawBroken'
  PROVE  BrokenSeen' /\ JoinedAlive' /\ ReadersWait' /\ BadIsSeen' /\ RefusedByFailure'
<1>1. UNCHANGED <<loads, joined, joinedLive>>
  BY DEF loadVars
<1>2. BrokenSeen'
  BY DEF RefusalInv, BrokenSeen
<1>3. JoinedAlive' /\ ReadersWait'
  BY <1>1 DEF RefusalInv, JoinedAlive, ReadersWait
<1>4. BadIsSeen'
  BY <1>1 DEF RefusalInv, BadIsSeen, Blameless
<1>5. RefusedByFailure'
  BY <1>1 DEF RefusalInv, RefusedByFailure
<1>6. QED
  BY <1>2, <1>3, <1>4, <1>5

LEMMA RefusalStart ==
  ASSUME RefusalInv, NEW c \in Calls, Start(c)
  PROVE  BrokenSeen' /\ JoinedAlive' /\ ReadersWait' /\ BadIsSeen' /\ RefusedByFailure'
<1>1. /\ status[c] = "waiting" /\ phase' = [phase EXCEPT ![c] = "resolving"]
      /\ UNCHANGED <<answer, file>>
      /\ sawBroken' = IF file = "broken" THEN sawBroken \cup {c} ELSE sawBroken
      /\ joinedLive' = IF loads'[joined'[c]] \in {"ok"} \cup Failures
                       THEN joinedLive ELSE joinedLive \cup {c}
      /\ \E n : joined' = [joined EXCEPT ![c] = n]
  <2>1. /\ status[c] = "waiting" /\ phase' = [phase EXCEPT ![c] = "resolving"]
        /\ UNCHANGED <<answer, file>>
        /\ sawBroken' = IF file = "broken" THEN sawBroken \cup {c} ELSE sawBroken
    BY DEF Start, Queue!Run, Phase
  <2>2. PICK n : Join(c, n)
    BY DEF Start, ResolveRuntime
  <2>3. joined'[c] = n
    BY <2>2 DEF Join, RefusalInv, LoadInv, TypeOK
  <2>4. QED
    BY <2>1, <2>2, <2>3 DEF Join
<1>2. joined[c] = 0 /\ \A d \in Calls : d # c => joined'[d] = joined[d]
  BY <1>1 DEF RefusalInv, LoadInv, JoinedByStarted, TypeOK
<1>3. /\ joined'[c] \in LoadIds /\ loads'[joined'[c]] \notin {"none"} \cup Failures
      /\ loads'[joined'[c]] = "reading" \/ joined'[c] = ready
      /\ \A n \in LoadIds : loads'[n] # loads[n] => ~Used(n) /\ loads'[n] = "reading"
  BY LoadStart DEF RefusalInv
(* The loads that others have joined are as they were. *)
<1>4. \A d \in Calls : d # c /\ joined[d] # 0 => loads'[joined[d]] = loads[joined[d]]
  BY <1>3 DEF RefusalInv, LoadInv, TypeOK, JoinedByStarted
<1>5. BrokenSeen'
  BY <1>1 DEF RefusalInv, BrokenSeen, LoadInv, TypeOK
<1>6. JoinedAlive'
  BY <1>1, <1>2, <1>3, <1>4 DEF RefusalInv, JoinedAlive
<1>7. ReadersWait'
  BY <1>1, <1>2, <1>4 DEF RefusalInv, ReadersWait, LoadInv, TypeOK
<1>8. BadIsSeen'
  <2>1. ASSUME loads'[joined'[c]] \in Bad
        PROVE  Blameless(c)'
    <3>1. joined'[c] = ready /\ ready # 0 /\ loads[ready] # "ok" /\ Used(ready) /\ ready \in LoadIds
      BY <1>3, <2>1, CallsCounted DEF Used, Bad
    <3>2. PICK d \in Calls : joined[d] = ready
      BY <3>1 DEF RefusalInv, LoadInv, EachHasJoiner, Joiners
    <3>3. d # c /\ joined'[d] = joined'[c]
      BY <1>2, <3>1, <3>2
    <3>4. QED
      BY <3>3 DEF Blameless
  <2>2. ASSUME NEW d \in Calls, d # c, joined'[d] # 0, loads'[joined'[d]] \in Bad
        PROVE  Blameless(d)'
    <3>1. joined'[d] = joined[d] /\ Blameless(d)
      BY <1>2, <1>4, <2>2 DEF RefusalInv, BadIsSeen
    <3>2. CASE d \in sawBroken
      BY <1>1, <3>2 DEF Blameless
    <3>3. CASE \E e \in Calls \ {d} : joined[e] = joined[d]
      <4>1. PICK e \in Calls \ {d} : joined[e] = joined[d]
        BY <3>3
      <4>2. e # c
        BY <1>2, <2>2, <3>1, <4>1
      <4>3. QED
        BY <1>2, <3>1, <4>1, <4>2 DEF Blameless
    <3>4. QED
      BY <3>1, <3>2, <3>3 DEF Blameless
  <2>3. QED
    BY <2>1, <2>2 DEF BadIsSeen
<1>9. RefusedByFailure'
  <2>1. answer'[c] \notin Failures
    BY <1>1, <1>2 DEF RefusalInv, RefusedByFailure
  <2>2. QED
    BY <1>1, <1>2, <1>4, <2>1 DEF RefusalInv, RefusedByFailure
<1>10. QED
  BY <1>5, <1>6, <1>7, <1>8, <1>9

(* A load goes on: if it finds the file broken, those that wait saw it.    *)
LEMMA RefusalLoad ==
  ASSUME RefusalInv, NEW n \in LoadIds, Load(n)
  PROVE  BrokenSeen' /\ JoinedAlive' /\ ReadersWait' /\ BadIsSeen' /\ RefusedByFailure'
<1>1. /\ UNCHANGED <<phase, answer, file, joined, sawBroken, joinedLive>>
      /\ loads[n] \notin {"ok"} \cup Failures
  BY LoadStep DEF RefusalInv, requestVars, history, Failures
<1>2. PICK state \in Steps :
        /\ loads' = [loads EXCEPT ![n] = state]
        /\ state = "readBad" => loads[n] = "reading" /\ file = "broken"
        /\ state \in Bad \ {"readBad"} => loads[n] \in Bad
        /\ state # "reading"
  BY LoadStep DEF RefusalInv, Bad, Steps, Failures
<1>3. \A c \in Calls : joined[c] # 0 =>
        loads'[joined[c]] = IF joined[c] = n THEN state ELSE loads[joined[c]]
  BY <1>2 DEF RefusalInv, LoadInv, TypeOK
<1>4. BrokenSeen'
  BY <1>1 DEF RefusalInv, BrokenSeen
<1>5. JoinedAlive' /\ ReadersWait'
  BY <1>1, <1>2, <1>3 DEF RefusalInv, JoinedAlive, ReadersWait
<1>6. BadIsSeen'
  <2>1. ASSUME NEW c \in Calls, joined[c] # 0, loads'[joined[c]] \in Bad
        PROVE  Blameless(c)
    <3>1. CASE joined[c] = n /\ state = "readBad"
      BY <1>2, <2>1, <3>1 DEF RefusalInv, ReadersWait, BrokenSeen, Blameless
    <3>2. CASE ~(joined[c] = n /\ state = "readBad")
      BY <1>2, <1>3, <2>1, <3>2 DEF RefusalInv, BadIsSeen
    <3>3. QED
      BY <3>1, <3>2
  <2>2. QED
    BY <1>1, <2>1 DEF BadIsSeen, Blameless
<1>7. RefusedByFailure'
  BY <1>1, <1>2, <1>3 DEF RefusalInv, RefusedByFailure
<1>8. QED
  BY <1>4, <1>5, <1>6, <1>7

LEMMA RefusalNext == RefusalInv /\ [Next]_vars => RefusalInv'
<1> SUFFICES ASSUME RefusalInv, [Next]_vars
             PROVE  BrokenSeen' /\ JoinedAlive' /\ ReadersWait' /\ BadIsSeen' /\ RefusedByFailure'
  BY LoadNext DEF RefusalInv
<1> DEFINE Kept == BrokenSeen' /\ JoinedAlive' /\ ReadersWait' /\ BadIsSeen' /\ RefusedByFailure'
<1>t. TypeOK /\ RunningHasPhase /\ LoadInv
  BY DEF RefusalInv, LoadInv
<1>1. ASSUME NEW c \in Calls, Submit(c) \/ Cancel(c)
      PROVE  Kept
  <2>1. /\ UNCHANGED <<phase, file, loadVars, history>>
        /\ \/ UNCHANGED answer
           \/ \E a \in {"cancelled", "busy"} : answer' = [answer EXCEPT ![c] = a]
    BY <1>1 DEF Submit, Cancel, Answer
  <2>2. \A d \in Calls : answer'[d] = answer[d] \/ answer'[d] \notin Failures
    BY <1>t, <2>1 DEF TypeOK, Failures
  <2>3. QED
    BY <2>1, <2>2, RefusalElsewhere DEF history
<1>2. ASSUME NEW c \in Calls, Refused(c)
      PROVE  Kept
  <2>1. /\ phase[c] = "resolving" /\ loads[joined[c]] \in Failures /\ joined[c] \in LoadIds
        /\ UNCHANGED <<file, loadVars, history>>
        /\ phase' = [phase EXCEPT ![c] = "none"]
        /\ answer' = [answer EXCEPT ![c] = loads[joined[c]]]
    BY <1>2, <1>t DEF Refused, Finish, Answer, Phase, LoadInv, ResolvingHasJoined
  <2>2. joined[c] # 0
    BY <2>1, CallsCounted
  <2>3. \A d \in Calls : d # c => phase'[d] = phase[d] /\ answer'[d] = answer[d]
    BY <1>t, <2>1 DEF TypeOK
  <2>4. phase'[c] = "none"
    BY <1>t, <2>1 DEF TypeOK
  <2>5. QED
    <3>1. answer'[c] = loads[joined[c]] /\ loads[joined[c]] # "reading"
      BY <1>t, <2>1 DEF TypeOK, Failures
    <3>2. \A d \in Calls : phase'[d] = "resolving" => phase[d] = "resolving"
      BY <2>3, <2>4
    <3>3. \A d \in Calls : phase[d] = "resolving" /\ loads[joined[d]] = "reading"
                            => phase'[d] = "resolving"
      BY <2>3, <3>1
    <3>4. \A d \in Calls : answer'[d] \in Failures /\ answer'[d] # answer[d]
                            => loads[joined[d]] = answer'[d] /\ joined[d] # 0
      BY <2>2, <2>3, <3>1
    <3>5. QED
      BY <2>1, <3>2, <3>3, <3>4, RefusalElsewhere DEF history
<1>3. ASSUME NEW c \in Calls, BeginExecution(c) \/ EndExecution(c) \/ Hang(c)
      PROVE  Kept
  <2>1. /\ phase[c] = "executing" \/ loads[joined[c]] = "ok"
        /\ UNCHANGED <<file, loadVars, history>>
        /\ \E place \in {"none", "executing", "hung"} : phase' = [phase EXCEPT ![c] = place]
        /\ \/ UNCHANGED answer
           \/ \E a \in {"result", "cancelled", "error"} : answer' = [answer EXCEPT ![c] = a]
    BY <1>3 DEF BeginExecution, EndExecution, Hang, Finish, Answer, Phase
  <2>2. \A d \in Calls : answer'[d] = answer[d] \/ answer'[d] \notin Failures
    BY <1>t, <2>1 DEF TypeOK, Failures
  <2>3. \A d \in Calls : IF d = c THEN phase'[d] \in {"none", "executing", "hung"}
                                  ELSE phase'[d] = phase[d]
    BY <1>t, <2>1 DEF TypeOK
  <2>4. QED
    BY <2>1, <2>2, <2>3, RefusalElsewhere DEF history
<1>4. ASSUME ConnectionCloses \/ \E s \in Signals : SignalArrives(s)
      PROVE  Kept
  <2>1. /\ UNCHANGED <<phase, file, loadVars, history>>
        /\ BeginClose \/ UNCHANGED answer
    BY <1>4 DEF ConnectionCloses, SignalArrives
  <2>2. \A d \in Calls : answer'[d] = answer[d] \/ answer'[d] \notin Failures
    BY <1>t, <2>1, CloseStep DEF Failures
  <2>3. QED
    BY <2>1, <2>2, RefusalElsewhere DEF history
<1>5. CASE EditFile
  <2>1. /\ UNCHANGED <<phase, answer, loadVars, joinedLive>>
        /\ file' = IF file = "good" THEN "broken" ELSE "good"
        /\ sawBroken' = IF file' = "broken"
                        THEN sawBroken \cup {c \in Calls : phase[c] = "resolving"}
                        ELSE sawBroken
    BY <1>5 DEF EditFile, requestVars
  <2>2. QED
    BY <2>1, RefusalElsewhere
<1>6. CASE Drained \/ Exit \/ HardExit \/ UNCHANGED vars
  <2>1. UNCHANGED <<phase, answer, file, loadVars, history>>
    BY <1>6 DEF Drained, Exit, HardExit, Leave, vars, requestVars
  <2>2. QED
    BY <2>1, RefusalElsewhere DEF history
<1>7. QED
  BY <1>1, <1>2, <1>3, <1>4, <1>5, <1>6, RefusalStart, RefusalLoad DEF Next, Ended

(* A call is refused only by a load whose failure had not been dealt with  *)
(* when it joined, and for the configuration only if the file was broken   *)
(* while it waited, unless it shares the load: for any number of calls,    *)
(* edits and repairs.                                                      *)
THEOREM RefusalCorrect == Spec => []RefusalIsCurrent
<1>1. RefusalInv => RefusalIsCurrent
  BY DEF RefusalInv, JoinedAlive, BadIsSeen, RefusedByFailure, Blameless,
         RefusalIsCurrent, Bad, Failures
<1>2. QED
  BY <1>1, RefusalInit, RefusalNext, PTL DEF Spec

-------------------------------------------------------------------------------
(* Shutdown.                                                               *)

(* Every call that left the queue was told so; once the server closes none *)
(* waits, and it is closed only when none runs.                            *)
CloseInv ==
  /\ LoadInv
  /\ \A c \in Calls : status[c] \in {"answered", "refused"} => answer[c] # "none"
  /\ shutdown <=> closing # "open"
  /\ closing # "open" => \A c \in Calls : status[c] # "waiting"
  /\ closing = "closed" => \A c \in Calls : status[c] # "running"
  /\ exit \in {"0", "signal"} => closing = "closed"

LEMMA CloseNext == CloseInv /\ [Next]_vars => CloseInv'
<1> SUFFICES ASSUME CloseInv, [Next]_vars
             PROVE  CloseInv'
  OBVIOUS
<1>t. LoadInv' /\ TypeOK /\ TypeOK' /\ RunningHasPhase
  BY LoadNext DEF CloseInv, LoadInv
<1>1. ASSUME NEW c \in Calls, Submit(c)
      PROVE  CloseInv'
  <2>1. /\ UNCHANGED closeVars /\ status[c] = "new"
        /\ \/ /\ ~shutdown /\ status' = [status EXCEPT ![c] = "waiting"] /\ UNCHANGED answer
           \/ /\ status' = [status EXCEPT ![c] = "refused"]
              /\ \E a \in {"cancelled", "busy"} : answer' = [answer EXCEPT ![c] = a]
    BY <1>1 DEF Submit, Queue!Refuse, Queue!Accept, Queue!Become, Answer, Aborted
  <2>2. QED
    BY <1>t, <2>1 DEF CloseInv, TypeOK, closeVars
<1>2. ASSUME NEW c \in Calls, Cancel(c)
      PROVE  CloseInv'
  <2>1. /\ UNCHANGED closeVars
        /\ \/ UNCHANGED <<status, answer>>
           \/ /\ status' = [status EXCEPT ![c] = "refused"]
              /\ answer' = [answer EXCEPT ![c] = "cancelled"]
    BY <1>2 DEF Cancel, Queue!Become, Answer
  <2>2. QED
    BY <1>t, <2>1 DEF CloseInv, TypeOK, closeVars
<1>3. ASSUME NEW c \in Calls, Start(c)
      PROVE  CloseInv'
  <2>1. /\ UNCHANGED <<closeVars, answer>> /\ closing = "open"
        /\ status[c] = "waiting" /\ status' = [status EXCEPT ![c] = "running"]
    BY <1>3 DEF Start, Queue!Run, Queue!Become
  <2>2. QED
    BY <1>t, <2>1 DEF CloseInv, TypeOK, closeVars
<1>4. ASSUME NEW c \in Calls, Refused(c) \/ BeginExecution(c) \/ EndExecution(c) \/ Hang(c)
      PROVE  CloseInv'
  <2>1. /\ UNCHANGED closeVars
        /\ \/ UNCHANGED <<status, answer>>
           \/ \E a \in {"cancelled", "result", "error"} \cup Failures : Finish(c, a)
    BY <1>4 DEF Refused, BeginExecution, EndExecution, Hang
  <2>2. CASE UNCHANGED <<status, answer>>
    BY <1>t, <2>1, <2>2 DEF CloseInv, closeVars
  <2>3. CASE \E a \in {"cancelled", "result", "error"} \cup Failures : Finish(c, a)
    <3>1. PICK a \in {"cancelled", "result", "error"} \cup Failures :
            /\ status' = [status EXCEPT ![c] = "answered"]
            /\ answer' = [answer EXCEPT ![c] = a]
      BY <2>3 DEF Finish, Queue!Answer, Queue!Become, Answer
    <3>2. QED
      BY <1>t, <2>1, <3>1 DEF CloseInv, TypeOK, closeVars, Failures
  <2>4. QED
    BY <2>1, <2>2, <2>3
<1>5. ASSUME ConnectionCloses \/ \E s \in Signals : SignalArrives(s)
      PROVE  CloseInv'
  <2>1. CASE BeginClose /\ UNCHANGED exit
    <3>1. CASE closing # "open"
      BY <1>t, <2>1, <3>1 DEF BeginClose, CloseInv
    <3>2. CASE closing = "open"
      <4>1. /\ shutdown' = TRUE /\ closing' = "draining" /\ UNCHANGED exit
            /\ status' = [c \in Calls |-> IF c \in Waiting THEN "refused" ELSE status[c]]
            /\ answer' = [c \in Calls |-> IF c \in Waiting THEN "cancelled" ELSE answer[c]]
        BY <2>1, <3>2 DEF BeginClose
      <4>2. \A c \in Calls : c \in Waiting <=> status[c] = "waiting"
        BY DEF Waiting
      <4>3. QED
        BY <1>t, <3>2, <4>1, <4>2 DEF CloseInv
    <3>3. QED
      BY <3>1, <3>2
  <2>2. CASE exit' = "killed" /\ UNCHANGED <<status, answer, shutdown, closing>>
    BY <1>t, <2>2 DEF CloseInv
  <2>3. QED
    BY <1>5, <2>1, <2>2 DEF ConnectionCloses, SignalArrives
<1>6. CASE Drained
  <2>1. /\ closing = "draining" /\ closing' = "closed"
        /\ UNCHANGED <<status, answer, shutdown, exit>>
        /\ \A c \in Calls : status[c] # "running"
    BY <1>6 DEF Drained, Queue!Busy, requestVars
  <2>2. QED
    BY <1>t, <2>1 DEF CloseInv
<1>7. CASE Exit \/ HardExit
  <2>1. /\ UNCHANGED <<status, answer, shutdown, closing>>
        /\ exit' = "1" \/ closing = "closed"
    BY <1>7 DEF Exit, HardExit, Leave, requestVars
  <2>2. QED
    BY <1>t, <2>1 DEF CloseInv
<1>8. CASE \/ EditFile \/ UNCHANGED vars
           \/ \E n \in LoadIds : Load(n)
  <2>1. UNCHANGED <<status, answer, shutdown, closing, exit>>
    BY <1>8 DEF EditFile, Load, ReadFile, LoadSucceeds, LoadFails,
        RuntimeFails, Forget, vars, requestVars, closeVars
  <2>2. QED
    BY <1>t, <2>1 DEF CloseInv
<1>9. QED
  BY <1>1, <1>2, <1>3, <1>4, <1>5, <1>6, <1>7, <1>8 DEF Next, Ended

(* Once close() is through, or the process has left by itself, every call  *)
(* has its answer and none runs: for any number of calls, slots and        *)
(* signals, cancelled, refused or stuck for a while.                       *)
THEOREM CloseCorrect == Spec => []ClosedIsAnswered
<1>1. Init => CloseInv
  BY LoadInit DEF Init, Queue!Init, CloseInv
<1>2. CloseInv => ClosedIsAnswered
  BY DEF CloseInv, LoadInv, TypeOK, RunningHasPhase, ClosedIsAnswered
<1>3. QED
  BY <1>1, <1>2, CloseNext, PTL DEF Spec

(* After the shutdown signal no operation begins to execute, however many  *)
(* calls wait for a load at that moment.                                   *)
THEOREM ShutdownCorrect == Spec => NoneBeginsAfterShutdown
<1>1. LoadInv /\ [Next]_vars =>
        [shutdown => \A c \in Calls : phase'[c] = "executing" => phase[c] = "executing"]_vars
  <2> SUFFICES ASSUME LoadInv, Next, shutdown, NEW d \in Calls, phase'[d] = "executing"
               PROVE  phase[d] = "executing"
    BY DEF vars
  <2>t. phase \in [Calls -> Phases]
    BY DEF LoadInv, TypeOK
  <2>1. ASSUME NEW c \in Calls, BeginExecution(c)
        PROVE  phase[d] = "executing"
    <3>1. phase' = [phase EXCEPT ![c] = "none"]
      BY <2>1 DEF BeginExecution, Aborted, Finish, Phase
    <3>2. QED
      BY <2>t, <3>1
  <2>2. ASSUME NEW c \in Calls, Start(c) \/ Refused(c) \/ EndExecution(c) \/ Hang(c)
        PROVE  phase[d] = "executing"
    <3>1. \E place \in {"resolving", "none", "hung"} : phase' = [phase EXCEPT ![c] = place]
      BY <2>2 DEF Start, Refused, EndExecution, Hang, Finish, Phase
    <3>2. QED
      BY <2>t, <3>1
  <2>3. ASSUME UNCHANGED phase
        PROVE  phase[d] = "executing"
    BY <2>3
  <2>4. ASSUME NEW c \in Calls, Submit(c) \/ Cancel(c)
        PROVE  UNCHANGED phase
    BY <2>4 DEF Submit, Cancel
  <2>5. ASSUME \/ EditFile \/ ConnectionCloses \/ Drained \/ Exit \/ HardExit \/ Ended
               \/ \E s \in Signals : SignalArrives(s)
               \/ \E n \in LoadIds : Load(n)
        PROVE  UNCHANGED phase
    BY <2>5
    DEF EditFile, ConnectionCloses, Drained, Exit, HardExit, Ended, Leave, SignalArrives, Load, ReadFile,
        LoadSucceeds, LoadFails, RuntimeFails, Forget, vars, requestVars
  <2>6. QED
    BY <2>1, <2>2, <2>3, <2>4, <2>5 DEF Next
<1>2. QED
  BY <1>1, LoadInit, LoadNext, PTL DEF Spec, NoneBeginsAfterShutdown

===============================================================================
