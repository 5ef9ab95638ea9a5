------------------------------ MODULE McpServer ------------------------------
(***************************************************************************)
(* The protocol server of packages/mcp: the handlers of createProtocolServer,  *)
(* the configuration lazyRuntime loads on demand, the way an operation goes    *)
(* through Runtime.execute, and the two ways startServer shuts down (the       *)
(* connection closes, or SIGINT/SIGTERM with a hard exit after ten seconds).   *)
(* The request queue is taken by what it promises, module Scheduler;           *)
(* OperationQueueProofs shows that queue.ts keeps that promise.                *)
(***************************************************************************)
EXTENDS Naturals, FiniteSets

CONSTANTS Calls,          \* the tool calls a client makes
          MaxConcurrent,  \* limits.maxConcurrent
          Signals         \* SIGINT and SIGTERM, which are handled alike

ASSUME ServerAssumption ==
  IsFiniteSet(Calls) /\ Calls # {} /\ MaxConcurrent \in Nat \ {0}

VARIABLES
  status,    \* each call as the queue sees it (module Scheduler)
  phase,     \* where a running operation is: see Phases
  answer,    \* what the client was answered
  cancelled, \* calls whose request the client has cancelled
  file,      \* the configuration file as it is now
  loads,     \* each load of the configuration: see LoadStates
  ready,     \* the load lazyRuntime keeps, 0 for none
  joined,    \* the load each call waits for or used, 0 for none
  shutdown,  \* the shutdown signal has fired
  closing,   \* how far close() is
  signals,   \* termination signals received
  exit,      \* how the process ended
  sawBroken, \* history: calls during whose resolving the file was broken
  joinedLive \* history: calls whose load was not over when they joined it

requestVars == <<status, phase, answer, cancelled>>
loadVars    == <<loads, ready, joined>>
closeVars   == <<shutdown, closing, signals, exit>>
history     == <<sawBroken, joinedLive>>
vars == <<requestVars, file, loadVars, closeVars, history>>

Queue == INSTANCE Scheduler WITH Requests <- Calls, Limit <- MaxConcurrent

LoadIds    == 1..Cardinality(Calls)
Phases     == {"none", "resolving", "executing", "hung"}

(* A load has thrown ("unreadable", "unusable") before it is forgotten,    *)
(* and is called by what its calls are then told.                          *)
Failures   == {"configuration", "workspace"}
LoadStates == {"none", "reading", "readGood", "readBad", "unreadable",
               "unusable", "ok"} \cup Failures
Answers    == {"none", "busy", "cancelled", "result", "error"} \cup Failures

TypeOK ==
  /\ status \in [Calls -> {"new", "waiting", "running", "answered", "refused"}]
  /\ phase \in [Calls -> Phases]
  /\ answer \in [Calls -> Answers]
  /\ cancelled \subseteq Calls
  /\ file \in {"good", "broken"}
  /\ loads \in [LoadIds -> LoadStates]
  /\ ready \in {0} \cup LoadIds
  /\ joined \in [Calls -> {0} \cup LoadIds]
  /\ shutdown \in BOOLEAN
  /\ closing \in {"open", "draining", "closed"}
  /\ signals \subseteq Signals
  /\ exit \in {"none", "0", "1", "signal", "killed"}
  /\ sawBroken \subseteq Calls /\ joinedLive \subseteq Calls

(* A server started with a configuration has its runtime from the start;   *)
(* one whose file did not load is started with the loader instead, and one *)
(* whose workspace is missing with a loader that throws.                   *)
Init ==
  /\ Queue!Init
  /\ phase = [c \in Calls |-> "none"]
  /\ answer = [c \in Calls |-> "none"]
  /\ cancelled = {}
  /\ \/ /\ file = "good" /\ ready = 1
        /\ loads = [n \in LoadIds |-> IF n = 1 THEN "ok" ELSE "none"]
     \/ /\ file \in {"good", "broken"} /\ ready = 0
        /\ loads = [n \in LoadIds |-> "none"]
  /\ joined = [c \in Calls |-> 0]
  /\ shutdown = FALSE /\ closing = "open" /\ signals = {} /\ exit = "none"
  /\ sawBroken = {} /\ joinedLive = {}

Up == exit = "none"

(* The composed signal of a call: AbortSignal.any of the request's own and *)
(* the server's.                                                           *)
Aborted(c) == c \in cancelled \/ shutdown

Answer(c, a) == answer' = [answer EXCEPT ![c] = a]
Phase(c, p)  == phase' = [phase EXCEPT ![c] = p]

----------------------------------------------------------------------------
(* The handler of a tool: queue.submit and its outcomes.                   *)
Submit(c) ==
  /\ Up
  /\ IF Aborted(c)
     THEN Queue!Refuse(c) /\ Answer(c, "cancelled")
     ELSE \/ Queue!Accept(c) /\ UNCHANGED answer
          \/ Queue!Refuse(c) /\ Answer(c, "busy")
  /\ UNCHANGED <<phase, cancelled, file, loadVars, closeVars, history>>

(* The client cancels a request under way: a waiting one is answered at    *)
(* once.                                                                   *)
Cancel(c) ==
  /\ Up /\ status[c] \in {"waiting", "running"} /\ c \notin cancelled
  /\ cancelled' = cancelled \cup {c}
  /\ IF status[c] = "waiting"
     THEN Queue!Become(c, "refused") /\ Answer(c, "cancelled")
     ELSE UNCHANGED <<status, answer>>
  /\ UNCHANGED <<phase, file, loadVars, closeVars, history>>

(* A load is begun by a call, so there are never more loads than calls.    *)
NextLoad == CHOOSE n \in LoadIds : loads[n] = "none" /\ \A m \in 1..(n - 1) : loads[m] # "none"

(* The queue starts the operation: resolveRuntime() joins the load that is *)
(* kept, or begins one and keeps it.                                       *)
Join(c, n) ==
  /\ joined' = [joined EXCEPT ![c] = n]
  /\ joinedLive' = IF loads'[n] \in {"ok"} \cup Failures THEN joinedLive
                                                         ELSE joinedLive \cup {c}

ResolveRuntime(c) ==
  IF ready # 0
  THEN UNCHANGED <<loads, ready>> /\ Join(c, ready)
  ELSE /\ ready' = NextLoad
       /\ loads' = [loads EXCEPT ![NextLoad] = "reading"]
       /\ Join(c, NextLoad)

Start(c) ==
  /\ Up /\ closing = "open"
  /\ Queue!Run(c)
  /\ Phase(c, "resolving")
  /\ ResolveRuntime(c)
  /\ sawBroken' = IF file = "broken" THEN sawBroken \cup {c} ELSE sawBroken
  /\ UNCHANGED <<answer, cancelled, file, closeVars>>

(* The operator edits the configuration file.                              *)
EditFile ==
  /\ Up
  /\ file' = IF file = "good" THEN "broken" ELSE "good"
  /\ sawBroken' = IF file' = "broken"
                  THEN sawBroken \cup {c \in Calls : phase[c] = "resolving"}
                  ELSE sawBroken
  /\ UNCHANGED <<requestVars, loadVars, closeVars, joinedLive>>

----------------------------------------------------------------------------
(* lazyRuntime: one load reads the file, then is kept or forgotten.        *)
ReadFile(n) ==
  /\ Up /\ loads[n] = "reading"
  /\ loads' = [loads EXCEPT ![n] = IF file = "good" THEN "readGood" ELSE "readBad"]
  /\ UNCHANGED <<requestVars, file, ready, joined, closeVars, history>>

LoadSucceeds(n) ==
  /\ Up /\ loads[n] = "readGood"
  /\ loads' = [loads EXCEPT ![n] = "ok"]
  /\ UNCHANGED <<requestVars, file, ready, joined, closeVars, history>>

(* loadConfig throws a ConfigurationError.                                 *)
LoadFails(n) ==
  /\ Up /\ loads[n] = "readBad"
  /\ loads' = [loads EXCEPT ![n] = "unreadable"]
  /\ UNCHANGED <<requestVars, file, ready, joined, closeVars, history>>

(* createRuntime does not find the workspace, or the loader of a missing   *)
(* workspace throws without reading the file.                              *)
RuntimeFails(n) ==
  /\ Up /\ loads[n] \in {"reading", "readGood"}
  /\ loads' = [loads EXCEPT ![n] = "unusable"]
  /\ UNCHANGED <<requestVars, file, ready, joined, closeVars, history>>

(* attempt.catch: the first callback of a load that was rejected, before   *)
(* those of the calls that wait for it.                                    *)
Told(n) == IF loads[n] = "unreadable" THEN "configuration" ELSE "workspace"

(* Mutant: a load that failed is kept.                                     *)
FailureKept(n) ==
  /\ Up /\ loads[n] \in {"unreadable", "unusable"}
  /\ loads' = [loads EXCEPT ![n] = Told(n)]
  /\ UNCHANGED <<requestVars, file, ready, joined, closeVars, history>>

Forget(n) ==
  /\ Up /\ loads[n] \in {"unreadable", "unusable"}
  /\ loads' = [loads EXCEPT ![n] = Told(n)]
  /\ ready' = IF ready = n THEN 0 ELSE ready
  /\ UNCHANGED <<requestVars, file, joined, closeVars, history>>

Load(n) == \/ ReadFile(n) \/ LoadSucceeds(n) \/ LoadFails(n) \/ RuntimeFails(n)
           \/ Forget(n)

----------------------------------------------------------------------------
Finish(c, a) == Queue!Answer(c) /\ Answer(c, a) /\ Phase(c, "none")

(* Mutant: the signal is not looked at before the operation.               *)
BeginUnchecked(c) ==
  /\ Up /\ phase[c] = "resolving" /\ loads[joined[c]] = "ok"
  /\ Phase(c, "executing") /\ UNCHANGED <<status, answer>>
  /\ UNCHANGED <<cancelled, file, loadVars, closeVars, history>>

(* The load was refused: the call is told so, aborted or not.              *)
Refused(c) ==
  /\ Up /\ phase[c] = "resolving" /\ loads[joined[c]] \in Failures
  /\ Finish(c, loads[joined[c]])
  /\ UNCHANGED <<cancelled, file, loadVars, closeVars, history>>

BeginExecution(c) ==
  /\ Up /\ phase[c] = "resolving" /\ loads[joined[c]] = "ok"
  /\ IF Aborted(c)
     THEN Finish(c, "cancelled")
     ELSE Phase(c, "executing") /\ UNCHANGED <<status, answer>>
  /\ UNCHANGED <<cancelled, file, loadVars, closeVars, history>>

EndExecution(c) ==
  /\ Up /\ phase[c] = "executing"
  /\ Finish(c, "result") \/ Finish(c, IF Aborted(c) THEN "cancelled" ELSE "error")
  /\ UNCHANGED <<cancelled, file, loadVars, closeVars, history>>

(* An operation may be stuck in something no signal reaches.               *)
Hang(c) ==
  /\ Up /\ phase[c] = "executing"
  /\ Phase(c, "hung")
  /\ UNCHANGED <<status, answer, cancelled, file, loadVars, closeVars, history>>

----------------------------------------------------------------------------
(* close(), once: the shutdown signal fires and the queue is closed in the *)
(* same breath, which answers what waits there.                            *)
Waiting == {c \in Calls : status[c] = "waiting"}

(* Mutant: what waits in the queue is left there.                          *)
CloseLeavesWaiting ==
  IF closing # "open" THEN UNCHANGED <<shutdown, closing, status, answer>>
  ELSE shutdown' = TRUE /\ closing' = "draining" /\ UNCHANGED <<status, answer>>

BeginClose ==
  IF closing # "open" THEN UNCHANGED <<shutdown, closing, status, answer>>
  ELSE /\ shutdown' = TRUE /\ closing' = "draining"
       /\ status' = [c \in Calls |-> IF c \in Waiting THEN "refused" ELSE status[c]]
       /\ answer' = [c \in Calls |-> IF c \in Waiting THEN "cancelled" ELSE answer[c]]

(* Standard input ends, or standard output breaks.                         *)
ConnectionCloses ==
  /\ Up /\ closing = "open"
  /\ BeginClose
  /\ UNCHANGED <<phase, cancelled, file, loadVars, signals, exit, history>>

(* hardExit; process.once leaves a second signal of the same name to its   *)
(* default, which kills the process.                                       *)
SignalArrives(s) ==
  /\ Up
  /\ IF s \in signals
     THEN exit' = "killed" /\ UNCHANGED <<status, answer, shutdown, closing, signals>>
     ELSE signals' = signals \cup {s} /\ BeginClose /\ UNCHANGED exit
  /\ UNCHANGED <<phase, cancelled, file, loadVars, history>>

(* queue.close has drained: the protocol server and standard input close.  *)
Drained ==
  /\ Up /\ closing = "draining"
  /\ Queue!Busy = {}
  /\ closing' = "closed"
  /\ UNCHANGED <<requestVars, file, loadVars, shutdown, signals, exit, history>>

Leave(code) ==
  /\ exit' = code
  /\ UNCHANGED <<requestVars, file, loadVars, shutdown, closing, signals, history>>

Exit == Up /\ closing = "closed" /\ Leave(IF signals = {} THEN "0" ELSE "signal")

(* Mutant: hardExit waits for the running operations too.                  *)
HardExitWhenDrained ==
  Up /\ signals # {} /\ closing # "closed" /\ Queue!Busy = {} /\ Leave("1")

(* The ten seconds of hardExit are over before close() is.                 *)
HardExit == Up /\ signals # {} /\ closing # "closed" /\ Leave("1")

Ended == ~Up /\ UNCHANGED vars

Next ==
  \/ \E c \in Calls : \/ Submit(c) \/ Cancel(c) \/ Start(c) \/ Refused(c)
                      \/ BeginExecution(c) \/ EndExecution(c) \/ Hang(c)
  \/ \E n \in LoadIds : Load(n)
  \/ EditFile
  \/ ConnectionCloses \/ \E s \in Signals : SignalArrives(s)
  \/ Drained \/ Exit \/ HardExit
  \/ Ended

Spec == Init /\ [][Next]_vars

(* Loads go on until they are over, callbacks run, the timer of hardExit   *)
(* fires, and an operation that is not stuck ends once its signal has      *)
(* fired.  Nothing is asked of an operation nobody aborts, nor of the      *)
(* client or the operator.                                                 *)
Fairness ==
  /\ \A n \in LoadIds : WF_vars(Load(n))
  /\ \A c \in Calls :
       /\ WF_vars(Refused(c)) /\ WF_vars(BeginExecution(c))
       /\ WF_vars(Aborted(c) /\ EndExecution(c))
  /\ WF_vars(Drained) /\ WF_vars(Exit) /\ WF_vars(HardExit)

FairSpec == Spec /\ Fairness

----------------------------------------------------------------------------
(* Properties.                                                             *)

(* "Repair the file and call again": a call is refused for the             *)
(* configuration or the workspace only by a load whose failure had not yet *)
(* been dealt with when the call joined it, never by that of an earlier    *)
(* one; and for the configuration only if the file really was broken while *)
(* the call was waiting, unless it shared its load.                        *)
RefusalIsCurrent ==
  \A c \in Calls :
    /\ answer[c] \in Failures => c \in joinedLive
    /\ answer[c] = "configuration" =>
         c \in sawBroken \/ \E d \in Calls \ {c} : joined[d] = joined[c]

(* No operation begins to execute after the shutdown signal, not even one  *)
(* whose configuration was still being loaded when it fired.               *)
NoneBeginsAfterShutdown ==
  [][ shutdown => \A c \in Calls : phase'[c] = "executing" => phase[c] = "executing" ]_vars

(* "No unanswered request or runaway child work remains": once close() is  *)
(* through, or the process has left by itself, every call that reached the *)
(* queue has its answer and none is running.                               *)
ClosedIsAnswered ==
  closing = "closed" \/ exit \in {"0", "signal"} =>
    \A c \in Calls : /\ phase[c] = "none"
                     /\ status[c] # "new" => answer[c] # "none"

(* When the connection closes the process ends too, unless an operation is *)
(* stuck; a signal ends it in any case.                                    *)
ShutdownEnds ==
  /\ shutdown ~> (~Up \/ \E c \in Calls : phase[c] = "hung")
  /\ signals # {} ~> ~Up
=============================================================================
