------------------------------- MODULE Scheduler ------------------------------
(***************************************************************************)
(* What the protocol server is promised by its request queue: every        *)
(* request is answered once, at most Limit requests are running, and a     *)
(* request that was answered without being run is never run.  How requests *)
(* wait, and in which order they are served, is left open.                 *)
(***************************************************************************)
EXTENDS Naturals, FiniteSets

CONSTANTS Requests, Limit

VARIABLE status   \* where each request is

svars == <<status>>

Init == status = [r \in Requests |-> "new"]

Become(r, s) == status' = [status EXCEPT ![r] = s]

Busy == {r \in Requests : status[r] = "running"}

(* A request is queued, or answered at once as busy or cancelled. *)
Accept(r) == status[r] = "new" /\ Become(r, "waiting")

Refuse(r) == status[r] = "new" /\ Become(r, "refused")

Run(r) ==
  /\ status[r] = "waiting"
  /\ Cardinality(Busy) < Limit
  /\ Become(r, "running")

Answer(r) == status[r] = "running" /\ Become(r, "answered")

(* Any set of waiting requests may be cancelled together. *)
Cancel ==
  \E C \in SUBSET {r \in Requests : status[r] = "waiting"} :
    status' = [r \in Requests |-> IF r \in C THEN "refused" ELSE status[r]]

Next == Cancel \/ \E r \in Requests : Accept(r) \/ Refuse(r) \/ Run(r) \/ Answer(r)

Spec == Init /\ [][Next]_svars
===============================================================================
