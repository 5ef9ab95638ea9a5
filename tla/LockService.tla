----------------------------- MODULE LockService ------------------------------
(***************************************************************************)
(* What a caller of withLock is promised: a lock has one owner at a time,  *)
(* only its owner is inside the critical section, and only the owner gives *)
(* it back.  FsLock is shown to implement this module while every holder   *)
(* is prompt and none crashes; CacheStore is written against it.           *)
(***************************************************************************)
CONSTANTS Procs,    \* callers of withLock
          Nobody    \* owner of a free lock

VARIABLES owner,    \* the process the lock belongs to, or Nobody
          critical  \* the processes running the function passed to withLock

svars == <<owner, critical>>

Init ==
  /\ owner = Nobody
  /\ critical = {}

Acquire(p) ==
  /\ owner = Nobody
  /\ owner' = p
  /\ UNCHANGED critical

Enter(p) ==
  /\ owner = p
  /\ critical' = critical \cup {p}
  /\ UNCHANGED owner

Exit(p) ==
  /\ owner = p
  /\ critical' = critical \ {p}
  /\ UNCHANGED owner

Release(p) ==
  /\ owner = p
  /\ p \notin critical
  /\ owner' = Nobody
  /\ UNCHANGED critical

Next == \E p \in Procs : Acquire(p) \/ Enter(p) \/ Exit(p) \/ Release(p)

Spec == Init /\ [][Next]_svars
===============================================================================
