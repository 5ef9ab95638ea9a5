-------------------------------- MODULE FsLock --------------------------------
(***************************************************************************)
(* The advisory directory lock of src/core/cache.ts: acquireLock,          *)
(* isLockStale and withLock, run by several processes on one lock          *)
(* directory.  Each file system call is a step of its own.                 *)
(*                                                                         *)
(* Time is abstract: Tick ages the lock directory (the code compares       *)
(* Date.now() with its birth time) and the waiters (the code compares      *)
(* Date.now() with a deadline).  Both ages saturate just above the         *)
(* thresholds they are compared with, so no bound on time is needed.       *)
(*                                                                         *)
(* Names that would clash with those of CacheStore carry the word "lock",  *)
(* so that one module can extend both.                                     *)
(***************************************************************************)
EXTENDS Integers

CONSTANTS Procs,       \* processes (or tasks) that call withLock on this directory
          Nobody,      \* stands for "the directory does not exist"
          StaleAge,    \* DEFAULT_STALE_MS, in ticks
          Timeout,     \* DEFAULT_LOCK_TIMEOUT_MS, in ticks
          MaxHold,     \* a live holder releases before its lock is older than this
          MaxLockFaults  \* bound: crashes and file system errors in one behaviour

ASSUME LockAssumption ==
  /\ Nobody \notin Procs
  /\ StaleAge \in Nat
  /\ Timeout \in Nat
  /\ MaxHold \in Nat
  /\ MaxLockFaults \in Nat

VARIABLES dir,      \* the process whose mkdir made the lock directory, or Nobody
          age,      \* ticks since that mkdir, saturating at StaleAge + 1
          lockPc,   \* where each process is in acquireLock / withLock
          waited,   \* ticks since it called acquireLock, saturating at Timeout
          aborted,  \* whether the AbortSignal of its current call has fired
          lockFaults  \* crashes and errors so far

lockVars == <<dir, age, lockPc, waited, aborted, lockFaults>>

Waiting == {"try", "exists", "break", "sleep"}
Holding == {"made", "held", "release"}
LockPCs == {"idle", "crashed"} \cup Waiting \cup Holding

LockTypeOK ==
  /\ dir \in Procs \cup {Nobody}
  /\ age \in 0 .. StaleAge + 1
  /\ lockPc \in [Procs -> LockPCs]
  /\ waited \in [Procs -> 0 .. Timeout]
  /\ aborted \in [Procs -> BOOLEAN]
  /\ lockFaults \in 0 .. MaxLockFaults

LockInit ==
  /\ dir = Nobody
  /\ age = 0
  /\ lockPc = [p \in Procs |-> "idle"]
  /\ waited = [p \in Procs |-> 0]
  /\ aborted = [p \in Procs |-> FALSE]
  /\ lockFaults = 0

LockGoto(p, label) == lockPc' = [lockPc EXCEPT ![p] = label]

(* rm(lockDir, recursive, force): whoever made the directory, it is gone. *)
RemoveDir ==
  /\ dir' = Nobody
  /\ age' = 0

(* A call of withLock whose signal has not fired yet; one whose signal has *)
(* fired throws at once and changes nothing.                               *)
Call(p) ==
  /\ lockPc[p] = "idle"
  /\ LockGoto(p, "try")
  /\ waited' = [waited EXCEPT ![p] = 0]
  /\ aborted' = [aborted EXCEPT ![p] = FALSE]
  /\ UNCHANGED <<dir, age, lockFaults>>

(* The head of the loop: an aborted call throws, otherwise mkdir is tried. *)
TryAborted(p) ==
  /\ lockPc[p] = "try" /\ aborted[p]
  /\ LockGoto(p, "idle")
  /\ UNCHANGED <<dir, age, waited, aborted, lockFaults>>

(* Mutant: mkdir with recursive: true, which succeeds on an existing one. *)
MkdirRecursive(p) ==
  /\ lockPc[p] = "try" /\ ~aborted[p]
  /\ dir' = p
  /\ age' = 0
  /\ LockGoto(p, "made")
  /\ UNCHANGED <<waited, aborted, lockFaults>>

MkdirSucceeds(p) ==
  /\ lockPc[p] = "try" /\ ~aborted[p]
  /\ dir = Nobody
  /\ dir' = p
  /\ age' = 0
  /\ LockGoto(p, "made")
  /\ UNCHANGED <<waited, aborted, lockFaults>>

MkdirExists(p) ==
  /\ lockPc[p] = "try" /\ ~aborted[p]
  /\ dir # Nobody
  /\ LockGoto(p, "exists")
  /\ UNCHANGED <<dir, age, waited, aborted, lockFaults>>

(* Mutant: withLock checks the signal before its try block. *)
WritePidThenThrow(p) ==
  /\ lockPc[p] = "made"
  /\ LockGoto(p, IF dir = Nobody \/ aborted[p] THEN "idle" ELSE "held")
  /\ UNCHANGED <<dir, age, waited, aborted, lockFaults>>

(* Writing the pid file inside the directory returns the lock, unless the  *)
(* directory was broken meanwhile: ENOENT is rethrown and p gives up.      *)
(* withLock then checks the signal once more before it runs its function.  *)
WritePid(p) ==
  /\ lockPc[p] = "made"
  /\ LockGoto(p, CASE dir = Nobody -> "idle"
               [] dir # Nobody /\ aborted[p] -> "release"
               [] OTHER -> "held")
  /\ UNCHANGED <<dir, age, waited, aborted, lockFaults>>

(* The pid write fails for another reason (a full disk): the error is      *)
(* rethrown and nobody removes the directory.                              *)
WritePidFails(p) ==
  /\ lockFaults < MaxLockFaults
  /\ lockPc[p] = "made"
  /\ LockGoto(p, "idle")
  /\ lockFaults' = lockFaults + 1
  /\ UNCHANGED <<dir, age, waited, aborted>>

(* Mutant: a lock is stale one tick early. *)
StaleTooEarly == dir # Nobody /\ age >= StaleAge

IsLockStale == dir # Nobody /\ age > StaleAge

(* Mutants: no deadline; the deadline before the staleness. *)
CheckStaleForever(p) ==
  /\ lockPc[p] = "exists"
  /\ LockGoto(p, IF IsLockStale THEN "break" ELSE "sleep")
  /\ UNCHANGED <<dir, age, waited, aborted, lockFaults>>

CheckDeadlineFirst(p) ==
  /\ lockPc[p] = "exists"
  /\ LockGoto(p, CASE waited[p] >= Timeout -> "idle"
               [] waited[p] < Timeout /\ IsLockStale -> "break"
               [] OTHER -> "sleep")
  /\ UNCHANGED <<dir, age, waited, aborted, lockFaults>>

(* stat and the deadline.  A directory that has vanished is not stale. *)
CheckStale(p) ==
  /\ lockPc[p] = "exists"
  /\ LockGoto(p, CASE IsLockStale -> "break"
               [] ~IsLockStale /\ waited[p] >= Timeout -> "idle"
               [] OTHER -> "sleep")
  /\ UNCHANGED <<dir, age, waited, aborted, lockFaults>>

(* rm of the directory seen stale one step earlier: by now it may be       *)
(* another process's fresh one.                                            *)
BreakStale(p) ==
  /\ lockPc[p] = "break"
  /\ RemoveDir
  /\ LockGoto(p, "try")
  /\ UNCHANGED <<waited, aborted, lockFaults>>

(* That rm fails: nothing catches the error, which ends the call.  It      *)
(* needs no bound, and comes only after a fault that left the directory.   *)
BreakFails(p) ==
  /\ lockPc[p] = "break"
  /\ LockGoto(p, "idle")
  /\ UNCHANGED <<dir, age, waited, aborted, lockFaults>>

(* The jittered sleep ends, or is rejected by the signal. *)
Wake(p) ==
  /\ lockPc[p] = "sleep"
  /\ LockGoto(p, IF aborted[p] THEN "idle" ELSE "try")
  /\ UNCHANGED <<dir, age, waited, aborted, lockFaults>>

(* The function passed to withLock returns or throws. *)
Leave(p) ==
  /\ lockPc[p] = "held"
  /\ LockGoto(p, "release")
  /\ UNCHANGED <<dir, age, waited, aborted, lockFaults>>

(* The release function does not check whose directory it removes. *)
Release(p) ==
  /\ lockPc[p] = "release"
  /\ RemoveDir
  /\ LockGoto(p, "idle")
  /\ UNCHANGED <<waited, aborted, lockFaults>>

(* The error of a failed rm is swallowed. *)
ReleaseFails(p) ==
  /\ lockFaults < MaxLockFaults
  /\ lockPc[p] = "release"
  /\ LockGoto(p, "idle")
  /\ lockFaults' = lockFaults + 1
  /\ UNCHANGED <<dir, age, waited, aborted>>

Abort(p) ==
  /\ lockPc[p] \in Waiting \cup Holding
  /\ ~aborted[p]
  /\ aborted' = [aborted EXCEPT ![p] = TRUE]
  /\ UNCHANGED <<dir, age, lockPc, waited, lockFaults>>

(* The process dies wherever it is; a new one may take its place. *)
LockCrash(p) ==
  /\ lockFaults < MaxLockFaults
  /\ lockPc[p] \in Waiting \cup Holding
  /\ LockGoto(p, "crashed")
  /\ lockFaults' = lockFaults + 1
  /\ UNCHANGED <<dir, age, waited, aborted>>

Restart(p) ==
  /\ lockPc[p] = "crashed"
  /\ LockGoto(p, "idle")
  /\ UNCHANGED <<dir, age, waited, aborted, lockFaults>>

(* One tick.  It waits for a live holder whose lock has reached MaxHold:   *)
(* with MaxHold <= StaleAge this is the assumption that critical sections  *)
(* (local file I/O only) finish well within DEFAULT_STALE_MS.              *)
HolderIsLate == dir # Nobody /\ lockPc[dir] \in Holding /\ age >= MaxHold

Saturate(n, top) == IF n < top THEN n + 1 ELSE top

Tick ==
  /\ ~HolderIsLate
  /\ age' = IF dir = Nobody THEN 0 ELSE Saturate(age, StaleAge + 1)
  /\ waited' = [p \in Procs |-> IF lockPc[p] \in Waiting
                                THEN Saturate(waited[p], Timeout)
                                ELSE waited[p]]
  /\ UNCHANGED <<dir, lockPc, aborted, lockFaults>>

(* The steps a running process takes by itself, once it has called. *)
LockStep(p) ==
  \/ TryAborted(p) \/ MkdirSucceeds(p) \/ MkdirExists(p)
  \/ WritePid(p) \/ CheckStale(p) \/ BreakStale(p) \/ Wake(p)
  \/ Leave(p) \/ Release(p)

Environment(p) ==
  \/ Call(p) \/ WritePidFails(p) \/ BreakFails(p) \/ ReleaseFails(p)
  \/ Abort(p) \/ LockCrash(p) \/ Restart(p)

LockNext == Tick \/ \E p \in Procs : LockStep(p) \/ Environment(p)

LockSpec == LockInit /\ [][LockNext]_lockVars

(* The event loop keeps running every live process, critical sections end, *)
(* and time goes on.  Nothing makes a caller call or a process crash.      *)
FairLockSpec ==
  /\ LockSpec
  /\ WF_lockVars(Tick)
  /\ \A p \in Procs : WF_lockVars(LockStep(p))

-------------------------------------------------------------------------------
(* Critical sections (local file I/O only) are shorter than StaleAge.      *)
Prompt == MaxHold <= StaleAge

(* At most one process runs the function it passed to withLock: the reason *)
(* cache.ts takes the lock before it touches a cache folder or the index.  *)
MutualExclusion ==
  \A p, q \in Procs : lockPc[p] = "held" /\ lockPc[q] = "held" => p = q

(* The directory is on disk exactly while one live process holds it, that  *)
(* process made it, and no waiter is about to break it.                    *)
HolderMadeDir ==
  /\ \A p \in Procs : lockPc[p] \in Holding <=> dir = p
  /\ \A p \in Procs : lockPc[p] \notin {"break", "crashed"}
  /\ age <= MaxHold

(* Until the first crash or failed pid write or release, the lock is       *)
(* exclusive, nobody breaks it and release removes the releaser's own      *)
(* directory, however the calls, the waits, the aborts and the clock       *)
(* interleave.                                                             *)
SoundUntilFault == lockFaults = 0 => MutualExclusion /\ HolderMadeDir

(* Every call ends: the lock is obtained, or the call throws (timeout,     *)
(* abort); the polling loop of acquireLock never waits for ever.           *)
EveryCallEnds ==
  \A p \in Procs : lockPc[p] = "try" ~> lockPc[p] \in {"held", "idle", "crashed"}

(* A directory whose maker no longer holds it: left by a crash or by a     *)
(* failed pid write or release.                                            *)
Orphan == dir # Nobody /\ lockPc[dir] \notin Holding

(* "A single crashed run cannot permanently block the lock": once an       *)
(* orphan is stale, a waiter that is not cancelled goes on to break it, or *)
(* somebody else has; it never runs into the timeout instead.              *)
StaleOrphanIsBroken ==
  \A p \in Procs :
    (Orphan /\ age > StaleAge /\ lockPc[p] \in {"try", "exists"} /\ ~aborted[p])
      ~> (lockPc[p] = "break" \/ ~Orphan \/ aborted[p] \/ lockPc[p] = "crashed")

(* The lock that callers are promised. *)
Service == INSTANCE LockService
             WITH owner <- dir,
                  critical <- {p \in Procs : lockPc[p] = "held"}

(* Until the first fault every step of the directory protocol is a step of *)
(* that lock (taken while free, entered and given back by its owner only), *)
(* or leaves its variables alone.                                          *)
ServiceUntilFault ==
  /\ Service!Init
  /\ [][lockFaults' = 0 => [Service!Next]_(Service!svars)]_lockVars
===============================================================================
