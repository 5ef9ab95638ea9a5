------------------------------- MODULE MCFsLock -------------------------------
(* Small instances of FsLock.  The processes are interchangeable, which TLC *)
(* may use in the runs that check no liveness property.                     *)
EXTENDS FsLock, TLC

ProcSymmetry == Permutations(Procs)

(* The only fault is a crash: pid files are written, directories removed.  *)
CrashNext ==
  \/ Tick
  \/ \E p \in Procs : LockStep(p) \/ Call(p) \/ Abort(p) \/ LockCrash(p) \/ Restart(p)

CrashSpec == LockInit /\ [][CrashNext]_lockVars
===============================================================================
