------------------------------ MODULE CacheStore ------------------------------
(***************************************************************************)
(* The cache folders and the shared index under concurrent operations:     *)
(* the committing part of intelli_research and intelli_collate             *)
(* (rotateCacheArtefacts, writeCacheFiles, writeReportFile, updateIndex,   *)
(* the documentation downloads, the telemetry sidecar) and the degraded    *)
(* exit of intelli_research (degradedReturn, clearCacheArtefacts,          *)
(* removeIndexEntry).  A run is one call of one operation; runs share a    *)
(* folder when they ask the same query on the same day.                    *)
(*                                                                         *)
(* Every rename or rm another run could see, or a crash could separate, is *)
(* a step.  The locks are those of LockService, plus timeouts and the      *)
(* breaking of a crashed owner's lock.  File contents are the run that     *)
(* wrote them.                                                             *)
(***************************************************************************)
EXTENDS Naturals, Sequences

CONSTANTS Runs,        \* calls of an operation
          NoRun,       \* "no such file", "no entry" or "lock free"
          Paths,       \* canonical cache folders
          Ops,         \* operations the runs perform
          ExtFiles,    \* file names in extractions/
          SrcFiles,    \* file names in sources/, llms-full-* left out
          FileSets,    \* the sets of files one run may write
          Telemetry,   \* ~settings.disableTelemetry
          MayGiveUp,   \* whether a wait for a lock may time out or be cancelled
          FaultyOps,   \* the operations a file system error may hit
          MaxFaults,   \* bound: file system errors in one behaviour
          MaxCrashes   \* bound: crashes of the process of a run

Files == ExtFiles \cup SrcFiles

ASSUME StoreAssumption ==
  /\ NoRun \notin Runs
  /\ Ops \subseteq {"research", "degraded", "collate"}
  /\ ExtFiles \cap SrcFiles = {}
  /\ {"report", "query", "meta", "extractions"} \cap SrcFiles = {}
  /\ FileSets \subseteq SUBSET Files /\ {} \notin FileSets
  /\ Telemetry \in BOOLEAN /\ MayGiveUp \in BOOLEAN
  /\ MaxFaults \in Nat /\ MaxCrashes \in Nat

VARIABLES pc,         \* where each run is
          run,        \* the local variables of each run
          folder,     \* what each canonical folder holds
          archives,   \* the numbered siblings <cachePath>.1, .2, ... of each folder
          index,      \* .index.json: the run that last listed each folder, or NoRun
          cacheLock,  \* owner of each folder's .lock
          indexLock,  \* owner of .index.lock
          interrupted,\* history: folders a crash or error left half-written
          committed,  \* history: runs whose report.md was renamed into place
          indexed,    \* history: runs whose index entry was written
          crashes,    \* crashes so far
          faults      \* file system errors so far

store == <<folder, archives, index>>
locks == <<cacheLock, indexLock>>
history == <<interrupted, committed, indexed>>
budget == <<crashes, faults>>
vars == <<pc, run, store, locks, history, budget>>

NoMeta == [run |-> NoRun, outcome |-> "none"]
NoFiles == [f \in Files |-> NoRun]
Empty == [report |-> NoRun, query |-> NoRun, meta |-> NoMeta, files |-> NoFiles, llms |-> FALSE]

Meta == [run : Runs \cup {NoRun}, outcome : {"none", "completed", "degraded"}]
Snapshot == [report : Runs \cup {NoRun}, query : Runs \cup {NoRun}, meta : Meta,
             files : [Files -> Runs \cup {NoRun}], llms : BOOLEAN]
Folder == [exists : BOOLEAN, content : Snapshot]
Entries == {"report", "query", "meta", "extractions"} \cup SrcFiles
Index == [Paths -> Runs \cup {NoRun}]

PCs == {"idle", "wantCache", "rotate", "move", "stage", "commitQuery", "commit", "prune",
        "unstage", "report", "meta", "wantIndex", "readIndex", "writeIndex", "freeIndex",
        "freeCache", "await", "wantFlush", "flush", "freeFlush", "settle", "suggest",
        "wantMeta", "lastMeta", "freeMeta", "hasReport", "clear", "ended", "crashed"}

RunState == [op : Ops, path : Paths, writes : FileSets, todo : SUBSET (Entries \cup Files),
             slot : Nat, snap : Index, failed : BOOLEAN, staging : BOOLEAN,
             dl : {"none", "running", "settled"}, llmsStaging : BOOLEAN]

TypeOK ==
  /\ pc \in [Runs -> PCs]
  /\ run \in [Runs -> RunState \cup {NoRun}]
  /\ \A r \in Runs : pc[r] # "idle" => run[r] \in RunState
  /\ folder \in [Paths -> Folder]
  /\ archives \in [Paths -> Seq(Snapshot)]
  /\ index \in Index
  /\ cacheLock \in [Paths -> Runs \cup {NoRun}]
  /\ indexLock \in Runs \cup {NoRun}
  /\ interrupted \subseteq Paths
  /\ committed \subseteq Runs
  /\ indexed \subseteq Runs
  /\ crashes \in 0 .. MaxCrashes /\ faults \in 0 .. MaxFaults

Init ==
  /\ pc = [r \in Runs |-> "idle"]
  /\ run = [r \in Runs |-> NoRun]
  /\ folder = [q \in Paths |-> [exists |-> FALSE, content |-> Empty]]
  /\ archives = [q \in Paths |-> <<>>]
  /\ index = [q \in Paths |-> NoRun]
  /\ cacheLock = [q \in Paths |-> NoRun]
  /\ indexLock = NoRun
  /\ interrupted = {} /\ committed = {} /\ indexed = {}
  /\ crashes = 0 /\ faults = 0

-------------------------------------------------------------------------------
(* Small steps shared by the actions. *)
Goto(r, label) == pc' = [pc EXCEPT ![r] = label]
PathOf(r) == run[r].path
Content(r) == folder[PathOf(r)].content
SetContent(r, c) == folder' = [folder EXCEPT ![PathOf(r)].content = c]

(* A run ends; a thrown error and an aborted signal end it as failed. *)
Throw(r, label) ==
  /\ Goto(r, label)
  /\ run' = [run EXCEPT ![r].failed = TRUE]

(* What the finally blocks of executePipeline still have to do. *)
AfterThrow(r) == IF run[r].op = "research" THEN "settle" ELSE "ended"

(* An operation reaches its first cache lock.  research has started its    *)
(* downloads into a staging directory of its own by then; a degraded exit  *)
(* without telemetry stops short when the folder does not exist.           *)
(* acquireLock creates the parent of the lock directory: the folder.       *)
Begin(r, q, op, ws) ==
  /\ pc[r] = "idle"
  /\ op = "degraded" => Telemetry \/ folder[q].exists
  /\ Goto(r, "wantCache")
  /\ \E dl \in IF op = "research" THEN {"none", "running"} ELSE {"none"} :
       run' = [run EXCEPT ![r] =
                 [op |-> op, path |-> q, writes |-> ws, todo |-> {}, slot |-> 0,
                  snap |-> [p \in Paths |-> NoRun], failed |-> FALSE, staging |-> FALSE,
                  dl |-> dl, llmsStaging |-> dl = "running"]]
  /\ folder' = [folder EXCEPT ![q].exists = TRUE]
  /\ UNCHANGED <<archives, index, locks, history, budget>>

(* Where a run goes with the cache lock it waited for, and where it goes   *)
(* when the wait throws.  degradedReturn and writeLockedTelemetry log the  *)
(* error and return their result all the same.                             *)
Entered(r) == CASE pc[r] = "wantCache" /\ run[r].op = "degraded" -> "hasReport"
                [] pc[r] = "wantCache" /\ run[r].op # "degraded" -> "rotate"
                [] pc[r] = "wantFlush" -> "flush"
                [] pc[r] = "wantMeta" -> "lastMeta"

AcquireCache(r) ==
  /\ pc[r] \in {"wantCache", "wantFlush", "wantMeta"}
  /\ cacheLock[PathOf(r)] = NoRun
  /\ cacheLock' = [cacheLock EXCEPT ![PathOf(r)] = r]
  /\ Goto(r, Entered(r))
  /\ UNCHANGED <<run, store, indexLock, history, budget>>

(* Mutant: the index is rewritten without its lock. *)
AcquireIndexUnlocked(r) ==
  /\ pc[r] = "wantIndex"
  /\ indexLock' = r
  /\ Goto(r, "readIndex")
  /\ UNCHANGED <<run, store, cacheLock, history, budget>>

AcquireIndex(r) ==
  /\ pc[r] = "wantIndex"
  /\ indexLock = NoRun
  /\ indexLock' = r
  /\ Goto(r, "readIndex")
  /\ UNCHANGED <<run, store, cacheLock, history, budget>>

(* A wait for a lock ends with the timeout or with the aborted signal. *)
GiveUp(r) ==
  /\ MayGiveUp
  /\ \/ /\ pc[r] = "wantCache"
        /\ Throw(r, AfterThrow(r))
     \/ /\ pc[r] = "wantIndex"
        /\ Throw(r, "freeCache")
     \/ /\ pc[r] = "wantFlush"
        /\ Throw(r, "settle")
     \/ /\ pc[r] = "wantMeta"
        /\ Throw(r, "ended")
  /\ UNCHANGED <<store, locks, history, budget>>

(* A lock directory older than DEFAULT_STALE_MS is removed by a waiter.    *)
BreakCacheLock(q) ==
  /\ cacheLock[q] # NoRun
  /\ pc[cacheLock[q]] = "crashed"
  /\ \E r \in Runs : pc[r] \in {"wantCache", "wantFlush", "wantMeta"} /\ PathOf(r) = q
  /\ cacheLock' = [cacheLock EXCEPT ![q] = NoRun]
  /\ UNCHANGED <<pc, run, store, indexLock, history, budget>>

BreakIndexLock ==
  /\ indexLock # NoRun
  /\ pc[indexLock] = "crashed"
  /\ \E r \in Runs : pc[r] = "wantIndex"
  /\ indexLock' = NoRun
  /\ UNCHANGED <<pc, run, store, cacheLock, history, budget>>

-------------------------------------------------------------------------------
(* A file system error hits the operation named op. *)
Fault(op) ==
  /\ op \in FaultyOps /\ faults < MaxFaults
  /\ faults' = faults + 1
  /\ UNCHANGED crashes

(* The folder is left half-written: report and files may not fit, and the  *)
(* index may list a folder without a report.                               *)
LeaveHalfWritten(r) == interrupted' = interrupted \cup {PathOf(r)}

ExtOf(c) == {f \in ExtFiles : c.files[f] # NoRun}

(* What rotateCacheArtefacts would move: extractions/ as one entry, the    *)
(* files of sources/ one by one; never .lock, .staging.* or llms-full-*.   *)
Movable(c) ==
  {e \in {"report", "query"} : c[e] # NoRun}
  \cup {e \in {"meta"} : c.meta # NoMeta}
  \cup {e \in {"extractions"} : ExtOf(c) # {}}
  \cup {f \in SrcFiles : c.files[f] # NoRun}

(* Entry e of snapshot c takes the value it has in snapshot d. *)
Take(c, e, d) ==
  CASE e = "report" -> [c EXCEPT !.report = d.report]
    [] e = "query" -> [c EXCEPT !.query = d.query]
    [] e = "meta" -> [c EXCEPT !.meta = d.meta]
    [] e = "extractions" -> [c EXCEPT !.files = [f \in Files |->
                               IF f \in ExtFiles THEN d.files[f] ELSE c.files[f]]]
    [] OTHER -> [c EXCEPT !.files[e] = d.files[e]]

(* Mutant: a folder without a report is not rotated. *)
PlanRotationOfReports(r) ==
  LET moves == IF Content(r).report = NoRun THEN {} ELSE Movable(Content(r)) IN
  /\ pc[r] = "rotate"
  /\ IF moves = {}
     THEN /\ Goto(r, "stage")
          /\ UNCHANGED <<run, archives>>
     ELSE /\ Goto(r, "move")
          /\ run' = [run EXCEPT ![r].todo = moves,
                                ![r].slot = Len(archives[PathOf(r)]) + 1]
          /\ archives' = [archives EXCEPT ![PathOf(r)] = Append(@, Empty)]
  /\ UNCHANGED <<folder, index, locks, history, budget>>

(* rotateCacheArtefacts plans its moves and makes the first numbered       *)
(* sibling that does not exist; with nothing to move it makes none.        *)
PlanRotation(r) ==
  LET moves == Movable(Content(r)) IN
  /\ pc[r] = "rotate"
  /\ IF moves = {}
     THEN /\ Goto(r, "stage")
          /\ UNCHANGED <<run, archives>>
     ELSE /\ Goto(r, "move")
          /\ run' = [run EXCEPT ![r].todo = moves,
                                ![r].slot = Len(archives[PathOf(r)]) + 1]
          /\ archives' = [archives EXCEPT ![PathOf(r)] = Append(@, Empty)]
  /\ UNCHANGED <<folder, index, locks, history, budget>>

(* One rename of the rotation, in whatever order readdir lists. *)
MoveEntry(r) ==
  /\ pc[r] = "move"
  /\ \E e \in run[r].todo :
       /\ archives' = [archives EXCEPT ![PathOf(r)][run[r].slot] = Take(@, e, Content(r))]
       /\ SetContent(r, Take(Content(r), e, Empty))
       /\ run' = [run EXCEPT ![r].todo = @ \ {e}]
       /\ Goto(r, IF run[r].todo = {e} THEN "stage" ELSE "move")
  /\ UNCHANGED <<index, locks, history, budget>>

(* A failed rotation is logged; the run goes on and replaces the files     *)
(* that are still there in place.                                          *)
RotationFails(r) ==
  /\ pc[r] \in {"rotate", "move"}
  /\ Fault("rotate")
  /\ run' = [run EXCEPT ![r].todo = {}]
  /\ Goto(r, "stage")
  /\ UNCHANGED <<store, locks, history>>

(* writeCacheFiles fills a staging directory inside the folder. *)
StageFiles(r) ==
  /\ pc[r] = "stage"
  /\ run' = [run EXCEPT ![r].staging = TRUE]
  /\ Goto(r, "commitQuery")
  /\ UNCHANGED <<store, locks, history, budget>>

(* commitStagedArtefacts: query.txt, then each extraction, then each       *)
(* source is renamed over whatever has its name.                           *)
CommitQuery(r) ==
  /\ pc[r] = "commitQuery"
  /\ SetContent(r, [Content(r) EXCEPT !.query = r])
  /\ run' = [run EXCEPT ![r].todo = run[r].writes]
  /\ Goto(r, "commit")
  /\ UNCHANGED <<archives, index, locks, history, budget>>

CommitFile(r) ==
  /\ pc[r] = "commit"
  /\ \E f \in run[r].todo :
       /\ f \in SrcFiles => run[r].todo \cap ExtFiles = {}
       /\ SetContent(r, [Content(r) EXCEPT !.files[f] = r])
       /\ run' = [run EXCEPT ![r].todo = @ \ {f}]
       /\ Goto(r, IF run[r].todo = {f} THEN "prune" ELSE "commit")
  /\ UNCHANGED <<archives, index, locks, history, budget>>

(* Mutant: nothing is pruned. *)
PruneNothing(r) ==
  /\ pc[r] = "prune"
  /\ Goto(r, "unstage")
  /\ UNCHANGED <<run, store, locks, history, budget>>

(* pruneDirectory on both directories: files this run did not write go. *)
Prune(r) ==
  /\ pc[r] = "prune"
  /\ SetContent(r, [Content(r) EXCEPT !.files =
                      [f \in Files |-> IF f \in run[r].writes THEN @[f] ELSE NoRun]])
  /\ Goto(r, "unstage")
  /\ UNCHANGED <<run, archives, index, locks, history, budget>>

(* The finally block of writeCacheFiles; its own failure is swallowed. *)
Unstage(r) ==
  /\ pc[r] = "unstage"
  /\ Goto(r, IF run[r].failed THEN "freeCache" ELSE "report")
  /\ \/ /\ run' = [run EXCEPT ![r].staging = FALSE]
        /\ UNCHANGED budget
     \/ /\ Fault("rmStaging")
        /\ UNCHANGED run
  /\ UNCHANGED <<store, locks, history>>

WriteReport(r) ==
  /\ pc[r] = "report"
  /\ SetContent(r, [Content(r) EXCEPT !.report = r])
  /\ committed' = committed \cup {r}
  /\ interrupted' = interrupted \ {PathOf(r)}
  /\ Goto(r, IF run[r].op = "research" THEN "meta" ELSE "wantIndex")
  /\ UNCHANGED <<run, archives, index, locks, indexed, budget>>

(* Any step from the staging to the report may throw: the staging is       *)
(* removed, the lock released and the error reported; nothing is rolled    *)
(* back.                                                                   *)
CommitFails(r) ==
  /\ pc[r] \in {"stage", "commitQuery", "commit", "prune", "report"}
  /\ Fault("commit")
  /\ LeaveHalfWritten(r)
  /\ Throw(r, IF pc[r] = "report" THEN "freeCache" ELSE "unstage")
  /\ UNCHANGED <<store, locks, committed, indexed>>

(* writeTelemetrySidecar: tmp file and rename; no-op without telemetry, a  *)
(* failure is swallowed.                                                   *)
WriteMeta(r, outcome) ==
  \/ /\ Telemetry
     /\ SetContent(r, [Content(r) EXCEPT !.meta = [run |-> r, outcome |-> outcome]])
     /\ UNCHANGED budget
  \/ /\ ~Telemetry
     /\ UNCHANGED <<folder, budget>>
  \/ /\ Fault("meta")
     /\ UNCHANGED folder

Outcome(r) == IF run[r].op = "degraded" THEN "degraded" ELSE "completed"

(* The sidecar written while the files are: before the index entry on the  *)
(* success path, last of all on the degraded one.                          *)
WriteTelemetrySidecar(r) ==
  /\ pc[r] = "meta"
  /\ WriteMeta(r, Outcome(r))
  /\ Goto(r, IF run[r].op = "research" THEN "wantIndex" ELSE "freeCache")
  /\ UNCHANGED <<run, archives, index, locks, history>>


-------------------------------------------------------------------------------
(* The read of updateIndex and removeIndexEntry.  updateIndex takes any    *)
(* read error for an empty index; removeIndexEntry gives up on one.        *)
ReadIndex(r) ==
  /\ pc[r] = "readIndex"
  /\ \/ /\ run' = [run EXCEPT ![r].snap = index]
        /\ Goto(r, IF run[r].op = "degraded" /\ index[PathOf(r)] = NoRun
                   THEN "freeIndex" ELSE "writeIndex")
        /\ interrupted' = IF run[r].op = "degraded" /\ index[PathOf(r)] = NoRun
                          THEN interrupted \ {PathOf(r)} ELSE interrupted
        /\ UNCHANGED budget
     \/ /\ Fault("readIndex")
        /\ run' = [run EXCEPT ![r].snap = [q \in Paths |-> NoRun]]
        /\ Goto(r, IF run[r].op = "degraded" THEN "freeIndex" ELSE "writeIndex")
        /\ UNCHANGED interrupted
  /\ UNCHANGED <<store, locks, committed, indexed>>

(* Mutant: the removal filters by the wrong slug. *)
WriteIndexUnchanged(r) ==
  /\ pc[r] = "writeIndex"
  /\ IF run[r].op = "degraded"
     THEN index' = run[r].snap /\ UNCHANGED indexed
     ELSE index' = [run[r].snap EXCEPT ![PathOf(r)] = r] /\ indexed' = indexed \cup {r}
  /\ interrupted' = IF run[r].op = "degraded" THEN interrupted \ {PathOf(r)} ELSE interrupted
  /\ Goto(r, "freeIndex")
  /\ UNCHANGED <<run, folder, archives, locks, committed, budget>>

(* The whole index is written back, with this folder listed or removed. *)
WriteIndex(r) ==
  /\ pc[r] = "writeIndex"
  /\ LET entry == IF run[r].op = "degraded" THEN NoRun ELSE r
     IN /\ index' = [run[r].snap EXCEPT ![PathOf(r)] = entry]
        /\ indexed' = IF entry = r THEN indexed \cup {r} ELSE indexed
  /\ interrupted' = IF run[r].op = "degraded" THEN interrupted \ {PathOf(r)} ELSE interrupted
  /\ Goto(r, "freeIndex")
  /\ UNCHANGED <<run, folder, archives, locks, committed, budget>>

WriteIndexFails(r) ==
  /\ pc[r] = "writeIndex"
  /\ Fault("writeIndex")
  /\ Throw(r, "freeIndex")
  /\ UNCHANGED <<store, locks, history>>

(* Mutant: the index lock is not released. *)
ReleaseIndexNever(r) ==
  /\ pc[r] = "freeIndex"
  /\ Goto(r, IF run[r].op = "degraded" /\ ~run[r].failed THEN "meta" ELSE "freeCache")
  /\ UNCHANGED <<run, store, locks, history, budget>>

ReleaseIndex(r) ==
  /\ pc[r] = "freeIndex"
  /\ indexLock' = NoRun
  /\ Goto(r, IF run[r].op = "degraded" /\ ~run[r].failed THEN "meta" ELSE "freeCache")
  /\ UNCHANGED <<run, store, cacheLock, history, budget>>

ReleaseCache(r) ==
  /\ pc[r] \in {"freeCache", "freeFlush", "freeMeta"}
  /\ cacheLock' = [cacheLock EXCEPT ![PathOf(r)] = NoRun]
  /\ Goto(r, CASE pc[r] = "freeMeta" -> "ended"
               [] pc[r] = "freeFlush" -> "settle"
               [] run[r].op # "research" -> "ended"
               [] run[r].failed -> "settle"
               [] OTHER -> "await")
  /\ UNCHANGED <<run, store, indexLock, history, budget>>

-------------------------------------------------------------------------------
(* A documentation download ends, at any time, on its own or aborted. *)
DownloadSettles(r) ==
  /\ pc[r] \notin {"idle", "crashed"}
  /\ run[r].dl = "running"
  /\ run' = [run EXCEPT ![r].dl = "settled"]
  /\ UNCHANGED <<pc, store, locks, history, budget>>

(* After the first lock: all downloads are awaited, then the signal is     *)
(* looked at, then the staged files are flushed under the lock.            *)
AwaitDownloads(r) ==
  /\ pc[r] = "await"
  /\ run[r].dl # "running"
  /\ \/ /\ Goto(r, IF run[r].llmsStaging THEN "wantFlush" ELSE "settle")
        /\ UNCHANGED run
     \/ /\ MayGiveUp
        /\ Throw(r, "settle")
  /\ UNCHANGED <<store, locks, history, budget>>

(* flushLlmsStaging: the staged download, if there is one, is copied. *)
FlushLlmsStaging(r) ==
  /\ pc[r] = "flush"
  /\ \E found \in BOOLEAN : SetContent(r, [Content(r) EXCEPT !.llms = @ \/ found])
  /\ Goto(r, "freeFlush")
  /\ UNCHANGED <<run, archives, index, locks, history, budget>>

(* Mutant: the staging directory goes before its writers. *)
SettleNobody(r) ==
  /\ pc[r] = "settle"
  /\ Goto(r, IF run[r].failed THEN "ended" ELSE "suggest")
  /\ run' = [run EXCEPT ![r].llmsStaging = FALSE]
  /\ UNCHANGED <<store, locks, history, budget>>

(* The finally block of executePipeline: writers settle, then their        *)
(* directory is removed; a failed removal is logged.                       *)
SettleDownloads(r) ==
  /\ pc[r] = "settle"
  /\ run[r].dl # "running"
  /\ Goto(r, IF run[r].failed THEN "ended" ELSE "suggest")
  /\ \/ /\ run' = [run EXCEPT ![r].llmsStaging = FALSE]
        /\ UNCHANGED budget
     \/ /\ Fault("rmStaging")
        /\ UNCHANGED run
  /\ UNCHANGED <<store, locks, history>>

(* runCacheSuggestStage reads the index without a lock and changes         *)
(* nothing; a fired signal ends the run here.                              *)
CacheSuggest(r) ==
  /\ pc[r] = "suggest"
  /\ \/ /\ Goto(r, IF Telemetry THEN "wantMeta" ELSE "ended")
        /\ UNCHANGED run
     \/ /\ MayGiveUp
        /\ Throw(r, "ended")
  /\ UNCHANGED <<store, locks, history, budget>>

(* writeLockedTelemetry: the refresh of the sidecar, under the lock again. *)
WriteLockedTelemetry(r) ==
  /\ pc[r] = "lastMeta"
  /\ WriteMeta(r, "completed")
  /\ Goto(r, "freeMeta")
  /\ UNCHANGED <<run, archives, index, locks, history>>

-------------------------------------------------------------------------------
(* Mutant: a degraded exit clears the folder whatever it holds. *)
HasReportIgnored(r) ==
  /\ pc[r] = "hasReport"
  /\ Goto(r, "clear")
  /\ UNCHANGED <<run, store, locks, history, budget>>

(* degradedReturn under the cache lock. *)
HasReport(r) ==
  /\ pc[r] = "hasReport"
  /\ Goto(r, IF Content(r).report = NoRun THEN "clear" ELSE "meta")
  /\ UNCHANGED <<run, store, locks, history, budget>>

(* Mutant: the whole folder is removed, the documentation included. *)
ClearEverything(r) ==
  /\ pc[r] = "clear"
  /\ SetContent(r, Empty)
  /\ Goto(r, "wantIndex")
  /\ UNCHANGED <<run, archives, index, locks, history, budget>>

(* clearCacheArtefacts; its failure, which may leave any of the files it   *)
(* was to remove, is logged.                                               *)
ClearCacheArtefacts(r) ==
  /\ pc[r] = "clear"
  /\ \/ /\ SetContent(r, [Empty EXCEPT !.meta = Content(r).meta, !.llms = Content(r).llms])
        /\ UNCHANGED budget
     \/ /\ Fault("clear")
        /\ \E kept \in SUBSET Files, query \in {NoRun, Content(r).query} :
             SetContent(r, [Content(r) EXCEPT !.query = query,
                              !.files = [f \in Files |-> IF f \in kept THEN @[f] ELSE NoRun]])
  /\ Goto(r, "wantIndex")
  /\ UNCHANGED <<run, archives, index, locks, history>>

-------------------------------------------------------------------------------
(* The process of a run dies.  What it wrote, its locks and its staging    *)
(* directories stay.                                                       *)
Crash(r) ==
  /\ crashes < MaxCrashes
  /\ pc[r] \notin {"idle", "ended", "crashed"}
  /\ crashes' = crashes + 1
  /\ Goto(r, "crashed")
  /\ interrupted' = IF pc[r] \in {"move", "stage", "commitQuery", "commit", "prune",
                                  "unstage", "report"}
                    THEN interrupted \cup {PathOf(r)} ELSE interrupted
  /\ UNCHANGED <<run, store, locks, committed, indexed, faults>>

Step(r) ==
  \/ AcquireCache(r) \/ AcquireIndex(r)
  \/ PlanRotation(r) \/ MoveEntry(r) \/ StageFiles(r) \/ CommitQuery(r) \/ CommitFile(r)
  \/ Prune(r) \/ Unstage(r) \/ WriteReport(r) \/ WriteTelemetrySidecar(r)
  \/ ReadIndex(r) \/ WriteIndex(r) \/ ReleaseIndex(r) \/ ReleaseCache(r)
  \/ DownloadSettles(r) \/ AwaitDownloads(r) \/ FlushLlmsStaging(r) \/ SettleDownloads(r)
  \/ CacheSuggest(r) \/ WriteLockedTelemetry(r)
  \/ HasReport(r) \/ ClearCacheArtefacts(r)

Start(r) == \E q \in Paths, op \in Ops, ws \in FileSets : Begin(r, q, op, ws)

Failure(r) ==
  \/ GiveUp(r) \/ RotationFails(r) \/ CommitFails(r) \/ WriteIndexFails(r) \/ Crash(r)

(* All runs are over: the only state in which the system may stop. *)
Finished ==
  /\ \A r \in Runs : pc[r] \in {"ended", "crashed"}
  /\ UNCHANGED vars

Next ==
  \/ \E r \in Runs : Start(r) \/ Step(r) \/ Failure(r)
  \/ \E q \in Paths : BreakCacheLock(q)
  \/ BreakIndexLock
  \/ Finished

Spec == Init /\ [][Next]_vars

-------------------------------------------------------------------------------
(* Nothing in c but what one run wrote. *)
OneWriter(c) ==
  \E r \in Runs \cup {NoRun} :
    /\ {c.report, c.query} \subseteq {r, NoRun}
    /\ \A f \in Files : c.files[f] \in {r, NoRun}

(* "A refresh cannot mix old and new artefact sets": at no moment, not     *)
(* even in the middle of a commit or after a crash, does a canonical       *)
(* folder or an archive hold files of two runs, so no report is ever next  *)
(* to sources it was not written from.  Rotation must not have failed.     *)
NeverMixed ==
  \A q \in Paths :
    /\ OneWriter(folder[q].content)
    /\ \A i \in DOMAIN archives[q] : OneWriter(archives[q][i])

(* A report that was renamed into place stays on disk, in the canonical    *)
(* folder or in an archive: no refresh, degraded exit, crash or error      *)
(* deletes or overwrites it.  Rotation must not have failed.               *)
ReportsKept ==
  \A r \in committed :
    \/ folder[PathOf(r)].content.report = r
    \/ \E i \in DOMAIN archives[PathOf(r)] : archives[PathOf(r)][i].report = r

(* Whoever takes a free lock finds a report together with exactly the      *)
(* files its run wrote, unless a crash or an error interrupted a commit    *)
(* there and no later run repaired it.                                     *)
ReportComplete ==
  \A q \in Paths : \A r \in Runs :
    (cacheLock[q] = NoRun /\ q \notin interrupted /\ folder[q].content.report = r)
      => /\ folder[q].content.query = r
         /\ \A f \in Files : folder[q].content.files[f] = IF f \in run[r].writes THEN r ELSE NoRun

(* The index suggests no folder without a report, unless a crash or an     *)
(* error interrupted a commit there; the next run on the folder, degraded  *)
(* or not, repairs it.                                                     *)
ListedHasReport ==
  \A q \in Paths :
    (cacheLock[q] = NoRun /\ q \notin interrupted /\ index[q] # NoRun)
      => folder[q].content.report # NoRun

(* No index entry is lost to another run's read-modify-write: as long as   *)
(* the report of a run that listed it is in place, the entry is there.     *)
ListingKept ==
  \A q \in Paths : \A r \in indexed :
    folder[q].content.report = r => index[q] = r

(* What readers of the cache are promised: every step of any run is one    *)
(* step of that store or none.  A report is published into an empty place  *)
(* and leaves it for an archive only, the index is told what the folder    *)
(* holds when it is written, and documentation survives rotation, pruning  *)
(* and degraded exits.  Rotation must not have failed; a failed read of    *)
(* the index may lose the entries of other folders.                        *)
CurrentReports == [q \in Paths |-> folder[q].content.report]
ArchivedReports == [q \in Paths |-> {archives[q][i].report : i \in DOMAIN archives[q]} \ {NoRun}]
Documented == [q \in Paths |-> folder[q].content.llms]

Promise == INSTANCE ReportStore
             WITH current <- CurrentReports, archived <- ArchivedReports, listed <- index,
                  documented <- Documented, MayForget <- "readIndex" \in FaultyOps

StoreSpec == Promise!Spec

(* A download that may still write has its staging directory, and a run    *)
(* that has ended leaves neither, unless removing the directory failed.    *)
StagingOutlivesWriters ==
  \A r \in Runs :
    /\ pc[r] # "idle" /\ run[r].dl = "running" => run[r].llmsStaging
    /\ pc[r] = "ended" => run[r].dl # "running" /\ (run[r].llmsStaging => faults > 0)

(* The run that owns a lock the live run r waits for. *)
Owner(r) == CASE pc[r] \in {"wantCache", "wantFlush", "wantMeta"} -> cacheLock[PathOf(r)]
              [] pc[r] = "wantIndex" -> indexLock
              [] OTHER -> NoRun

(* The nested locks cannot deadlock: no run waits for a lock it holds      *)
(* itself, and no two runs wait for each other's, so that no run relies on *)
(* the lock timeouts to end.                                               *)
NoCircularWait ==
  \A r \in Runs : Owner(r) # NoRun => Owner(r) # r /\ Owner(Owner(r)) # r
===============================================================================
