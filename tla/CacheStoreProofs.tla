---------------------------- MODULE CacheStoreProofs ----------------------------
(***************************************************************************)
(* Proofs about CacheStore for any runs, folders, files and any bounds on  *)
(* crashes and errors, and about FsLock, the lock it is written against.   *)
(*                                                                         *)
(* Every safety property of CacheStore rests on the same three facts: the  *)
(* types (TypeCorrect), who holds which lock (LocksCorrect), and the frame *)
(* of a step (RunStepTyped).  Together they say that while a run holds the *)
(* lock of its folder no other run changes what it relies on               *)
(* (Undisturbed), so what a place of a run says about its folder follows   *)
(* from that run's own steps.  The control flow of a run (ControlFlow)     *)
(* says which step leads to which place.                                   *)
(*                                                                         *)
(* The theorems whose hypothesis excludes an error of one operation are    *)
(* false without it: a failed rotation mixes two sets of files, and a      *)
(* failed read of the index loses the entries of other folders.            *)
(***************************************************************************)
EXTENDS CacheStore, FsLock, SequenceTheorems, TLAPS

-------------------------------------------------------------------------------
(* What one assignment to a local variable of run r does to the locals of  *)
(* every run.                                                              *)
RunsTyped == run \in [Runs -> RunState \cup {NoRun}]
OthersKept(r) == \A s \in Runs \ {r} : run'[s] = run[s]
TaskKept(r) ==
  run'[r].op = run[r].op /\ run'[r].path = run[r].path /\ run'[r].writes = run[r].writes
RotationKept(r) == run'[r].todo = run[r].todo /\ run'[r].slot = run[r].slot
DownloadKept(r) == run'[r].dl = run[r].dl /\ run'[r].llmsStaging = run[r].llmsStaging

LocalsUpdated(r) == RunsTyped' /\ run'[r] \in RunState /\ OthersKept(r) /\ TaskKept(r)

LEMMA SetTodo ==
  ASSUME RunsTyped, NEW r \in Runs, run[r] \in RunState,
         NEW v \in SUBSET (Entries \cup Files), run' = [run EXCEPT ![r].todo = v]
  PROVE  /\ LocalsUpdated(r) /\ DownloadKept(r)
         /\ run'[r].todo = v /\ run'[r].slot = run[r].slot
         /\ run'[r].snap = run[r].snap /\ run'[r].failed = run[r].failed
<1> DEFINE x == [run[r] EXCEPT !.todo = v]
<1>1. /\ x \in RunState /\ x.todo = v
      /\ x.op = run[r].op /\ x.path = run[r].path /\ x.writes = run[r].writes
      /\ x.slot = run[r].slot /\ x.snap = run[r].snap /\ x.failed = run[r].failed
      /\ x.dl = run[r].dl /\ x.llmsStaging = run[r].llmsStaging
  BY DEF RunState
<1>2. run' = [run EXCEPT ![r] = x]
  OBVIOUS
<1> HIDE DEF x
<1> QED
  BY <1>1, <1>2 DEF RunsTyped, OthersKept, TaskKept, DownloadKept, LocalsUpdated

LEMMA SetFailed ==
  ASSUME RunsTyped, NEW r \in Runs, run[r] \in RunState,
         run' = [run EXCEPT ![r].failed = TRUE]
  PROVE  /\ LocalsUpdated(r) /\ DownloadKept(r) /\ RotationKept(r)
         /\ run'[r].failed = TRUE /\ run'[r].snap = run[r].snap
<1> DEFINE x == [run[r] EXCEPT !.failed = TRUE]
<1>1. /\ x \in RunState /\ x.failed = TRUE
      /\ x.op = run[r].op /\ x.path = run[r].path /\ x.writes = run[r].writes
      /\ x.todo = run[r].todo /\ x.slot = run[r].slot /\ x.snap = run[r].snap
      /\ x.dl = run[r].dl /\ x.llmsStaging = run[r].llmsStaging
  BY DEF RunState
<1>2. run' = [run EXCEPT ![r] = x]
  OBVIOUS
<1> HIDE DEF x
<1> QED
  BY <1>1, <1>2
     DEF RunsTyped, OthersKept, TaskKept, DownloadKept, RotationKept, LocalsUpdated

LEMMA SetStaging ==
  ASSUME RunsTyped, NEW r \in Runs, run[r] \in RunState,
         NEW v \in BOOLEAN, run' = [run EXCEPT ![r].staging = v]
  PROVE  /\ LocalsUpdated(r) /\ DownloadKept(r) /\ RotationKept(r)
         /\ run'[r].snap = run[r].snap /\ run'[r].failed = run[r].failed
<1> DEFINE x == [run[r] EXCEPT !.staging = v]
<1>1. /\ x \in RunState
      /\ x.op = run[r].op /\ x.path = run[r].path /\ x.writes = run[r].writes
      /\ x.todo = run[r].todo /\ x.slot = run[r].slot /\ x.snap = run[r].snap
      /\ x.failed = run[r].failed
      /\ x.dl = run[r].dl /\ x.llmsStaging = run[r].llmsStaging
  BY DEF RunState
<1>2. run' = [run EXCEPT ![r] = x]
  OBVIOUS
<1> HIDE DEF x
<1> QED
  BY <1>1, <1>2
     DEF RunsTyped, OthersKept, TaskKept, DownloadKept, RotationKept, LocalsUpdated

LEMMA SetSnap ==
  ASSUME RunsTyped, NEW r \in Runs, run[r] \in RunState,
         NEW v \in Index, run' = [run EXCEPT ![r].snap = v]
  PROVE  /\ LocalsUpdated(r) /\ DownloadKept(r) /\ RotationKept(r)
         /\ run'[r].snap = v /\ run'[r].failed = run[r].failed
<1> DEFINE x == [run[r] EXCEPT !.snap = v]
<1>1. /\ x \in RunState /\ x.snap = v
      /\ x.op = run[r].op /\ x.path = run[r].path /\ x.writes = run[r].writes
      /\ x.todo = run[r].todo /\ x.slot = run[r].slot /\ x.failed = run[r].failed
      /\ x.dl = run[r].dl /\ x.llmsStaging = run[r].llmsStaging
  BY DEF RunState
<1>2. run' = [run EXCEPT ![r] = x]
  OBVIOUS
<1> HIDE DEF x
<1> QED
  BY <1>1, <1>2
     DEF RunsTyped, OthersKept, TaskKept, DownloadKept, RotationKept, LocalsUpdated

LEMMA SetDl ==
  ASSUME RunsTyped, NEW r \in Runs, run[r] \in RunState,
         run' = [run EXCEPT ![r].dl = "settled"]
  PROVE  /\ LocalsUpdated(r) /\ RotationKept(r)
         /\ run'[r].dl = "settled" /\ run'[r].llmsStaging = run[r].llmsStaging
         /\ run'[r].snap = run[r].snap /\ run'[r].failed = run[r].failed
<1> DEFINE x == [run[r] EXCEPT !.dl = "settled"]
<1>1. /\ x \in RunState /\ x.dl = "settled"
      /\ x.op = run[r].op /\ x.path = run[r].path /\ x.writes = run[r].writes
      /\ x.todo = run[r].todo /\ x.slot = run[r].slot /\ x.snap = run[r].snap
      /\ x.failed = run[r].failed /\ x.llmsStaging = run[r].llmsStaging
  BY DEF RunState
<1>2. run' = [run EXCEPT ![r] = x]
  OBVIOUS
<1> HIDE DEF x
<1> QED
  BY <1>1, <1>2
     DEF RunsTyped, OthersKept, TaskKept, RotationKept, LocalsUpdated

LEMMA SetLlmsStaging ==
  ASSUME RunsTyped, NEW r \in Runs, run[r] \in RunState,
         run' = [run EXCEPT ![r].llmsStaging = FALSE]
  PROVE  /\ LocalsUpdated(r) /\ RotationKept(r)
         /\ run'[r].llmsStaging = FALSE /\ run'[r].dl = run[r].dl
         /\ run'[r].snap = run[r].snap /\ run'[r].failed = run[r].failed
<1> DEFINE x == [run[r] EXCEPT !.llmsStaging = FALSE]
<1>1. /\ x \in RunState /\ x.llmsStaging = FALSE
      /\ x.op = run[r].op /\ x.path = run[r].path /\ x.writes = run[r].writes
      /\ x.todo = run[r].todo /\ x.slot = run[r].slot /\ x.snap = run[r].snap
      /\ x.failed = run[r].failed /\ x.dl = run[r].dl
  BY DEF RunState
<1>2. run' = [run EXCEPT ![r] = x]
  OBVIOUS
<1> HIDE DEF x
<1> QED
  BY <1>1, <1>2
     DEF RunsTyped, OthersKept, TaskKept, RotationKept, LocalsUpdated

-------------------------------------------------------------------------------
(* Operators on snapshots. *)
LEMMA EmptyTyped == Empty \in Snapshot
BY DEF Empty, Snapshot, NoFiles, NoMeta, Meta

LEMMA MovableTyped == ASSUME NEW c PROVE Movable(c) \in SUBSET Entries
BY DEF Movable, Entries

(* Moving an entry takes the value from the other snapshot and leaves the  *)
(* rest, documentation downloads included, alone.                          *)
LEMMA TakeTyped ==
  ASSUME NEW c \in Snapshot, NEW d \in Snapshot, NEW e \in Entries \cup Files
  PROVE  Take(c, e, d) \in Snapshot /\ Take(c, e, d).llms = c.llms
<1> USE DEF Take, Snapshot
<1>1. CASE e = "report"
  BY <1>1
<1>2. CASE e = "query"
  BY <1>2
<1>3. CASE e = "meta"
  BY <1>3
<1>4. CASE e = "extractions"
  BY <1>4
<1>5. CASE e \notin {"report", "query", "meta", "extractions"}
  BY <1>5 DEF Entries, Files
<1> QED
  BY <1>1, <1>2, <1>3, <1>4, <1>5

(* SetContent changes the content of the run's own folder and nothing of   *)
(* any other.                                                              *)
LEMMA FolderUpdate ==
  ASSUME folder \in [Paths -> Folder], NEW r \in Runs, PathOf(r) \in Paths,
         NEW c \in Snapshot, SetContent(r, c)
  PROVE  /\ folder' \in [Paths -> Folder]
         /\ folder'[PathOf(r)].content = c
         /\ \A q \in Paths \ {PathOf(r)} : folder'[q] = folder[q]
<1>1. ASSUME NEW x \in Folder
      PROVE  [x EXCEPT !.content = c] \in Folder /\ [x EXCEPT !.content = c].content = c
  BY DEF Folder
<1>2. folder' = [folder EXCEPT ![PathOf(r)] = [folder[PathOf(r)] EXCEPT !.content = c]]
  BY DEF SetContent
<1> QED
  BY <1>1, <1>2

LEMMA Started ==
  ASSUME TypeOK, NEW r \in Runs, pc[r] # "idle"
  PROVE  /\ RunsTyped /\ run[r] \in RunState
         /\ PathOf(r) \in Paths /\ run[r].todo \in SUBSET (Entries \cup Files)
         /\ run[r].writes \in SUBSET Files /\ run[r].snap \in Index
         /\ folder[PathOf(r)] \in Folder /\ Content(r) \in Snapshot
<1>1. RunsTyped /\ run[r] \in RunState
  BY DEF TypeOK, RunsTyped
<1>2. /\ PathOf(r) \in Paths /\ run[r].todo \in SUBSET (Entries \cup Files)
      /\ run[r].writes \in FileSets /\ run[r].snap \in Index
  BY <1>1 DEF RunState, PathOf
<1>3. folder[PathOf(r)] \in Folder
  BY <1>2 DEF TypeOK
<1>4. Content(r) \in Snapshot
  BY <1>3 DEF Content, Folder
<1> QED
  BY <1>1, <1>2, <1>3, <1>4, StoreAssumption

-------------------------------------------------------------------------------
(* The places of a run that holds the index lock, of one in the middle of  *)
(* rewriting its folder, and of one that holds the lock of its folder.     *)
HoldsIndex == {"readIndex", "writeIndex", "freeIndex"}
Rewriting == {"move", "stage", "commitQuery", "commit", "prune", "unstage", "report"}
HoldsCache ==
  HoldsIndex \cup Rewriting \cup
  {"rotate", "meta", "wantIndex", "freeCache", "flush", "freeFlush", "lastMeta", "freeMeta",
   "hasReport", "clear"}

-------------------------------------------------------------------------------
(* The frame of a step of run r: what it cannot have changed.  Another     *)
(* run's place and locals stay; the body of a folder (its report, query    *)
(* and files) changes only for a run that is where it rewrites its own     *)
(* folder, the archives of a folder only for one that rotates it, the      *)
(* index only for one that is about to write it back.                      *)
Writers == {"move", "commitQuery", "commit", "prune", "report", "clear"}
Rotators == {"rotate", "move"}

BodyKept(q) ==
  /\ folder'[q].content.report = folder[q].content.report
  /\ folder'[q].content.query = folder[q].content.query
  /\ folder'[q].content.files = folder[q].content.files

Frame(r) ==
  /\ pc'[r] # "idle"
  /\ \A s \in Runs \ {r} : pc'[s] = pc[s]
  /\ OthersKept(r)
  /\ pc[r] # "idle" => TaskKept(r)
  /\ \A q \in Paths : (pc[r] \in Writers /\ q = PathOf(r)) \/ BodyKept(q)
  /\ \A q \in Paths : (pc[r] \in Rotators /\ q = PathOf(r)) \/ archives'[q] = archives[q]
  /\ \A q \in Paths : (pc[r] \in HoldsCache /\ q = PathOf(r)) \/ (q \in interrupted' <=> q \in interrupted)
  /\ pc[r] = "writeIndex" \/ (index' = index /\ indexed' = indexed)
  /\ pc[r] = "report" \/ committed' = committed
  /\ faults' >= faults

(* Run r's folder now holds c, every other folder what it held. *)
Writes(r, c) ==
  /\ c \in Snapshot
  /\ folder' \in [Paths -> Folder]
  /\ folder'[PathOf(r)].content = c
  /\ \A q \in Paths \ {PathOf(r)} : folder'[q] = folder[q]

(* The steps that take or give back a lock, or only move on. *)
LEMMA PlainSteps ==
  ASSUME TypeOK, NEW r \in Runs,
         \/ AcquireCache(r) \/ AcquireIndex(r) \/ ReleaseIndex(r) \/ ReleaseCache(r)
         \/ HasReport(r) \/ Crash(r)
  PROVE  TypeOK' /\ Frame(r)
<1> USE StoreAssumption
     DEF TypeOK, PCs, Goto, Frame, TaskKept, OthersKept, BodyKept, store, locks, history, budget
<1>1. pc[r] # "idle"
  BY DEF AcquireCache, AcquireIndex, ReleaseIndex, ReleaseCache, HasReport, Crash
<1>2. PathOf(r) \in Paths
  BY <1>1, Started
<1>3. CASE AcquireCache(r)
  BY <1>1, <1>2, <1>3 DEF AcquireCache, Entered
<1>4. CASE AcquireIndex(r)
  BY <1>1, <1>2, <1>4 DEF AcquireIndex
<1>5. CASE ReleaseIndex(r)
  BY <1>1, <1>2, <1>5 DEF ReleaseIndex
<1>6. CASE ReleaseCache(r)
  BY <1>1, <1>2, <1>6 DEF ReleaseCache
<1>7. CASE HasReport(r)
  BY <1>1, <1>2, <1>7 DEF HasReport
<1>8. CASE Crash(r)
  BY <1>1, <1>2, <1>8 DEF Crash, HoldsCache, Rewriting
<1> QED
  BY <1>3, <1>4, <1>5, <1>6, <1>7, <1>8

(* The steps that assign a local variable and leave the store alone. *)
LEMMA LocalSteps ==
  ASSUME TypeOK, NEW r \in Runs,
         \/ GiveUp(r) \/ RotationFails(r) \/ StageFiles(r) \/ Unstage(r) \/ CommitFails(r)
         \/ ReadIndex(r) \/ WriteIndexFails(r) \/ DownloadSettles(r) \/ AwaitDownloads(r)
         \/ SettleDownloads(r) \/ CacheSuggest(r)
  PROVE  /\ TypeOK' /\ Frame(r)
         /\ LocalsUpdated(r)
<1>1. pc[r] # "idle"
  BY DEF GiveUp, RotationFails, StageFiles, Unstage, CommitFails, ReadIndex, WriteIndexFails,
         DownloadSettles, AwaitDownloads, SettleDownloads, CacheSuggest
<1>2. RunsTyped /\ run[r] \in RunState /\ PathOf(r) \in Paths
  BY <1>1, Started
<1>3. LocalsUpdated(r)
  <2>1. UNCHANGED run => LocalsUpdated(r)
    BY <1>2 DEF LocalsUpdated, RunsTyped, OthersKept, TaskKept
  <2>2. CASE GiveUp(r) \/ CommitFails(r) \/ WriteIndexFails(r)
    BY <2>2, <1>2, SetFailed DEF GiveUp, CommitFails, WriteIndexFails, Throw
  <2>3. CASE AwaitDownloads(r) \/ CacheSuggest(r)
    BY <2>1, <2>3, <1>2, SetFailed DEF AwaitDownloads, CacheSuggest, Throw
  <2>4. CASE RotationFails(r)
    <3>1. {} \in SUBSET (Entries \cup Files)
      OBVIOUS
    <3> QED
      BY <3>1, <2>4, <1>2, SetTodo DEF RotationFails
  <2>5. CASE StageFiles(r) \/ Unstage(r)
    BY <2>1, <2>5, <1>2, SetStaging DEF StageFiles, Unstage
  <2>6. CASE ReadIndex(r)
    <3>1. index \in Index /\ [q \in Paths |-> NoRun] \in Index
      BY DEF TypeOK, Index
    <3> QED
      BY <3>1, <2>6, <1>2, SetSnap DEF ReadIndex
  <2>7. CASE DownloadSettles(r)
    BY <2>7, <1>2, SetDl DEF DownloadSettles
  <2>8. CASE SettleDownloads(r)
    BY <2>1, <2>8, <1>2, SetLlmsStaging DEF SettleDownloads
  <2> QED
    BY <2>2, <2>3, <2>4, <2>5, <2>6, <2>7, <2>8
<1>4. \E label \in PCs \ {"idle"} : Goto(r, label)
  <2> USE <1>1 DEF PCs
  <2>1. CASE GiveUp(r) \/ CommitFails(r) \/ WriteIndexFails(r)
    BY <2>1 DEF GiveUp, CommitFails, WriteIndexFails, Throw, AfterThrow
  <2>2. CASE AwaitDownloads(r) \/ CacheSuggest(r)
    BY <2>2 DEF AwaitDownloads, CacheSuggest, Throw
  <2>3. CASE RotationFails(r) \/ StageFiles(r)
    BY <2>3 DEF RotationFails, StageFiles
  <2>4. CASE Unstage(r) \/ SettleDownloads(r)
    BY <2>4 DEF Unstage, SettleDownloads
  <2>5. CASE ReadIndex(r)
    BY <2>5 DEF ReadIndex
  <2>6. CASE DownloadSettles(r)
    <3>1. Goto(r, pc[r])
      BY <2>6 DEF DownloadSettles, Goto, TypeOK
    <3> QED
      BY <3>1 DEF TypeOK
  <2> QED
    BY <2>1, <2>2, <2>3, <2>4, <2>5, <2>6
<1>5. /\ UNCHANGED <<store, locks, committed, indexed>>
      /\ \A q \in Paths :
           (pc[r] \in HoldsCache /\ q = PathOf(r)) \/ (q \in interrupted' <=> q \in interrupted)
      /\ interrupted' \subseteq Paths
      /\ crashes' = crashes /\ faults' \in 0 .. MaxFaults /\ faults' >= faults
  <2> USE StoreAssumption, <1>2 DEF TypeOK, Fault, store, locks, history, budget
  <2>1. CASE GiveUp(r) \/ WriteIndexFails(r) \/ RotationFails(r) \/ StageFiles(r) \/ Unstage(r)
    BY <2>1 DEF GiveUp, WriteIndexFails, RotationFails, StageFiles, Unstage
  <2>2. CASE CommitFails(r)
    BY <2>2 DEF CommitFails, LeaveHalfWritten, HoldsCache, Rewriting
  <2>3. CASE ReadIndex(r)
    BY <2>3 DEF ReadIndex, HoldsCache, HoldsIndex
  <2>4. CASE DownloadSettles(r) \/ AwaitDownloads(r) \/ SettleDownloads(r) \/ CacheSuggest(r)
    BY <2>4 DEF DownloadSettles, AwaitDownloads, SettleDownloads, CacheSuggest
  <2> QED
    BY <2>1, <2>2, <2>3, <2>4
<1>6. TypeOK'
  BY <1>2, <1>3, <1>4, <1>5
     DEF TypeOK, Goto, LocalsUpdated, RunsTyped, OthersKept, store, locks
<1>7. Frame(r)
  BY <1>1, <1>3, <1>4, <1>5
     DEF TypeOK, Goto, Frame, LocalsUpdated, BodyKept, store, locks
<1> QED
  BY <1>3, <1>6, <1>7

-------------------------------------------------------------------------------
(* What each step that writes to a folder leaves there. *)
LEMMA ContentTyped ==
  ASSUME TypeOK, NEW r \in Runs, NEW c \in Snapshot
  PROVE  /\ [c EXCEPT !.query = r] \in Snapshot /\ [c EXCEPT !.report = r] \in Snapshot
         /\ \A m \in Meta : [c EXCEPT !.meta = m] \in Snapshot
         /\ \A b \in BOOLEAN : [c EXCEPT !.llms = b] \in Snapshot
         /\ \A f \in Files : [c EXCEPT !.files[f] = r] \in Snapshot
         /\ \A g \in [Files -> Runs \cup {NoRun}] : [c EXCEPT !.files = g] \in Snapshot
BY DEF Snapshot

LEMMA MoveEntryEffect ==
  ASSUME TypeOK, NEW r \in Runs, MoveEntry(r)
  PROVE  \E e \in run[r].todo :
           /\ e \in Entries \cup Files
           /\ Writes(r, Take(Content(r), e, Empty))
           /\ archives' = [archives EXCEPT ![PathOf(r)][run[r].slot] = Take(@, e, Content(r))]
           /\ LocalsUpdated(r) /\ DownloadKept(r)
           /\ run'[r].todo = run[r].todo \ {e} /\ run'[r].slot = run[r].slot
           /\ run'[r].failed = run[r].failed
           /\ Goto(r, IF run[r].todo = {e} THEN "stage" ELSE "move")
           /\ UNCHANGED <<index, locks, history, budget>>
<1>1. pc[r] # "idle"
  BY DEF MoveEntry
<1>2. PICK e \in run[r].todo :
        /\ archives' = [archives EXCEPT ![PathOf(r)][run[r].slot] = Take(@, e, Content(r))]
        /\ SetContent(r, Take(Content(r), e, Empty))
        /\ run' = [run EXCEPT ![r].todo = run[r].todo \ {e}]
        /\ Goto(r, IF run[r].todo = {e} THEN "stage" ELSE "move")
  BY DEF MoveEntry
<1>3. e \in Entries \cup Files /\ Take(Content(r), e, Empty) \in Snapshot
  BY <1>1, Started, EmptyTyped, TakeTyped
<1>4. Writes(r, Take(Content(r), e, Empty))
  BY <1>1, <1>2, <1>3, Started, FolderUpdate DEF TypeOK, Writes
<1>5. run[r].todo \ {e} \in SUBSET (Entries \cup Files)
  BY <1>1, Started
<1>6. /\ LocalsUpdated(r) /\ DownloadKept(r)
      /\ run'[r].todo = run[r].todo \ {e} /\ run'[r].slot = run[r].slot
      /\ run'[r].failed = run[r].failed
  BY <1>1, <1>2, <1>5, Started, SetTodo
<1>7. UNCHANGED <<index, locks, history, budget>>
  BY DEF MoveEntry
<1> QED
  BY <1>2, <1>3, <1>4, <1>6, <1>7

LEMMA CommitQueryEffect ==
  ASSUME TypeOK, NEW r \in Runs, CommitQuery(r)
  PROVE  /\ Writes(r, [Content(r) EXCEPT !.query = r])
         /\ LocalsUpdated(r) /\ DownloadKept(r) /\ run'[r].todo = run[r].writes
         /\ run'[r].failed = run[r].failed
<1>1. pc[r] # "idle"
  BY DEF CommitQuery
<1>2. Writes(r, [Content(r) EXCEPT !.query = r])
  BY <1>1, Started, ContentTyped, FolderUpdate DEF CommitQuery, TypeOK, Writes
<1>3. run[r].writes \in SUBSET (Entries \cup Files)
  BY <1>1, Started
<1> QED
  BY <1>1, <1>2, <1>3, Started, SetTodo DEF CommitQuery

LEMMA CommitFileEffect ==
  ASSUME TypeOK, NEW r \in Runs, CommitFile(r)
  PROVE  \E f \in run[r].todo :
           /\ Writes(r, [Content(r) EXCEPT !.files[f] = r])
           /\ LocalsUpdated(r) /\ DownloadKept(r) /\ run'[r].todo = run[r].todo \ {f}
           /\ run'[r].failed = run[r].failed
           /\ Goto(r, IF run[r].todo = {f} THEN "prune" ELSE "commit")
<1>1. pc[r] # "idle"
  BY DEF CommitFile
<1>2. PICK f \in run[r].todo :
        /\ SetContent(r, [Content(r) EXCEPT !.files[f] = r])
        /\ run' = [run EXCEPT ![r].todo = run[r].todo \ {f}]
        /\ Goto(r, IF run[r].todo = {f} THEN "prune" ELSE "commit")
  BY DEF CommitFile
<1>3. [Content(r) EXCEPT !.files[f] = r] \in Snapshot
  <2>1. Content(r) \in Snapshot
    BY <1>1, Started
  <2> QED
    BY <2>1 DEF Snapshot
<1>4. Writes(r, [Content(r) EXCEPT !.files[f] = r])
  BY <1>1, <1>2, <1>3, Started, FolderUpdate DEF TypeOK, Writes
<1>5. run[r].todo \ {f} \in SUBSET (Entries \cup Files)
  BY <1>1, Started
<1> QED
  BY <1>1, <1>2, <1>4, <1>5, Started, SetTodo

LEMMA PruneEffect ==
  ASSUME TypeOK, NEW r \in Runs, Prune(r)
  PROVE  Writes(r, [Content(r) EXCEPT !.files =
                      [f \in Files |-> IF f \in run[r].writes THEN Content(r).files[f] ELSE NoRun]])
<1> DEFINE g == [f \in Files |-> IF f \in run[r].writes THEN Content(r).files[f] ELSE NoRun]
<1>1. pc[r] # "idle"
  BY DEF Prune
<1>2. Content(r) \in Snapshot
  BY <1>1, Started
<1>3. g \in [Files -> Runs \cup {NoRun}]
  BY <1>2 DEF Snapshot
<1>4. SetContent(r, [Content(r) EXCEPT !.files = g])
  BY <1>2 DEF Prune, Snapshot
<1> HIDE DEF g
<1>5. [Content(r) EXCEPT !.files = g] \in Snapshot
  BY <1>2, <1>3, ContentTyped
<1>6. Writes(r, [Content(r) EXCEPT !.files = g])
  BY <1>1, <1>4, <1>5, Started, FolderUpdate DEF TypeOK, Writes
<1> QED
  BY <1>6 DEF g

LEMMA WriteReportEffect ==
  ASSUME TypeOK, NEW r \in Runs, WriteReport(r)
  PROVE  Writes(r, [Content(r) EXCEPT !.report = r])
<1>1. pc[r] # "idle"
  BY DEF WriteReport
<1> QED
  BY <1>1, Started, ContentTyped, FolderUpdate DEF WriteReport, TypeOK, Writes

LEMMA WriteMetaEffect ==
  ASSUME TypeOK, NEW r \in Runs, pc[r] # "idle",
         NEW outcome \in {"completed", "degraded"}, WriteMeta(r, outcome)
  PROVE  /\ \/ \E m \in Meta : Writes(r, [Content(r) EXCEPT !.meta = m])
            \/ UNCHANGED folder
         /\ crashes' = crashes /\ faults' \in 0 .. MaxFaults /\ faults' >= faults
<1>1. CASE /\ Telemetry
           /\ SetContent(r, [Content(r) EXCEPT !.meta = [run |-> r, outcome |-> outcome]])
           /\ UNCHANGED budget
  <2>1. [run |-> r, outcome |-> outcome] \in Meta
    BY DEF Meta
  <2>2. Writes(r, [Content(r) EXCEPT !.meta = [run |-> r, outcome |-> outcome]])
    BY <1>1, <2>1, Started, ContentTyped, FolderUpdate DEF TypeOK, Writes
  <2>3. crashes' = crashes /\ faults' \in 0 .. MaxFaults /\ faults' >= faults
    BY <1>1, StoreAssumption DEF TypeOK, budget
  <2> QED
    BY <2>1, <2>2, <2>3
<1>2. CASE UNCHANGED folder /\ (Fault("meta") \/ UNCHANGED budget)
  BY <1>2, StoreAssumption DEF TypeOK, Fault, budget
<1> QED
  BY <1>1, <1>2 DEF WriteMeta

LEMMA FlushEffect ==
  ASSUME TypeOK, NEW r \in Runs, FlushLlmsStaging(r)
  PROVE  \E b \in BOOLEAN : Writes(r, [Content(r) EXCEPT !.llms = b]) /\ (Content(r).llms => b)
<1>1. pc[r] # "idle"
  BY DEF FlushLlmsStaging
<1>2. Content(r) \in Snapshot
  BY <1>1, Started
<1>3. PICK found \in BOOLEAN : SetContent(r, [Content(r) EXCEPT !.llms = Content(r).llms \/ found])
  BY <1>2 DEF FlushLlmsStaging, Snapshot
<1>4. (Content(r).llms \/ found) \in BOOLEAN
  BY <1>2 DEF Snapshot
<1>5. Writes(r, [Content(r) EXCEPT !.llms = Content(r).llms \/ found])
  BY <1>1, <1>2, <1>3, <1>4, Started, ContentTyped, FolderUpdate DEF TypeOK, Writes
<1> QED
  BY <1>4, <1>5

(* Clearing leaves the documentation downloads; the report, the query and  *)
(* each file are gone or, where it fails, what they were.                  *)
LEMMA ClearEffect ==
  ASSUME TypeOK, NEW r \in Runs, ClearCacheArtefacts(r)
  PROVE  /\ \E c \in Snapshot :
              /\ Writes(r, c)
              /\ c.llms = Content(r).llms /\ c.report \in {NoRun, Content(r).report}
              /\ c.query \in {NoRun, Content(r).query}
              /\ \A f \in Files : c.files[f] \in {NoRun, Content(r).files[f]}
         /\ crashes' = crashes /\ faults' \in 0 .. MaxFaults /\ faults' >= faults
<1>1. pc[r] # "idle"
  BY DEF ClearCacheArtefacts
<1>2. Content(r) \in Snapshot
  BY <1>1, Started
<1>3. CASE /\ SetContent(r, [Empty EXCEPT !.meta = Content(r).meta, !.llms = Content(r).llms])
           /\ UNCHANGED budget
  <2> DEFINE c == [Empty EXCEPT !.meta = Content(r).meta, !.llms = Content(r).llms]
  <2>1. /\ c \in Snapshot /\ c.llms = Content(r).llms /\ c.report = NoRun /\ c.query = NoRun
        /\ \A f \in Files : c.files[f] = NoRun
    BY <1>2 DEF Empty, NoFiles, NoMeta, Snapshot
  <2>2. SetContent(r, c)
    BY <1>3
  <2> HIDE DEF c
  <2>3. Writes(r, c)
    BY <1>1, <2>1, <2>2, Started, FolderUpdate DEF TypeOK, Writes
  <2> QED
    BY <1>3, <2>1, <2>3 DEF TypeOK, budget
<1>4. CASE /\ Fault("clear")
           /\ \E kept \in SUBSET Files, query \in {NoRun, Content(r).query} :
                SetContent(r, [Content(r) EXCEPT !.query = query,
                                 !.files = [f \in Files |-> IF f \in kept THEN @[f] ELSE NoRun]])
  <2>1. PICK kept \in SUBSET Files, query \in {NoRun, Content(r).query} :
          SetContent(r, [Content(r) EXCEPT !.query = query,
                           !.files = [f \in Files |-> IF f \in kept THEN @[f] ELSE NoRun]])
    BY <1>4
  <2> DEFINE g == [f \in Files |-> IF f \in kept THEN Content(r).files[f] ELSE NoRun]
             c == [Content(r) EXCEPT !.query = query, !.files = g]
  <2>2. g \in [Files -> Runs \cup {NoRun}]
    BY <1>2 DEF Snapshot
  <2>3. SetContent(r, c)
    BY <1>2, <2>1 DEF Snapshot
  <2>4. \A f \in Files : g[f] \in {NoRun, Content(r).files[f]}
    OBVIOUS
  <2> HIDE DEF g
  <2>5. /\ c \in Snapshot /\ c.llms = Content(r).llms /\ c.report = Content(r).report
        /\ c.query \in {NoRun, Content(r).query} /\ c.files = g
    BY <1>2, <2>1, <2>2 DEF Snapshot
  <2> HIDE DEF c
  <2>6. Writes(r, c)
    BY <1>1, <2>3, <2>5, Started, FolderUpdate DEF TypeOK, Writes
  <2> QED
    BY <1>4, <2>4, <2>5, <2>6, StoreAssumption DEF TypeOK, Fault
<1> QED
  BY <1>3, <1>4 DEF ClearCacheArtefacts

-------------------------------------------------------------------------------
(* Types and frame of the steps that write to a folder. *)
LEMMA ContentSteps ==
  ASSUME TypeOK, NEW r \in Runs,
         \/ CommitQuery(r) \/ CommitFile(r) \/ Prune(r) \/ WriteReport(r)
         \/ WriteTelemetrySidecar(r) \/ FlushLlmsStaging(r) \/ WriteLockedTelemetry(r)
         \/ ClearCacheArtefacts(r)
  PROVE  TypeOK' /\ Frame(r)
<1>1. pc[r] # "idle"
  BY DEF CommitQuery, CommitFile, Prune, WriteReport, WriteTelemetrySidecar, FlushLlmsStaging,
         WriteLockedTelemetry, ClearCacheArtefacts
<1>2. RunsTyped /\ run[r] \in RunState /\ PathOf(r) \in Paths /\ Content(r) \in Snapshot
  BY <1>1, Started
<1>3. LocalsUpdated(r)
  <2>1. UNCHANGED run => LocalsUpdated(r)
    BY <1>2 DEF LocalsUpdated, RunsTyped, OthersKept, TaskKept
  <2> QED
    BY <2>1, CommitQueryEffect, CommitFileEffect
       DEF Prune, WriteReport, WriteTelemetrySidecar, FlushLlmsStaging, WriteLockedTelemetry,
           ClearCacheArtefacts
<1>4. \E label \in PCs \ {"idle"} : Goto(r, label)
  BY DEF PCs, CommitQuery, CommitFile, Prune, WriteReport, WriteTelemetrySidecar,
         FlushLlmsStaging, WriteLockedTelemetry, ClearCacheArtefacts
<1>5. /\ folder' \in [Paths -> Folder]
      /\ \A q \in Paths : (pc[r] \in Writers /\ q = PathOf(r)) \/ BodyKept(q)
  <2>1. ASSUME NEW c \in Snapshot, Writes(r, c)
        PROVE  /\ folder' \in [Paths -> Folder]
               /\ \A q \in Paths \ {PathOf(r)} : BodyKept(q)
    BY <2>1 DEF Writes, BodyKept
  <2>2. ASSUME NEW c \in Snapshot, Writes(r, c), c.report = Content(r).report,
               c.query = Content(r).query, c.files = Content(r).files
        PROVE  \A q \in Paths : BodyKept(q)
    BY <2>2 DEF Writes, BodyKept, Content
  <2>3. CASE UNCHANGED folder
    BY <2>3 DEF BodyKept, TypeOK
  <2>4. CASE CommitQuery(r) \/ CommitFile(r) \/ Prune(r) \/ WriteReport(r)
    <3>1. pc[r] \in Writers
      BY <2>4 DEF CommitQuery, CommitFile, Prune, WriteReport, Writers
    <3>2. \E c \in Snapshot : Writes(r, c)
      BY <2>4, CommitQueryEffect, CommitFileEffect, PruneEffect, WriteReportEffect DEF Writes
    <3> QED
      BY <2>1, <3>1, <3>2
  <2>5. CASE ClearCacheArtefacts(r)
    <3>1. pc[r] \in Writers
      BY <2>5 DEF ClearCacheArtefacts, Writers
    <3> QED
      BY <2>1, <2>5, <3>1, ClearEffect
  <2>6. CASE WriteTelemetrySidecar(r) \/ WriteLockedTelemetry(r)
    <3>1. (\E m \in Meta : Writes(r, [Content(r) EXCEPT !.meta = m])) \/ UNCHANGED folder
      BY <1>1, <2>6, WriteMetaEffect DEF WriteTelemetrySidecar, WriteLockedTelemetry, Outcome
    <3>2. ASSUME NEW m \in Meta, Writes(r, [Content(r) EXCEPT !.meta = m])
          PROVE  folder' \in [Paths -> Folder] /\ \A q \in Paths : BodyKept(q)
      <4> DEFINE c == [Content(r) EXCEPT !.meta = m]
      <4>1. /\ c \in Snapshot /\ c.report = Content(r).report
            /\ c.query = Content(r).query /\ c.files = Content(r).files
        BY <1>2 DEF Snapshot
      <4>2. Writes(r, c)
        BY <3>2
      <4> HIDE DEF c
      <4> QED
        BY <2>1, <2>2, <4>1, <4>2
    <3> QED
      BY <2>3, <3>1, <3>2
  <2>7. CASE FlushLlmsStaging(r)
    <3>1. PICK b \in BOOLEAN : Writes(r, [Content(r) EXCEPT !.llms = b])
      BY <2>7, FlushEffect
    <3> DEFINE c == [Content(r) EXCEPT !.llms = b]
    <3>2. /\ c \in Snapshot /\ c.report = Content(r).report
          /\ c.query = Content(r).query /\ c.files = Content(r).files
      BY <1>2 DEF Snapshot
    <3>3. Writes(r, c)
      BY <3>1
    <3> HIDE DEF c
    <3> QED
      BY <2>1, <2>2, <3>2, <3>3
  <2> QED
    BY <2>4, <2>5, <2>6, <2>7
<1>6. /\ UNCHANGED <<archives, index, locks, indexed, crashes>>
      /\ faults' \in 0 .. MaxFaults /\ faults' >= faults
  <2>1. CASE CommitQuery(r) \/ CommitFile(r) \/ Prune(r) \/ WriteReport(r) \/ FlushLlmsStaging(r)
    BY <2>1, StoreAssumption
       DEF TypeOK, CommitQuery, CommitFile, Prune, WriteReport, FlushLlmsStaging, locks, history,
           budget
  <2>2. CASE ClearCacheArtefacts(r)
    BY <2>2, ClearEffect DEF ClearCacheArtefacts, locks, history
  <2>3. CASE WriteTelemetrySidecar(r) \/ WriteLockedTelemetry(r)
    <3>1. PICK outcome \in {"completed", "degraded"} : WriteMeta(r, outcome)
      BY <2>3 DEF WriteTelemetrySidecar, WriteLockedTelemetry, Outcome
    <3> QED
      BY <1>1, <2>3, <3>1, WriteMetaEffect
         DEF WriteTelemetrySidecar, WriteLockedTelemetry, locks, history
  <2> QED
    BY <2>1, <2>2, <2>3
<1>7. /\ interrupted' \subseteq interrupted /\ committed' \subseteq Runs
      /\ \A q \in Paths :
           (pc[r] \in HoldsCache /\ q = PathOf(r)) \/ (q \in interrupted' <=> q \in interrupted)
      /\ pc[r] = "report" \/ committed' = committed
  BY DEF TypeOK, CommitQuery, CommitFile, Prune, WriteReport, WriteTelemetrySidecar,
         FlushLlmsStaging, WriteLockedTelemetry, ClearCacheArtefacts, history,
         HoldsCache, Rewriting
<1>8. TypeOK'
  BY <1>2, <1>3, <1>4, <1>5, <1>6, <1>7
     DEF TypeOK, Goto, LocalsUpdated, RunsTyped, OthersKept, locks
<1>9. Frame(r)
  BY <1>1, <1>3, <1>4, <1>5, <1>6, <1>7 DEF TypeOK, Goto, Frame, LocalsUpdated, locks
<1> QED
  BY <1>8, <1>9

-------------------------------------------------------------------------------
(* A rotation moves entries into a numbered sibling that exists. *)
SlotExists ==
  \A r \in Runs : pc[r] = "move" => run[r].slot \in DOMAIN archives[PathOf(r)]

(* Making that sibling: the archives of the folder gain an empty one at    *)
(* the end, the run's slot.                                                *)
LEMMA PlanRotationEffect ==
  ASSUME TypeOK, NEW r \in Runs, PlanRotation(r)
  PROVE  \/ /\ Movable(Content(r)) = {}
            /\ Goto(r, "stage")
            /\ UNCHANGED <<run, archives>>
         \/ /\ Movable(Content(r)) # {}
            /\ Goto(r, "move")
            /\ LocalsUpdated(r) /\ DownloadKept(r)
            /\ run'[r].todo = Movable(Content(r)) /\ run'[r].failed = run[r].failed
            /\ run'[r].slot = Len(archives[PathOf(r)]) + 1
            /\ archives' = [archives EXCEPT ![PathOf(r)] = Append(archives[PathOf(r)], Empty)]
<1>1. pc[r] # "idle"
  BY DEF PlanRotation
<1>2. CASE Movable(Content(r)) = {}
  BY <1>2 DEF PlanRotation
<1>3. CASE Movable(Content(r)) # {}
  <2> DEFINE moves == Movable(Content(r))
             next == Len(archives[PathOf(r)]) + 1
  <2>1. moves \in SUBSET (Entries \cup Files)
    BY MovableTyped
  <2>2. archives[PathOf(r)] \in Seq(Snapshot)
    BY <1>1, Started DEF TypeOK
  <2>3. next \in Nat
    BY <2>2
  <2>4. run' = [run EXCEPT ![r].todo = moves, ![r].slot = next]
    BY <1>3 DEF PlanRotation
  <2>5. RunsTyped /\ run[r] \in RunState
    BY <1>1, Started
  <2> HIDE DEF moves, next
  <2> DEFINE x == [run[r] EXCEPT !.todo = moves, !.slot = next]
  <2>6. /\ x \in RunState /\ x.todo = moves /\ x.slot = next
        /\ x.op = run[r].op /\ x.path = run[r].path /\ x.writes = run[r].writes
        /\ x.failed = run[r].failed /\ x.dl = run[r].dl /\ x.llmsStaging = run[r].llmsStaging
    BY <2>1, <2>3, <2>5 DEF RunState
  <2>7. run' = [run EXCEPT ![r] = x]
    BY <2>4
  <2> HIDE DEF x
  <2>8. /\ LocalsUpdated(r) /\ DownloadKept(r)
        /\ run'[r].todo = moves /\ run'[r].failed = run[r].failed /\ run'[r].slot = next
    BY <2>5, <2>6, <2>7 DEF RunsTyped, OthersKept, TaskKept, DownloadKept, LocalsUpdated
  <2> QED
    BY <1>3, <2>8 DEF PlanRotation, moves, next
<1> QED
  BY <1>2, <1>3

LEMMA PlanArchives ==
  ASSUME TypeOK, NEW r \in Runs, PathOf(r) \in Paths,
         archives' = [archives EXCEPT ![PathOf(r)] = Append(archives[PathOf(r)], Empty)]
  PROVE  /\ archives' \in [Paths -> Seq(Snapshot)]
         /\ \A q \in Paths \ {PathOf(r)} : archives'[q] = archives[q]
         /\ DOMAIN archives[PathOf(r)] = 1 .. Len(archives[PathOf(r)])
         /\ DOMAIN archives'[PathOf(r)] = 1 .. Len(archives[PathOf(r)]) + 1
         /\ archives'[PathOf(r)][Len(archives[PathOf(r)]) + 1] = Empty
         /\ \A i \in DOMAIN archives[PathOf(r)] :
              archives'[PathOf(r)][i] = archives[PathOf(r)][i]
<1> DEFINE a == archives[PathOf(r)]
           b == Append(a, Empty)
<1>1. a \in Seq(Snapshot)
  BY DEF TypeOK
<1>2. archives' = [archives EXCEPT ![PathOf(r)] = b]
  OBVIOUS
<1> HIDE DEF a
<1>3. /\ b \in Seq(Snapshot) /\ Len(b) = Len(a) + 1
      /\ \A i \in 1 .. Len(a) : b[i] = a[i]
      /\ b[Len(a) + 1] = Empty
  BY <1>1, EmptyTyped, AppendProperties
<1>4. DOMAIN a = 1 .. Len(a) /\ DOMAIN b = 1 .. Len(b)
  BY <1>1, <1>3, LenProperties
<1> HIDE DEF b
<1>5. /\ archives' \in [Paths -> Seq(Snapshot)] /\ archives'[PathOf(r)] = b
      /\ \A q \in Paths \ {PathOf(r)} : archives'[q] = archives[q]
  BY <1>2, <1>3 DEF TypeOK
<1> QED
  BY <1>3, <1>4, <1>5 DEF a

LEMMA MoveArchives ==
  ASSUME TypeOK, NEW r \in Runs, PathOf(r) \in Paths, NEW i \in DOMAIN archives[PathOf(r)],
         NEW c \in Snapshot, NEW e \in Entries \cup Files,
         archives' = [archives EXCEPT ![PathOf(r)][i] = Take(@, e, c)]
  PROVE  /\ archives' \in [Paths -> Seq(Snapshot)]
         /\ \A q \in Paths \ {PathOf(r)} : archives'[q] = archives[q]
         /\ archives[PathOf(r)][i] \in Snapshot
         /\ DOMAIN archives'[PathOf(r)] = DOMAIN archives[PathOf(r)]
         /\ archives'[PathOf(r)][i] = Take(archives[PathOf(r)][i], e, c)
         /\ \A j \in DOMAIN archives[PathOf(r)] \ {i} :
              archives'[PathOf(r)][j] = archives[PathOf(r)][j]
<1> DEFINE a == archives[PathOf(r)]
           t == Take(a[i], e, c)
           b == [a EXCEPT ![i] = t]
<1>0. i \in DOMAIN a
  OBVIOUS
<1>1. a \in Seq(Snapshot)
  BY DEF TypeOK
<1>2. archives' = [archives EXCEPT ![PathOf(r)] = b]
  OBVIOUS
<1> HIDE DEF a
<1>3. DOMAIN a = 1 .. Len(a) /\ i \in 1 .. Len(a) /\ a[i] \in Snapshot
  BY <1>1, <1>0, LenProperties, ElementOfSeq
<1>4. t \in Snapshot
  BY <1>3, TakeTyped
<1> HIDE DEF t
<1>5. /\ b \in Seq(Snapshot) /\ Len(b) = Len(a)
      /\ \A j \in 1 .. Len(a) : b[j] = IF j = i THEN t ELSE a[j]
  BY <1>1, <1>3, <1>4, ExceptSeq
<1>6. DOMAIN b = DOMAIN a
  BY <1>3, <1>5, LenProperties
<1> HIDE DEF b
<1>7. /\ archives' \in [Paths -> Seq(Snapshot)] /\ archives'[PathOf(r)] = b
      /\ \A q \in Paths \ {PathOf(r)} : archives'[q] = archives[q]
  BY <1>2, <1>5 DEF TypeOK
<1> QED
  BY <1>3, <1>5, <1>6, <1>7 DEF a, t

(* Types and frame of the steps of a rotation, of the write of the index   *)
(* and of the start of a run.                                              *)
LEMMA RotationSteps ==
  ASSUME TypeOK, SlotExists, NEW r \in Runs, PlanRotation(r) \/ MoveEntry(r)
  PROVE  TypeOK' /\ Frame(r)
<1>1. pc[r] # "idle" /\ pc[r] \in Rotators
  BY DEF PlanRotation, MoveEntry, Rotators
<1>2. RunsTyped /\ run[r] \in RunState /\ PathOf(r) \in Paths /\ Content(r) \in Snapshot
  BY <1>1, Started
<1>3. LocalsUpdated(r)
  <2>1. UNCHANGED run => LocalsUpdated(r)
    BY <1>2 DEF LocalsUpdated, RunsTyped, OthersKept, TaskKept
  <2> QED
    BY <2>1, PlanRotationEffect, MoveEntryEffect
<1>4. \E label \in PCs \ {"idle"} : Goto(r, label)
  BY PlanRotationEffect, MoveEntryEffect DEF PCs
<1>5. CASE PlanRotation(r)
  <2>1. UNCHANGED <<folder, index, locks, history, budget>>
    BY <1>5 DEF PlanRotation
  <2>2. /\ archives' \in [Paths -> Seq(Snapshot)]
        /\ \A q \in Paths \ {PathOf(r)} : archives'[q] = archives[q]
    BY <1>2, <1>5, PlanRotationEffect, PlanArchives DEF TypeOK
  <2>3. TypeOK'
    BY <1>2, <1>3, <1>4, <2>1, <2>2
       DEF TypeOK, Goto, LocalsUpdated, RunsTyped, OthersKept, locks, history, budget
  <2>4. Frame(r)
    BY <1>1, <1>3, <1>4, <2>1, <2>2
       DEF TypeOK, Goto, Frame, LocalsUpdated, BodyKept, history, budget
  <2> QED
    BY <2>3, <2>4
<1>6. CASE MoveEntry(r)
  <2>1. PICK e \in Entries \cup Files :
          /\ Writes(r, Take(Content(r), e, Empty))
          /\ archives' = [archives EXCEPT ![PathOf(r)][run[r].slot] = Take(@, e, Content(r))]
          /\ UNCHANGED <<index, locks, history, budget>>
    BY <1>6, MoveEntryEffect
  <2>2. run[r].slot \in DOMAIN archives[PathOf(r)] /\ pc[r] \in Writers
    BY <1>6 DEF MoveEntry, SlotExists, Writers
  <2>3. /\ archives' \in [Paths -> Seq(Snapshot)]
        /\ \A q \in Paths \ {PathOf(r)} : archives'[q] = archives[q]
    BY <1>2, <2>1, <2>2, MoveArchives
  <2>4. /\ folder' \in [Paths -> Folder]
        /\ \A q \in Paths \ {PathOf(r)} : BodyKept(q)
    BY <2>1 DEF Writes, BodyKept
  <2>5. TypeOK'
    BY <1>2, <1>3, <1>4, <2>1, <2>3, <2>4
       DEF TypeOK, Goto, LocalsUpdated, RunsTyped, OthersKept, locks, history, budget
  <2>6. Frame(r)
    BY <1>1, <1>3, <1>4, <2>1, <2>2, <2>3, <2>4
       DEF TypeOK, Goto, Frame, LocalsUpdated, history, budget
  <2> QED
    BY <2>5, <2>6
<1> QED
  BY <1>5, <1>6

LEMMA WriteIndexEffect ==
  ASSUME TypeOK, NEW r \in Runs, WriteIndex(r)
  PROVE  /\ index' = [run[r].snap EXCEPT ![PathOf(r)] =
                        IF run[r].op = "degraded" THEN NoRun ELSE r]
         /\ indexed' = IF run[r].op = "degraded" THEN indexed ELSE indexed \cup {r}
BY StoreAssumption DEF WriteIndex

LEMMA WriteIndexStep ==
  ASSUME TypeOK, NEW r \in Runs, WriteIndex(r)
  PROVE  TypeOK' /\ Frame(r)
<1>1. pc[r] # "idle" /\ pc[r] = "writeIndex"
  BY DEF WriteIndex
<1>2. PathOf(r) \in Paths /\ run[r].snap \in Index
  BY <1>1, Started
<1>3. index' \in Index /\ indexed' \subseteq Runs
  <2> DEFINE entry == IF run[r].op = "degraded" THEN NoRun ELSE r
  <2>1. entry \in Runs \cup {NoRun} /\ index' = [run[r].snap EXCEPT ![PathOf(r)] = entry]
    BY WriteIndexEffect
  <2> HIDE DEF entry
  <2>2. index' \in Index
    BY <1>2, <2>1 DEF Index
  <2> QED
    BY <2>2, WriteIndexEffect DEF TypeOK
<1>4. UNCHANGED <<run, folder, archives, locks, committed, budget>> /\ Goto(r, "freeIndex")
  BY DEF WriteIndex
<1>5. /\ interrupted' \subseteq interrupted
      /\ \A q \in Paths :
           (pc[r] \in HoldsCache /\ q = PathOf(r)) \/ (q \in interrupted' <=> q \in interrupted)
  BY DEF WriteIndex, HoldsCache, HoldsIndex
<1>6. TypeOK'
  BY <1>1, <1>3, <1>4, <1>5 DEF TypeOK, Goto, PCs, locks, budget
<1>7. Frame(r)
  BY <1>1, <1>4, <1>5 DEF TypeOK, Goto, Frame, OthersKept, TaskKept, BodyKept, budget
<1> QED
  BY <1>6, <1>7

LEMMA BeginEffect ==
  ASSUME TypeOK, NEW r \in Runs, NEW q \in Paths, NEW op \in Ops, NEW ws \in FileSets,
         Begin(r, q, op, ws)
  PROVE  \E dl \in {"none", "running"} :
           /\ op # "research" => dl = "none"
           /\ RunsTyped' /\ run'[r] \in RunState /\ OthersKept(r)
           /\ run'[r].op = op /\ run'[r].path = q /\ run'[r].dl = dl
           /\ run'[r].llmsStaging = (dl = "running") /\ run'[r].failed = FALSE
<1>1. PICK dl \in IF op = "research" THEN {"none", "running"} ELSE {"none"} :
        run' = [run EXCEPT ![r] =
                  [op |-> op, path |-> q, writes |-> ws, todo |-> {}, slot |-> 0,
                   snap |-> [p \in Paths |-> NoRun], failed |-> FALSE, staging |-> FALSE,
                   dl |-> dl, llmsStaging |-> dl = "running"]]
  BY DEF Begin
<1> DEFINE x == [op |-> op, path |-> q, writes |-> ws, todo |-> {}, slot |-> 0,
                 snap |-> [p \in Paths |-> NoRun], failed |-> FALSE, staging |-> FALSE,
                 dl |-> dl, llmsStaging |-> dl = "running"]
<1>2. x \in RunState
  <2>1. [p \in Paths |-> NoRun] \in Index
    BY DEF Index
  <2> QED
    BY <2>1 DEF RunState
<1>3. /\ x.op = op /\ x.path = q /\ x.dl = dl /\ x.llmsStaging = (dl = "running")
      /\ x.failed = FALSE
  OBVIOUS
<1>4. run' = [run EXCEPT ![r] = x]
  BY <1>1
<1> HIDE DEF x
<1> QED
  BY <1>2, <1>3, <1>4 DEF TypeOK, RunsTyped, OthersKept

LEMMA BeginStep ==
  ASSUME TypeOK, NEW r \in Runs, Start(r)
  PROVE  TypeOK' /\ Frame(r)
<1>1. PICK q \in Paths, op \in Ops, ws \in FileSets : Begin(r, q, op, ws)
  BY DEF Start
<1>2. RunsTyped' /\ run'[r] \in RunState /\ OthersKept(r)
  BY <1>1, BeginEffect
<1>3. /\ folder' \in [Paths -> Folder]
      /\ \A p \in Paths : folder'[p].content = folder[p].content
  <2>1. ASSUME NEW x \in Folder
        PROVE  [x EXCEPT !.exists = TRUE] \in Folder /\ [x EXCEPT !.exists = TRUE].content = x.content
    BY DEF Folder
  <2>2. folder' = [folder EXCEPT ![q] = [folder[q] EXCEPT !.exists = TRUE]]
    BY <1>1 DEF Begin
  <2> QED
    BY <2>1, <2>2 DEF TypeOK
<1>4. /\ pc[r] = "idle" /\ Goto(r, "wantCache")
      /\ UNCHANGED <<archives, index, locks, history, budget>>
  BY <1>1 DEF Begin
<1>5. TypeOK'
  BY <1>2, <1>3, <1>4 DEF TypeOK, Goto, PCs, RunsTyped, OthersKept, locks, history, budget
<1>6. Frame(r)
  BY <1>2, <1>3, <1>4 DEF TypeOK, Goto, Frame, BodyKept, history, budget
<1> QED
  BY <1>5, <1>6

-------------------------------------------------------------------------------
(* Every step keeps the types, and every step of a run keeps its frame. *)
LEMMA RunStepTyped ==
  ASSUME TypeOK, SlotExists, NEW r \in Runs, Start(r) \/ Step(r) \/ Failure(r)
  PROVE  TypeOK' /\ Frame(r)
<1>1. CASE Start(r)
  BY <1>1, BeginStep
<1>2. CASE Failure(r)
  BY <1>2, PlainSteps, LocalSteps DEF Failure
<1>3. CASE Step(r)
  BY <1>3, PlainSteps, LocalSteps, ContentSteps, RotationSteps, WriteIndexStep DEF Step
<1> QED
  BY <1>1, <1>2, <1>3

(* The steps of no run: a waiter breaks the lock of a crashed one, or      *)
(* nothing happens.                                                        *)
Breaking == (\E q \in Paths : BreakCacheLock(q)) \/ BreakIndexLock
Idle == UNCHANGED <<pc, run, store, history, budget>>

LEMMA OtherStepTyped ==
  ASSUME TypeOK, Breaking \/ UNCHANGED vars
  PROVE  TypeOK' /\ Idle
BY DEF TypeOK, Breaking, Idle, BreakCacheLock, BreakIndexLock, vars, store, locks, history, budget

LEMMA StepKinds ==
  ASSUME [Next]_vars
  PROVE  \/ \E r \in Runs : Start(r) \/ Step(r) \/ Failure(r)
         \/ Breaking
         \/ UNCHANGED vars
BY DEF Next, Breaking, Finished

(* The control graph, by the place a step leads to. *)
Edges(r) ==
  /\ pc'[r] = "wantCache" => Start(r)
  /\ pc'[r] = "rotate" => AcquireCache(r) /\ pc[r] = "wantCache" /\ run[r].op # "degraded"
  /\ pc'[r] = "move" => PlanRotation(r) \/ MoveEntry(r)
  /\ pc'[r] = "stage" => PlanRotation(r) \/ MoveEntry(r) \/ RotationFails(r)
  /\ pc'[r] = "commitQuery" => StageFiles(r)
  /\ pc'[r] = "commit" => CommitQuery(r) \/ CommitFile(r)
  /\ pc'[r] = "prune" => CommitFile(r)
  /\ pc'[r] = "unstage" => Prune(r) \/ CommitFails(r)
  /\ pc'[r] = "report" => Unstage(r)
  /\ pc'[r] = "meta" => WriteReport(r) \/ ReleaseIndex(r) \/ HasReport(r)
  /\ pc'[r] = "wantIndex" =>
       WriteReport(r) \/ WriteTelemetrySidecar(r) \/ ClearCacheArtefacts(r)
  /\ pc'[r] = "readIndex" => AcquireIndex(r)
  /\ pc'[r] = "writeIndex" => ReadIndex(r)
  /\ pc'[r] = "hasReport" => AcquireCache(r) /\ run[r].op = "degraded"
  /\ pc'[r] = "clear" => HasReport(r)

LEMMA ControlFlow ==
  ASSUME TypeOK, NEW r \in Runs, Start(r) \/ Step(r) \/ Failure(r)
  PROVE  /\ DownloadSettles(r) \/ Edges(r)
         /\ PlanRotation(r) \/ MoveEntry(r) \/ UNCHANGED archives
<1> USE DEF Goto, TypeOK, store, Edges
<1>1. CASE Start(r)
  BY <1>1 DEF Start, Begin
<1>2. CASE GiveUp(r) \/ CommitFails(r) \/ WriteIndexFails(r)
  BY <1>2 DEF GiveUp, CommitFails, WriteIndexFails, Throw, AfterThrow
<1>3. CASE RotationFails(r) \/ Crash(r)
  BY <1>3 DEF RotationFails, Crash
<1>4. CASE AcquireCache(r) \/ AcquireIndex(r) \/ ReleaseIndex(r) \/ ReleaseCache(r)
  BY <1>4 DEF AcquireCache, Entered, AcquireIndex, ReleaseIndex, ReleaseCache
<1>5. CASE StageFiles(r) \/ CommitQuery(r) \/ CommitFile(r) \/ Prune(r)
  BY <1>5 DEF StageFiles, CommitQuery, CommitFile, Prune
<1>6. CASE Unstage(r) \/ WriteReport(r) \/ WriteTelemetrySidecar(r) \/ ReadIndex(r)
  BY <1>6 DEF Unstage, WriteReport, WriteTelemetrySidecar, ReadIndex
<1>7. CASE WriteIndex(r) \/ AwaitDownloads(r) \/ FlushLlmsStaging(r) \/ SettleDownloads(r)
  BY <1>7 DEF WriteIndex, AwaitDownloads, FlushLlmsStaging, SettleDownloads, Throw
<1>8. CASE CacheSuggest(r) \/ WriteLockedTelemetry(r) \/ HasReport(r) \/ ClearCacheArtefacts(r)
  BY <1>8 DEF CacheSuggest, WriteLockedTelemetry, HasReport, ClearCacheArtefacts, Throw
<1>9. CASE PlanRotation(r) \/ MoveEntry(r)
  BY <1>9 DEF PlanRotation, MoveEntry
<1>10. DownloadSettles(r) => UNCHANGED archives
  BY DEF DownloadSettles
<1> QED
  BY <1>1, <1>2, <1>3, <1>4, <1>5, <1>6, <1>7, <1>8, <1>9, <1>10 DEF Step, Failure

(* A run plans its rotation into the next free number, and no step of any  *)
(* run removes an archive.                                                 *)
LEMMA SlotNext ==
  ASSUME TypeOK, SlotExists, [Next]_vars
  PROVE  SlotExists'
<1>1. CASE Breaking \/ UNCHANGED vars
  BY <1>1, OtherStepTyped DEF SlotExists, Idle, store, PathOf
<1>2. ASSUME NEW r \in Runs, Start(r) \/ Step(r) \/ Failure(r)
      PROVE  SlotExists'
  <2>1. TypeOK' /\ Frame(r)
    BY <1>2, RunStepTyped
  <2>2. CASE PlanRotation(r)
    <3>0. pc[r] # "idle" /\ PathOf(r) \in Paths /\ PathOf(r)' = PathOf(r)
      BY <2>1, <2>2, Started DEF PlanRotation, PathOf, Frame, TaskKept
    <3>1. CASE Goto(r, "stage") /\ UNCHANGED archives
      BY <2>1, <3>0, <3>1 DEF SlotExists, Goto, Frame, OthersKept, PathOf, TypeOK
    <3>2. CASE /\ Goto(r, "move")
               /\ run'[r].slot = Len(archives[PathOf(r)]) + 1
               /\ archives' = [archives EXCEPT ![PathOf(r)] = Append(archives[PathOf(r)], Empty)]
      <4>1. archives[PathOf(r)] \in Seq(Snapshot)
        BY <3>0 DEF TypeOK
      <4>2. run'[r].slot \in DOMAIN archives'[PathOf(r)]
        <5>1. Len(archives[PathOf(r)]) \in Nat
          BY <4>1, LenProperties
        <5>2. DOMAIN archives'[PathOf(r)] = 1 .. Len(archives[PathOf(r)]) + 1
          BY <3>0, <3>2, PlanArchives
        <5> QED
          BY <3>2, <5>1, <5>2
      <4>3. \A q \in Paths : DOMAIN archives[q] \subseteq DOMAIN archives'[q]
        <5>1. Len(archives[PathOf(r)]) \in Nat
          BY <4>1, LenProperties
        <5>2. DOMAIN archives[PathOf(r)] \subseteq DOMAIN archives'[PathOf(r)]
          BY <3>0, <3>2, <5>1, PlanArchives
        <5> QED
          BY <3>0, <3>2, <5>2, PlanArchives
      <4> QED
        BY <2>1, <3>0, <3>2, <4>2, <4>3, Started DEF SlotExists, Goto, Frame, OthersKept, PathOf, TypeOK
    <3> QED
      BY <2>2, <3>1, <3>2, PlanRotationEffect
  <2>3. CASE MoveEntry(r)
    <3>0. pc[r] = "move" /\ PathOf(r) \in Paths /\ PathOf(r)' = PathOf(r)
      BY <2>1, <2>3, Started DEF MoveEntry, PathOf, Frame, TaskKept
    <3>1. PICK e \in Entries \cup Files :
            /\ archives' = [archives EXCEPT ![PathOf(r)][run[r].slot] = Take(@, e, Content(r))]
            /\ run'[r].slot = run[r].slot
      BY <2>3, MoveEntryEffect
    <3>2. Content(r) \in Snapshot /\ run[r].slot \in DOMAIN archives[PathOf(r)]
      BY <3>0, Started DEF SlotExists
    <3>3. \A q \in Paths : DOMAIN archives'[q] = DOMAIN archives[q]
      BY <3>0, <3>1, <3>2, MoveArchives
    <3> QED
      BY <2>1, <3>0, <3>1, <3>2, <3>3, Started DEF SlotExists, Frame, OthersKept, PathOf
  <2>4. CASE ~PlanRotation(r) /\ ~MoveEntry(r)
    <3>1. CASE DownloadSettles(r)
      <4>1. run[r] \in RunState /\ pc[r] # "idle"
        BY <3>1, Started DEF DownloadSettles
      <4>2. RotationKept(r)
        BY <3>1, <4>1, SetDl DEF DownloadSettles, TypeOK, RunsTyped
      <4> QED
        BY <2>1, <3>1, <4>1, <4>2
           DEF DownloadSettles, SlotExists, Frame, OthersKept, TaskKept, RotationKept, PathOf, store
    <3>2. CASE ~DownloadSettles(r)
      <4>1. pc'[r] # "move"
        BY <1>2, <2>4, <3>2, ControlFlow DEF Edges
      <4>2. UNCHANGED archives
        BY <1>2, <2>4, ControlFlow
      <4> QED
        BY <2>1, <4>1, <4>2 DEF SlotExists, Frame, OthersKept, PathOf
    <3> QED
      BY <3>1, <3>2
  <2> QED
    BY <2>2, <2>3, <2>4
<1> QED
  BY <1>1, <1>2, StepKinds

LEMMA TypeInit == Init => TypeOK /\ SlotExists
BY StoreAssumption, EmptyTyped
   DEF Init, TypeOK, SlotExists, PCs, Index, Folder, Snapshot

LEMMA TypeNext ==
  ASSUME TypeOK, SlotExists, [Next]_vars
  PROVE  TypeOK'
BY RunStepTyped, OtherStepTyped, StepKinds

(* The variables of the store keep their types, and a rotation in progress *)
(* has the archive it moves into.                                          *)
THEOREM TypeCorrect == Spec => [](TypeOK /\ SlotExists)
BY TypeInit, TypeNext, SlotNext, PTL DEF Spec

-------------------------------------------------------------------------------
(* A lock is held exactly by the run that is where its holder is, or was   *)
(* there when it crashed.                                                  *)
LocksOwned ==
  /\ \A r \in Runs : pc[r] \in HoldsCache => cacheLock[PathOf(r)] = r
  /\ \A q \in Paths : \A r \in Runs :
       cacheLock[q] = r => pc[r] \in HoldsCache \cup {"crashed"} /\ PathOf(r) = q
  /\ \A r \in Runs : pc[r] \in HoldsIndex => indexLock = r
  /\ \A r \in Runs : indexLock = r => pc[r] \in HoldsIndex \cup {"crashed"}

(* What a step of run r does to the locks, with the places it leads from   *)
(* and to.                                                                 *)
TakesCache(r) ==
  /\ pc[r] \notin HoldsCache \cup {"crashed", "idle"} /\ pc'[r] \in HoldsCache \ HoldsIndex
  /\ cacheLock[PathOf(r)] = NoRun
  /\ cacheLock' = [cacheLock EXCEPT ![PathOf(r)] = r] /\ indexLock' = indexLock
FreesCache(r) ==
  /\ pc[r] \in HoldsCache \ HoldsIndex /\ pc'[r] \notin HoldsCache
  /\ cacheLock' = [cacheLock EXCEPT ![PathOf(r)] = NoRun] /\ indexLock' = indexLock
TakesIndex(r) ==
  /\ pc[r] \in HoldsCache \ HoldsIndex /\ pc'[r] \in HoldsIndex
  /\ indexLock = NoRun /\ indexLock' = r /\ cacheLock' = cacheLock
FreesIndex(r) ==
  /\ pc[r] \in HoldsIndex /\ pc'[r] \in HoldsCache \ HoldsIndex
  /\ indexLock' = NoRun /\ cacheLock' = cacheLock
KeepsLocks(r) ==
  /\ UNCHANGED locks
  /\ pc[r] # "crashed" \/ pc'[r] = "crashed"
  /\ pc'[r] = "crashed" \/ /\ pc'[r] \in HoldsCache <=> pc[r] \in HoldsCache
                           /\ pc'[r] \in HoldsIndex <=> pc[r] \in HoldsIndex

LEMMA StepLocks ==
  ASSUME TypeOK, NEW r \in Runs, Start(r) \/ Step(r) \/ Failure(r)
  PROVE  TakesCache(r) \/ FreesCache(r) \/ TakesIndex(r) \/ FreesIndex(r) \/ KeepsLocks(r)
<1> USE DEF HoldsCache, HoldsIndex, Rewriting, Goto, TypeOK, locks
<1>1. CASE Start(r)
  BY <1>1 DEF Start, Begin, KeepsLocks
<1>2. CASE AcquireCache(r)
  BY <1>2 DEF AcquireCache, Entered, TakesCache
<1>3. CASE AcquireIndex(r)
  BY <1>3 DEF AcquireIndex, TakesIndex
<1>4. CASE ReleaseIndex(r)
  BY <1>4 DEF ReleaseIndex, FreesIndex
<1>5. CASE ReleaseCache(r)
  BY <1>5 DEF ReleaseCache, FreesCache
<1> USE DEF KeepsLocks
<1>6. CASE GiveUp(r) \/ CommitFails(r) \/ WriteIndexFails(r)
  BY <1>6 DEF GiveUp, CommitFails, WriteIndexFails, Throw, AfterThrow
<1>7. CASE RotationFails(r) \/ Crash(r) \/ HasReport(r)
  BY <1>7 DEF RotationFails, Crash, HasReport
<1>8. CASE PlanRotation(r) \/ MoveEntry(r)
  BY <1>8 DEF PlanRotation, MoveEntry
<1>9. CASE StageFiles(r) \/ CommitQuery(r) \/ CommitFile(r) \/ Prune(r) \/ Unstage(r)
           \/ WriteReport(r)
  BY <1>9 DEF StageFiles, CommitQuery, CommitFile, Prune, Unstage, WriteReport
<1>10. CASE WriteTelemetrySidecar(r) \/ ReadIndex(r) \/ WriteIndex(r) \/ AwaitDownloads(r)
           \/ FlushLlmsStaging(r)
  BY <1>10 DEF WriteTelemetrySidecar, ReadIndex, WriteIndex, AwaitDownloads, FlushLlmsStaging,
               Throw
<1>11. CASE SettleDownloads(r) \/ CacheSuggest(r) \/ WriteLockedTelemetry(r)
           \/ ClearCacheArtefacts(r)
  BY <1>11 DEF SettleDownloads, CacheSuggest, WriteLockedTelemetry, ClearCacheArtefacts, Throw
<1>12. CASE DownloadSettles(r)
  BY <1>12 DEF DownloadSettles
<1> QED
  BY <1>1, <1>2, <1>3, <1>4, <1>5, <1>6, <1>7, <1>8, <1>9, <1>10, <1>11, <1>12 DEF Step, Failure

LEMMA LocksInit == Init => LocksOwned
BY StoreAssumption DEF Init, LocksOwned, HoldsCache, HoldsIndex, Rewriting

LEMMA LocksNext ==
  ASSUME TypeOK, SlotExists, LocksOwned, [Next]_vars
  PROVE  LocksOwned'
<1> USE StoreAssumption
<1>1. CASE Breaking
  <2>1. ASSUME NEW q \in Paths, BreakCacheLock(q)
        PROVE  LocksOwned'
    <3>1. UNCHANGED <<pc, run, indexLock>> /\ cacheLock' = [cacheLock EXCEPT ![q] = NoRun]
      BY <2>1 DEF BreakCacheLock
    <3>2. \A s \in Runs : pc[s] \in HoldsCache => PathOf(s) \in Paths /\ PathOf(s) # q
      BY <2>1, Started DEF BreakCacheLock, LocksOwned, HoldsCache, HoldsIndex, Rewriting
    <3> QED
      BY <3>1, <3>2 DEF LocksOwned, TypeOK, PathOf
  <2>2. CASE BreakIndexLock
    BY <2>2 DEF BreakIndexLock, LocksOwned, HoldsIndex, PathOf
  <2> QED
    BY <1>1, <2>1, <2>2 DEF Breaking
<1>2. CASE UNCHANGED vars
  BY <1>2 DEF vars, locks, LocksOwned, PathOf
<1>3. ASSUME NEW r \in Runs, Start(r) \/ Step(r) \/ Failure(r)
      PROVE  LocksOwned'
  <2>1. TypeOK' /\ Frame(r)
    BY <1>3, RunStepTyped
  <2>2. pc[r] = "idle" \/ (run[r].path \in Paths /\ run'[r].path = run[r].path)
    BY <2>1, Started DEF Frame, TaskKept, PathOf
  <2>3. \A s \in Runs \ {r} : pc'[s] = pc[s] /\ run'[s] = run[s]
    BY <2>1 DEF Frame, OthersKept
  <2>4. /\ "idle" \notin HoldsCache /\ "crashed" \notin HoldsCache
        /\ HoldsIndex \subseteq HoldsCache /\ "crashed" # "idle"
    BY DEF HoldsCache, HoldsIndex, Rewriting
  <2> DEFINE OwnCache == \A s \in Runs : pc'[s] \in HoldsCache => cacheLock'[run'[s].path] = s
             OwnerPlaced == \A q \in Paths : \A s \in Runs :
               cacheLock'[q] = s => pc'[s] \in HoldsCache \cup {"crashed"} /\ run'[s].path = q
             OwnIndex == \A s \in Runs :
               /\ pc'[s] \in HoldsIndex => indexLock' = s
               /\ indexLock' = s => pc'[s] \in HoldsIndex \cup {"crashed"}
             Old ==
               /\ \A s \in Runs : pc[s] \in HoldsCache =>
                    cacheLock[run[s].path] = s /\ run[s].path \in Paths
               /\ \A q \in Paths : \A s \in Runs :
                    cacheLock[q] = s => pc[s] \in HoldsCache \cup {"crashed"} /\ run[s].path = q
               /\ \A s \in Runs : pc[s] \in HoldsIndex => indexLock = s
               /\ \A s \in Runs : indexLock = s => pc[s] \in HoldsIndex \cup {"crashed"}
               /\ cacheLock \in [Paths -> Runs \cup {NoRun}]
  <2>10. Old
    BY <2>4, Started DEF LocksOwned, PathOf, TypeOK
  <2> USE <2>2, <2>3, <2>4, <2>10 DEF PathOf
  <2>5. CASE TakesCache(r)
    <3>1. OwnCache
      BY <2>5 DEF TakesCache
    <3>2. OwnerPlaced
      BY <2>5 DEF TakesCache
    <3>3. OwnIndex
      BY <2>5 DEF TakesCache
    <3> QED
      BY <3>1, <3>2, <3>3, <2>4 DEF LocksOwned, PathOf
  <2>6. CASE FreesCache(r)
    <3>1. OwnCache
      BY <2>6 DEF FreesCache
    <3>2. OwnerPlaced
      BY <2>6 DEF FreesCache
    <3>3. OwnIndex
      BY <2>6 DEF FreesCache
    <3> QED
      BY <3>1, <3>2, <3>3, <2>4 DEF LocksOwned, PathOf
  <2>7. CASE TakesIndex(r)
    <3>1. OwnCache
      BY <2>7 DEF TakesIndex
    <3>2. OwnerPlaced
      BY <2>7 DEF TakesIndex
    <3>3. OwnIndex
      BY <2>7 DEF TakesIndex
    <3> QED
      BY <3>1, <3>2, <3>3, <2>4 DEF LocksOwned, PathOf
  <2>8. CASE FreesIndex(r)
    <3>1. OwnCache
      BY <2>8 DEF FreesIndex
    <3>2. OwnerPlaced
      BY <2>8 DEF FreesIndex
    <3>3. OwnIndex
      BY <2>8 DEF FreesIndex
    <3> QED
      BY <3>1, <3>2, <3>3, <2>4 DEF LocksOwned, PathOf
  <2>9. CASE KeepsLocks(r)
    <3>1. OwnCache
      BY <2>9 DEF KeepsLocks, locks
    <3>2. OwnerPlaced
      BY <2>9 DEF KeepsLocks, locks
    <3>3. OwnIndex
      BY <2>9 DEF KeepsLocks, locks
    <3> QED
      BY <3>1, <3>2, <3>3, <2>4 DEF LocksOwned, PathOf
  <2> QED
    BY <1>3, <2>5, <2>6, <2>7, <2>8, <2>9, StepLocks
<1> QED
  BY <1>1, <1>2, <1>3, StepKinds

LEMMA LocksCorrect == Spec => []LocksOwned
BY LocksInit, LocksNext, TypeCorrect, PTL DEF Spec

(* A holder of a folder's lock waits for nothing but the index lock, and a *)
(* holder of the index lock for nothing at all: whoever holds what another *)
(* run waits for is not itself waiting for that run.                       *)
THEOREM NoDeadlock == Spec => []NoCircularWait
<1>1. TypeOK /\ LocksOwned => NoCircularWait
  <2> SUFFICES ASSUME TypeOK, LocksOwned, NEW r \in Runs, Owner(r) # NoRun
               PROVE  Owner(r) # r /\ Owner(Owner(r)) # r
    BY DEF NoCircularWait
  <2> USE StoreAssumption DEF HoldsCache, HoldsIndex, Rewriting
  <2>1. CASE pc[r] \in {"wantCache", "wantFlush", "wantMeta"}
    <3>1. Owner(r) = cacheLock[PathOf(r)] /\ PathOf(r) \in Paths
      BY <2>1, Started DEF Owner
    <3>2. PICK s \in Runs : s = Owner(r) /\ pc[s] \in HoldsCache \cup {"crashed"}
      BY <3>1 DEF TypeOK, LocksOwned
    <3>3. Owner(s) \in {indexLock, NoRun}
      BY <3>2 DEF Owner
    <3>4. indexLock # r
      BY <2>1 DEF LocksOwned
    <3> QED
      BY <2>1, <3>2, <3>3, <3>4
  <2>2. CASE pc[r] = "wantIndex"
    <3>1. Owner(r) = indexLock
      BY <2>2 DEF Owner
    <3>2. PICK s \in Runs : s = Owner(r) /\ pc[s] \in HoldsIndex \cup {"crashed"}
      BY <3>1 DEF TypeOK, LocksOwned
    <3>3. Owner(s) = NoRun
      BY <3>2 DEF Owner
    <3> QED
      BY <2>2, <3>2, <3>3
  <2> QED
    BY <2>1, <2>2 DEF Owner
<1> QED
  BY <1>1, TypeCorrect, LocksCorrect, PTL

-------------------------------------------------------------------------------
(* Only the steps that write to a folder, and a start, which makes it,     *)
(* change folders.                                                         *)
LEMMA FolderSteps ==
  ASSUME TypeOK, NEW r \in Runs, Start(r) \/ Step(r) \/ Failure(r)
  PROVE  \/ UNCHANGED folder
         \/ \A q \in Paths : folder'[q].content = folder[q].content
         \/ MoveEntry(r) \/ CommitQuery(r) \/ CommitFile(r) \/ Prune(r) \/ WriteReport(r)
         \/ WriteTelemetrySidecar(r) \/ FlushLlmsStaging(r) \/ WriteLockedTelemetry(r)
         \/ ClearCacheArtefacts(r)
<1>1. CASE Start(r)
  <2>1. PICK q \in Paths : folder' = [folder EXCEPT ![q].exists = TRUE]
    BY <1>1 DEF Start, Begin
  <2>2. ASSUME NEW x \in Folder
        PROVE  [x EXCEPT !.exists = TRUE].content = x.content
    BY DEF Folder
  <2>3. folder' = [folder EXCEPT ![q] = [folder[q] EXCEPT !.exists = TRUE]]
    BY <2>1
  <2> QED
    BY <2>2, <2>3 DEF TypeOK
<1>2. CASE Failure(r)
  BY <1>2 DEF Failure, GiveUp, RotationFails, CommitFails, WriteIndexFails, Crash, store
<1>3. CASE Step(r)
  BY <1>3
     DEF Step, AcquireCache, AcquireIndex, PlanRotation, StageFiles, Unstage, ReadIndex, WriteIndex,
         ReleaseIndex, ReleaseCache, DownloadSettles, AwaitDownloads, SettleDownloads, CacheSuggest,
         HasReport, store
<1> QED
  BY <1>1, <1>2, <1>3

(* Only the flush of a staged download changes what a folder holds of the  *)
(* documentation: rotation and pruning name the entries they move or       *)
(* delete, and clearing puts the downloads back as they were.              *)
LEMMA DocumentationSteps ==
  ASSUME TypeOK, NEW r \in Runs, Start(r) \/ Step(r) \/ Failure(r), NEW q \in Paths
  PROVE  \/ folder'[q].content.llms = folder[q].content.llms
         \/ q = PathOf(r) /\ FlushLlmsStaging(r) /\ folder'[q].content.llms = TRUE
<1> DEFINE Same == folder'[q].content.llms = folder[q].content.llms
<1>1. ASSUME NEW c, Writes(r, c), c.llms = Content(r).llms
      PROVE  Same
  BY <1>1 DEF Writes, Content
<1>2. Content(r) \in Snapshot \/ pc[r] = "idle"
  BY Started
<1>3. CASE MoveEntry(r)
  <2>1. PICK e \in Entries \cup Files : Writes(r, Take(Content(r), e, Empty))
    BY <1>3, MoveEntryEffect
  <2>2. Take(Content(r), e, Empty).llms = Content(r).llms
    BY <1>2, <1>3, EmptyTyped, TakeTyped DEF MoveEntry
  <2> QED
    BY <1>1, <2>1, <2>2
<1>4. CASE CommitQuery(r)
  <2>1. [Content(r) EXCEPT !.query = r].llms = Content(r).llms
    BY <1>2, <1>4 DEF CommitQuery, Snapshot
  <2> QED
    BY <1>1, <1>4, <2>1, CommitQueryEffect
<1>5. CASE CommitFile(r)
  <2>1. PICK f : Writes(r, [Content(r) EXCEPT !.files[f] = r])
    BY <1>5, CommitFileEffect
  <2>2. [Content(r) EXCEPT !.files[f] = r].llms = Content(r).llms
    BY <1>2, <1>5 DEF CommitFile, Snapshot
  <2> QED
    BY <1>1, <2>1, <2>2
<1>6. CASE Prune(r)
  <2>1. PICK g : Writes(r, [Content(r) EXCEPT !.files = g])
    BY <1>6, PruneEffect
  <2>2. [Content(r) EXCEPT !.files = g].llms = Content(r).llms
    BY <1>2, <1>6 DEF Prune, Snapshot
  <2> QED
    BY <1>1, <2>1, <2>2
<1>7. CASE WriteReport(r)
  <2>1. [Content(r) EXCEPT !.report = r].llms = Content(r).llms
    BY <1>2, <1>7 DEF WriteReport, Snapshot
  <2> QED
    BY <1>1, <1>7, <2>1, WriteReportEffect
<1>8. CASE (WriteTelemetrySidecar(r) \/ WriteLockedTelemetry(r)) /\ ~UNCHANGED folder
  <2>1. PICK m : Writes(r, [Content(r) EXCEPT !.meta = m])
    BY <1>8, WriteMetaEffect DEF WriteTelemetrySidecar, WriteLockedTelemetry, Outcome
  <2>2. [Content(r) EXCEPT !.meta = m].llms = Content(r).llms
    BY <1>2, <1>8 DEF WriteTelemetrySidecar, WriteLockedTelemetry, Snapshot
  <2> QED
    BY <1>1, <2>1, <2>2
<1>9. CASE FlushLlmsStaging(r)
  <2>1. PICK b \in BOOLEAN : Writes(r, [Content(r) EXCEPT !.llms = b]) /\ (Content(r).llms => b)
    BY <1>9, FlushEffect
  <2>2. [Content(r) EXCEPT !.llms = b].llms = b /\ Content(r).llms \in BOOLEAN
    BY <1>2, <1>9 DEF FlushLlmsStaging, Snapshot
  <2> QED
    BY <1>9, <2>1, <2>2 DEF Writes, Content
<1>10. CASE ClearCacheArtefacts(r)
  BY <1>1, <1>10, ClearEffect
<1> QED
  BY <1>3, <1>4, <1>5, <1>6, <1>7, <1>8, <1>9, <1>10, FolderSteps

(* A documentation download is never removed from a folder. *)
LlmsKept == [][\A q \in Paths : folder[q].content.llms => folder'[q].content.llms]_folder

THEOREM LlmsSurvive == Spec => LlmsKept
<1>1. TypeOK /\ [Next]_vars
        => [\A q \in Paths : folder[q].content.llms => folder'[q].content.llms]_folder
  BY StepKinds, OtherStepTyped, DocumentationSteps DEF Idle, store
<1> QED
  BY <1>1, TypeCorrect, PTL DEF Spec, LlmsKept

-------------------------------------------------------------------------------
(* The places of a run whose downloads have been settled. *)
AfterSettle == {"suggest", "wantMeta", "lastMeta", "freeMeta", "ended"}

(* Only research downloads, a writer has its directory, and after the      *)
(* finally block neither is left unless removing the directory failed.     *)
Settled(r) ==
  pc[r] # "idle" =>
    /\ run[r].dl = "running" => run[r].llmsStaging
    /\ run[r].op # "research" => run[r].dl # "running" /\ ~run[r].llmsStaging
    /\ pc[r] \in AfterSettle => run[r].dl # "running" /\ (run[r].llmsStaging => faults > 0)
StagingInv == \A r \in Runs : Settled(r)

LEMMA StagingInit == Init => StagingInv
BY DEF Init, StagingInv, Settled

(* A step keeps a run's downloads as they are and comes after the settling *)
(* only from there, or for an operation without downloads; or it is one of *)
(* the three that are about downloads.                                     *)
LEMMA DownloadSteps ==
  ASSUME TypeOK, NEW r \in Runs, Start(r) \/ Step(r) \/ Failure(r)
  PROVE  \/ Start(r) \/ DownloadSettles(r) \/ SettleDownloads(r)
         \/ /\ pc[r] # "idle" /\ DownloadKept(r)
            /\ pc'[r] \in AfterSettle => pc[r] \in AfterSettle \/ run[r].op # "research"
<1> USE DEF DownloadKept, AfterSettle, Goto, TypeOK
<1>1. CASE Crash(r) \/ AcquireCache(r) \/ AcquireIndex(r) \/ ReleaseIndex(r)
           \/ ReleaseCache(r) \/ HasReport(r)
  BY <1>1 DEF Crash, AcquireCache, Entered, AcquireIndex, ReleaseIndex, ReleaseCache, HasReport
<1>2. CASE Prune(r) \/ WriteReport(r) \/ WriteTelemetrySidecar(r) \/ WriteIndex(r)
           \/ FlushLlmsStaging(r) \/ WriteLockedTelemetry(r) \/ ClearCacheArtefacts(r)
  BY <1>2 DEF Prune, WriteReport, WriteTelemetrySidecar, WriteIndex, FlushLlmsStaging,
              WriteLockedTelemetry, ClearCacheArtefacts
<1>3. CASE GiveUp(r) \/ CommitFails(r) \/ WriteIndexFails(r)
  <2>1. pc[r] # "idle" /\ DownloadKept(r)
    BY <1>3, Started, SetFailed DEF GiveUp, CommitFails, WriteIndexFails, Throw
  <2>2. pc'[r] \in AfterSettle => pc[r] \in AfterSettle \/ run[r].op # "research"
    BY <1>3 DEF GiveUp, CommitFails, WriteIndexFails, Throw, AfterThrow
  <2> QED
    BY <2>1, <2>2
<1>4. CASE AwaitDownloads(r) \/ CacheSuggest(r)
  <2>1. pc[r] # "idle" /\ DownloadKept(r)
    BY <1>4, Started, SetFailed DEF AwaitDownloads, CacheSuggest, Throw
  <2>2. pc'[r] \in AfterSettle => pc[r] \in AfterSettle
    BY <1>4 DEF AwaitDownloads, CacheSuggest, Throw
  <2> QED
    BY <2>1, <2>2
<1>5. CASE RotationFails(r) \/ StageFiles(r) \/ Unstage(r)
  <2>1. pc[r] # "idle"
    BY <1>5 DEF RotationFails, StageFiles, Unstage
  <2>2. {} \in SUBSET (Entries \cup Files)
    OBVIOUS
  <2>3. DownloadKept(r)
    BY <1>5, <2>1, <2>2, Started, SetTodo, SetStaging DEF RotationFails, StageFiles, Unstage
  <2>4. pc'[r] \notin AfterSettle
    BY <1>5 DEF RotationFails, StageFiles, Unstage
  <2> QED
    BY <2>1, <2>3, <2>4
<1>6. CASE PlanRotation(r) \/ MoveEntry(r)
  <2>1. pc[r] # "idle" /\ DownloadKept(r)
    BY <1>6, PlanRotationEffect, MoveEntryEffect DEF PlanRotation, MoveEntry
  <2>2. pc'[r] \notin AfterSettle
    BY <1>6 DEF PlanRotation, MoveEntry
  <2> QED
    BY <2>1, <2>2
<1>7. CASE CommitQuery(r) \/ CommitFile(r)
  <2>1. pc[r] # "idle" /\ DownloadKept(r)
    BY <1>7, CommitQueryEffect, CommitFileEffect DEF CommitQuery, CommitFile
  <2>2. pc'[r] \notin AfterSettle
    BY <1>7 DEF CommitQuery, CommitFile
  <2> QED
    BY <2>1, <2>2
<1>8. CASE ReadIndex(r)
  <2>1. index \in Index /\ [q \in Paths |-> NoRun] \in Index
    BY DEF Index
  <2>2. pc[r] # "idle" /\ DownloadKept(r)
    BY <1>8, <2>1, Started, SetSnap DEF ReadIndex
  <2>3. pc'[r] \notin AfterSettle
    BY <1>8 DEF ReadIndex
  <2> QED
    BY <2>2, <2>3
<1> QED
  BY <1>1, <1>2, <1>3, <1>4, <1>5, <1>6, <1>7, <1>8 DEF Step, Failure

LEMMA StagingNext ==
  ASSUME TypeOK, SlotExists, StagingInv, [Next]_vars
  PROVE  StagingInv'
<1>1. CASE Breaking \/ UNCHANGED vars
  BY <1>1, OtherStepTyped DEF Idle, budget, StagingInv, Settled
<1>2. ASSUME NEW r \in Runs, Start(r) \/ Step(r) \/ Failure(r)
      PROVE  StagingInv'
  <2>1. TypeOK' /\ Frame(r)
    BY <1>2, RunStepTyped
  <2>2. ASSUME NEW s \in Runs, s # r
        PROVE  Settled(s)'
    BY <2>1, <2>2 DEF StagingInv, Settled, Frame, OthersKept, TypeOK
  <2>3. Settled(r)
    BY DEF StagingInv
  <2>4. Settled(r)'
    <3>1. CASE Start(r)
      <4>1. pc'[r] = "wantCache"
        BY <3>1 DEF Start, Begin, Goto, TypeOK
      <4>2. /\ run'[r].dl = "running" => run'[r].llmsStaging
            /\ run'[r].op # "research" => run'[r].dl # "running" /\ ~run'[r].llmsStaging
        <5>1. PICK q \in Paths, op \in Ops, ws \in FileSets : Begin(r, q, op, ws)
          BY <3>1 DEF Start
        <5>2. PICK dl \in {"none", "running"} :
                /\ op # "research" => dl = "none"
                /\ RunsTyped' /\ run'[r] \in RunState /\ OthersKept(r)
                /\ run'[r].op = op /\ run'[r].path = q /\ run'[r].dl = dl
                /\ run'[r].llmsStaging = (dl = "running") /\ run'[r].failed = FALSE
          BY <5>1, BeginEffect
        <5> QED
          BY <5>2
      <4> QED
        BY <4>1, <4>2 DEF Settled, AfterSettle
    <3>2. CASE DownloadSettles(r)
      <4>1. pc[r] # "idle" /\ pc'[r] = pc[r]
        BY <3>2 DEF DownloadSettles
      <4>2. TaskKept(r) /\ run'[r].dl = "settled" /\ run'[r].llmsStaging = run[r].llmsStaging
        BY <3>2, <4>1, Started, SetDl DEF DownloadSettles, LocalsUpdated
      <4> QED
        BY <2>1, <2>3, <3>2, <4>1, <4>2 DEF Settled, TaskKept, Frame, DownloadSettles, TypeOK
    <3>3. CASE SettleDownloads(r)
      <4>1. pc[r] = "settle" /\ run[r].dl # "running" /\ pc'[r] # "idle"
        BY <3>3 DEF SettleDownloads, Goto, TypeOK
      <4>2. /\ TaskKept(r) /\ run'[r].dl = run[r].dl
            /\ \/ run'[r].llmsStaging = FALSE
               \/ run'[r].llmsStaging = run[r].llmsStaging /\ faults' > 0
        <5>1. CASE run' = [run EXCEPT ![r].llmsStaging = FALSE]
          BY <4>1, <5>1, Started, SetLlmsStaging DEF LocalsUpdated
        <5>2. CASE Fault("rmStaging") /\ UNCHANGED run
          BY <5>2 DEF Fault, TaskKept, TypeOK
        <5> QED
          BY <3>3, <5>1, <5>2 DEF SettleDownloads
      <4> QED
        BY <2>3, <4>1, <4>2 DEF Settled, TaskKept
    <3>4. CASE /\ pc[r] # "idle" /\ DownloadKept(r)
               /\ pc'[r] \in AfterSettle => pc[r] \in AfterSettle \/ run[r].op # "research"
      BY <2>1, <2>3, <3>4 DEF Settled, Frame, TaskKept, DownloadKept, TypeOK
    <3> QED
      BY <1>2, <3>1, <3>2, <3>3, <3>4, DownloadSteps
  <2> QED
    BY <2>2, <2>4 DEF StagingInv
<1> QED
  BY <1>1, <1>2, StepKinds

(* No download writes into a staging directory that is gone, and an ended  *)
(* run leaves no writer and, unless its removal failed, no directory.      *)
THEOREM StagingCorrect == Spec => []StagingOutlivesWriters
<1>1. StagingInv => StagingOutlivesWriters
  BY DEF StagingInv, Settled, StagingOutlivesWriters, AfterSettle
<1> QED
  BY <1>1, StagingInit, StagingNext, TypeCorrect, PTL DEF Spec

-------------------------------------------------------------------------------
(* Mutual exclusion of the folders: while run s holds the lock of its      *)
(* folder, the steps of the others change nothing it relies on.            *)
LEMMA Undisturbed ==
  ASSUME TypeOK, LocksOwned, NEW r \in Runs, Frame(r),
         NEW s \in Runs, s # r, pc[s] \in HoldsCache
  PROVE  /\ pc'[s] = pc[s] /\ run'[s] = run[s] /\ PathOf(s)' = PathOf(s)
         /\ PathOf(s) \in Paths
         /\ BodyKept(PathOf(s)) /\ archives'[PathOf(s)] = archives[PathOf(s)]
         /\ PathOf(s) \in interrupted' <=> PathOf(s) \in interrupted
<1>1. pc[s] # "idle" /\ PathOf(s) \in Paths
  <2>1. pc[s] # "idle"
    BY DEF HoldsCache, HoldsIndex, Rewriting
  <2> QED
    BY <2>1, Started
<1>2. pc'[s] = pc[s] /\ run'[s] = run[s] /\ PathOf(s)' = PathOf(s)
  BY DEF Frame, OthersKept, PathOf
<1>3. pc[r] \in HoldsCache => PathOf(r) # PathOf(s)
  BY DEF LocksOwned
<1>4. Writers \subseteq HoldsCache /\ Rotators \subseteq HoldsCache
  BY DEF Writers, Rotators, HoldsCache, Rewriting
<1> QED
  BY <1>1, <1>2, <1>3, <1>4 DEF Frame

(* A download that settles changes nothing else of its run. *)
LEMMA SettlingKeeps ==
  ASSUME TypeOK, NEW r \in Runs, DownloadSettles(r)
  PROVE  /\ pc[r] # "idle" /\ pc' = pc /\ TaskKept(r) /\ RotationKept(r) /\ PathOf(r)' = PathOf(r)
         /\ run'[r].snap = run[r].snap /\ run'[r].failed = run[r].failed
         /\ UNCHANGED <<store, history>>
<1>1. pc[r] # "idle"
  BY DEF DownloadSettles
<1>2. LocalsUpdated(r) /\ RotationKept(r) /\ run'[r].snap = run[r].snap
      /\ run'[r].failed = run[r].failed
  BY <1>1, Started, SetDl DEF DownloadSettles
<1> QED
  BY <1>1, <1>2 DEF DownloadSettles, LocalsUpdated, TaskKept, PathOf

(* What happens to the report of a folder: a rotation or a degraded exit   *)
(* removes it, a commit replaces it.                                       *)
LEMMA ReportSteps ==
  ASSUME TypeOK, SlotExists, NEW r \in Runs, Start(r) \/ Step(r) \/ Failure(r), NEW q \in Paths
  PROVE  \/ folder'[q].content.report = folder[q].content.report
         \/ /\ q = PathOf(r) /\ (MoveEntry(r) \/ ClearCacheArtefacts(r))
            /\ folder'[q].content.report = NoRun
         \/ q = PathOf(r) /\ WriteReport(r) /\ folder'[q].content.report = r
<1>1. TypeOK' /\ Frame(r)
  BY RunStepTyped
<1>2. CASE ~(pc[r] \in Writers /\ q = PathOf(r))
  BY <1>1, <1>2 DEF Frame, BodyKept
<1>3. CASE pc[r] \in Writers /\ q = PathOf(r)
  <2>1. pc[r] # "idle" /\ Content(r) \in Snapshot
    BY <1>3, Started DEF Writers
  <2>2. CASE MoveEntry(r)
    <3>1. PICK e \in Entries \cup Files : Writes(r, Take(Content(r), e, Empty))
      BY <2>2, MoveEntryEffect
    <3>2. Take(Content(r), e, Empty).report \in {NoRun, Content(r).report}
      BY <2>1 DEF Take, Snapshot, Empty
    <3> QED
      BY <1>3, <2>2, <3>1, <3>2 DEF Writes, Content
  <2>3. CASE CommitQuery(r)
    <3>1. [Content(r) EXCEPT !.query = r].report = Content(r).report
      BY <2>1 DEF Snapshot
    <3> QED
      BY <1>3, <2>3, <3>1, CommitQueryEffect DEF Writes, Content
  <2>4. CASE CommitFile(r)
    <3>1. PICK f : Writes(r, [Content(r) EXCEPT !.files[f] = r])
      BY <2>4, CommitFileEffect
    <3>2. [Content(r) EXCEPT !.files[f] = r].report = Content(r).report
      BY <2>1 DEF Snapshot
    <3> QED
      BY <1>3, <3>1, <3>2 DEF Writes, Content
  <2>5. CASE Prune(r)
    <3>1. PICK g : Writes(r, [Content(r) EXCEPT !.files = g])
      BY <2>5, PruneEffect
    <3>2. [Content(r) EXCEPT !.files = g].report = Content(r).report
      BY <2>1 DEF Snapshot
    <3> QED
      BY <1>3, <3>1, <3>2 DEF Writes, Content
  <2>6. CASE WriteReport(r)
    <3>1. [Content(r) EXCEPT !.report = r].report = r
      BY <2>1 DEF Snapshot
    <3> QED
      BY <1>3, <2>6, <3>1, WriteReportEffect DEF Writes
  <2>7. CASE ClearCacheArtefacts(r)
    BY <1>3, <2>7, ClearEffect DEF Writes, Content
  <2>8. CASE UNCHANGED folder \/ \A p \in Paths : folder'[p].content = folder[p].content
    BY <2>8
  <2>9. ~WriteTelemetrySidecar(r) /\ ~FlushLlmsStaging(r) /\ ~WriteLockedTelemetry(r)
    BY <1>3 DEF Writers, WriteTelemetrySidecar, FlushLlmsStaging, WriteLockedTelemetry
  <2> QED
    BY <2>2, <2>3, <2>4, <2>5, <2>6, <2>7, <2>8, <2>9, FolderSteps
<1> QED
  BY <1>2, <1>3

(* A report lies in the folder of the run that wrote it. *)
ReportAt ==
  \A q \in Paths : \A r \in Runs :
    folder[q].content.report = r => pc[r] # "idle" /\ PathOf(r) = q

(* What the places of a commit and of a degraded exit say of the operation *)
(* and of the report in the run's folder.                                  *)
CommitPlace(r) ==
  /\ pc[r] \in {"rotate"} \cup Rewriting => run[r].op # "degraded"
  /\ pc[r] \in {"hasReport", "clear"} => run[r].op = "degraded"
  /\ pc[r] = "clear" => Content(r).report = NoRun
  /\ pc[r] \in {"wantIndex", "readIndex", "writeIndex"} =>
       Content(r).report = IF run[r].op = "degraded" THEN NoRun ELSE r
  /\ pc[r] = "meta" /\ run[r].op # "degraded" => Content(r).report = r

ReportInv == ReportAt /\ \A r \in Runs : CommitPlace(r)

LEMMA ReportInit == Init => ReportInv
BY StoreAssumption DEF Init, ReportInv, ReportAt, CommitPlace, Rewriting, Empty

LEMMA ReportAtNext ==
  ASSUME TypeOK, SlotExists, ReportAt, NEW r \in Runs, Start(r) \/ Step(r) \/ Failure(r)
  PROVE  ReportAt'
<1>1. TypeOK' /\ Frame(r)
  BY RunStepTyped
<1> SUFFICES ASSUME NEW q \in Paths, NEW s \in Runs, folder'[q].content.report = s
             PROVE  pc'[s] # "idle" /\ run'[s].path = q
  BY DEF ReportAt, PathOf
<1>2. CASE folder[q].content.report = s
  BY <1>1, <1>2 DEF ReportAt, PathOf, Frame, OthersKept, TaskKept
<1>3. CASE q = PathOf(r) /\ WriteReport(r) /\ s = r
  BY <1>1, <1>3 DEF WriteReport, PathOf, Frame, TaskKept
<1> QED
  BY <1>2, <1>3, ReportSteps, StoreAssumption

LEMMA CommitPlaceNext ==
  ASSUME TypeOK, SlotExists, LocksOwned, NEW r \in Runs, Start(r) \/ Step(r) \/ Failure(r),
         NEW s \in Runs, CommitPlace(s)
  PROVE  CommitPlace(s)'
<1>1. TypeOK' /\ Frame(r)
  BY RunStepTyped
<1>2. CASE s # r
  <2>1. CASE pc[s] \in HoldsCache
    BY <1>1, <1>2, <2>1, Undisturbed DEF CommitPlace, Content, PathOf, BodyKept
  <2>2. CASE pc[s] \notin HoldsCache
    BY <1>1, <1>2, <2>2 DEF CommitPlace, Frame, HoldsCache, HoldsIndex
  <2> QED
    BY <2>1, <2>2
<1>3. CASE s = r /\ DownloadSettles(r)
  BY <1>3, SettlingKeeps DEF CommitPlace, TaskKept, Content, PathOf, store
<1>4. CASE s = r /\ ~DownloadSettles(r)
  <2> USE <1>4
  <2>0. Edges(r)
    BY ControlFlow
  <2>1. pc[r] # "idle" => run'[r].op = run[r].op /\ PathOf(r)' = PathOf(r) /\ PathOf(r) \in Paths
    BY <1>1, Started DEF Frame, TaskKept, PathOf
  <2>2. pc'[r] \in {"rotate"} \cup Rewriting => run'[r].op # "degraded"
    BY <2>0, <2>1
       DEF Edges, Rewriting, CommitPlace, AcquireCache, PlanRotation, MoveEntry, RotationFails,
           StageFiles, CommitQuery, CommitFile, Prune, CommitFails, Unstage
  <2>3. pc'[r] \in {"hasReport", "clear"} => run'[r].op = "degraded"
    BY <2>0, <2>1 DEF Edges, CommitPlace, AcquireCache, HasReport
  <2>4. pc'[r] = "clear" => Content(r)'.report = NoRun
    BY <2>0, <2>1 DEF Edges, HasReport, Goto, Content, PathOf, store, TypeOK
  <2>7. pc[r] # "idle" =>
           \/ Content(r)'.report = Content(r).report
           \/ (MoveEntry(r) \/ ClearCacheArtefacts(r)) /\ Content(r)'.report = NoRun
           \/ WriteReport(r) /\ Content(r)'.report = r
    BY <2>1, ReportSteps DEF Content
  <2>8. WriteReport(r) => pc[r] # "idle" /\ Content(r)'.report = r
    <3>1. Content(r) \in Snapshot => [Content(r) EXCEPT !.report = r].report = r
      BY DEF Snapshot
    <3>2. WriteReport(r) => pc[r] # "idle"
      BY DEF WriteReport
    <3> QED
      BY <2>1, <3>1, <3>2, Started, WriteReportEffect DEF Writes, Content
  <2>5. pc'[r] \in {"wantIndex", "readIndex", "writeIndex"} =>
          Content(r)'.report = IF run'[r].op = "degraded" THEN NoRun ELSE r
    <3>1. CASE WriteReport(r)
      <4>1. pc[r] = "report" /\ run[r].op # "degraded"
        BY <3>1 DEF WriteReport, CommitPlace, Rewriting
      <4> QED
        BY <2>1, <2>8, <3>1, <4>1
    <3>2. CASE WriteTelemetrySidecar(r)
      <4>1. pc[r] = "meta" /\ (pc'[r] = "wantIndex" => run[r].op = "research")
        BY <3>2 DEF WriteTelemetrySidecar, Goto, TypeOK
      <4>2. pc'[r] # "readIndex" /\ pc'[r] # "writeIndex"
        BY <3>2 DEF WriteTelemetrySidecar, Goto, TypeOK
      <4> QED
        BY <2>1, <2>7, <4>1, <4>2 DEF CommitPlace, MoveEntry, ClearCacheArtefacts, WriteReport
    <3>3. CASE ClearCacheArtefacts(r)
      <4>1. pc[r] = "clear"
        BY <3>3 DEF ClearCacheArtefacts
      <4> QED
        BY <2>1, <2>7, <4>1 DEF CommitPlace, MoveEntry, WriteReport
    <3>4. CASE AcquireIndex(r) \/ ReadIndex(r)
      <4>1. pc[r] \in {"wantIndex", "readIndex"}
        BY <3>4 DEF AcquireIndex, ReadIndex
      <4> QED
        BY <2>1, <2>7, <4>1 DEF CommitPlace, MoveEntry, ClearCacheArtefacts, WriteReport
    <3> QED
      BY <2>0, <3>1, <3>2, <3>3, <3>4 DEF Edges
  <2>6. pc'[r] = "meta" /\ run'[r].op # "degraded" => Content(r)'.report = r
    <3>1. CASE WriteReport(r)
      BY <2>1, <2>8, <3>1
    <3>2. CASE ReleaseIndex(r) \/ HasReport(r)
      BY <2>1, <3>2 DEF ReleaseIndex, HasReport, Goto, TypeOK, CommitPlace
    <3> QED
      BY <2>0, <3>1, <3>2 DEF Edges
  <2> QED
    BY <2>2, <2>3, <2>4, <2>5, <2>6 DEF CommitPlace
<1> QED
  BY <1>2, <1>3, <1>4

LEMMA ReportNext ==
  ASSUME TypeOK, SlotExists, LocksOwned, ReportInv, [Next]_vars
  PROVE  ReportInv'
<1>1. CASE Breaking \/ UNCHANGED vars
  BY <1>1, OtherStepTyped DEF ReportInv, ReportAt, CommitPlace, Idle, store, PathOf, Content
<1>2. ASSUME NEW r \in Runs, Start(r) \/ Step(r) \/ Failure(r)
      PROVE  ReportInv'
  BY <1>2, ReportAtNext, CommitPlaceNext DEF ReportInv
<1> QED
  BY <1>1, <1>2, StepKinds

LEMMA ReportCorrect == Spec => []ReportInv
BY ReportInit, ReportNext, TypeCorrect, LocksCorrect, PTL DEF Spec

-------------------------------------------------------------------------------
(* The index.  A run that is about to write the index back still has what  *)
(* is on disk, or nothing because its read failed.                         *)
SnapshotKept ==
  \A r \in Runs : pc[r] = "writeIndex" =>
    \/ run[r].snap = index
    \/ "readIndex" \in FaultyOps /\ run[r].snap = [q \in Paths |-> NoRun]

LEMMA SnapshotNext ==
  ASSUME TypeOK, SlotExists, LocksOwned, SnapshotKept, [Next]_vars
  PROVE  SnapshotKept'
<1>1. CASE Breaking \/ UNCHANGED vars
  BY <1>1, OtherStepTyped DEF SnapshotKept, Idle, store
<1>2. ASSUME NEW r \in Runs, Start(r) \/ Step(r) \/ Failure(r)
      PROVE  SnapshotKept'
  <2>1. TypeOK' /\ Frame(r)
    BY <1>2, RunStepTyped
  <2> SUFFICES ASSUME NEW s \in Runs, pc'[s] = "writeIndex"
               PROVE  \/ run'[s].snap = index'
                      \/ "readIndex" \in FaultyOps /\ run'[s].snap = [q \in Paths |-> NoRun]
    BY DEF SnapshotKept
  <2>2. CASE s # r
    <3>1. pc[s] = "writeIndex" /\ run'[s] = run[s]
      BY <2>1, <2>2 DEF Frame, OthersKept
    <3>2. pc[r] # "writeIndex"
      BY <2>2, <3>1 DEF LocksOwned, HoldsIndex
    <3> QED
      BY <2>1, <3>1, <3>2 DEF Frame, SnapshotKept
  <2>3. CASE s = r /\ DownloadSettles(r)
    BY <2>3, SettlingKeeps DEF SnapshotKept, store
  <2>4. CASE s = r /\ ReadIndex(r)
    <3>1. index \in Index /\ [q \in Paths |-> NoRun] \in Index /\ pc[r] # "idle"
      BY <2>4 DEF TypeOK, Index, ReadIndex
    <3>2. CASE run' = [run EXCEPT ![r].snap = index]
      BY <2>4, <3>1, <3>2, Started, SetSnap DEF ReadIndex, store
    <3>3. CASE Fault("readIndex") /\ run' = [run EXCEPT ![r].snap = [q \in Paths |-> NoRun]]
      BY <2>4, <3>1, <3>3, Started, SetSnap DEF Fault
    <3> QED
      BY <2>4, <3>2, <3>3 DEF ReadIndex
  <2> QED
    BY <1>2, <2>2, <2>3, <2>4, ControlFlow DEF Edges
<1> QED
  BY <1>1, <1>2, StepKinds

LEMMA SnapshotCorrect == Spec => []SnapshotKept
<1>1. Init => SnapshotKept
  BY DEF Init, SnapshotKept
<1> QED
  BY <1>1, SnapshotNext, TypeCorrect, LocksCorrect, PTL DEF Spec

(* A step of run r changes the index, if at all, in the entry of its own   *)
(* folder; only after a failed read may it drop others.                    *)
LEMMA IndexSteps ==
  ASSUME TypeOK, SnapshotKept, NEW r \in Runs, Frame(r), Start(r) \/ Step(r) \/ Failure(r)
  PROVE  \/ index' = index /\ indexed' = indexed
         \/ /\ pc[r] = "writeIndex" /\ WriteIndex(r) /\ PathOf(r) \in Paths
            /\ index'[PathOf(r)] = IF run[r].op = "degraded" THEN NoRun ELSE r
            /\ indexed' = IF run[r].op = "degraded" THEN indexed ELSE indexed \cup {r}
            /\ \A q \in Paths \ {PathOf(r)} : index'[q] \in {index[q], NoRun}
            /\ "readIndex" \notin FaultyOps =>
                 index' = [index EXCEPT ![PathOf(r)] = IF run[r].op = "degraded" THEN NoRun ELSE r]
<1>1. CASE WriteIndex(r)
  <2>1. pc[r] = "writeIndex"
    BY <1>1 DEF WriteIndex
  <2>2. PathOf(r) \in Paths /\ run[r].snap \in Index
    BY <2>1, Started
  <2> DEFINE entry == IF run[r].op = "degraded" THEN NoRun ELSE r
  <2>3. index' = [run[r].snap EXCEPT ![PathOf(r)] = entry]
    BY <1>1, WriteIndexEffect
  <2> HIDE DEF entry
  <2>4. index'[PathOf(r)] = entry /\ \A q \in Paths \ {PathOf(r)} : index'[q] = run[r].snap[q]
    BY <2>2, <2>3 DEF Index
  <2>5. \A q \in Paths \ {PathOf(r)} : index'[q] \in {index[q], NoRun}
    BY <2>1, <2>4 DEF SnapshotKept
  <2>6. "readIndex" \notin FaultyOps => index' = [index EXCEPT ![PathOf(r)] = entry]
    BY <2>1, <2>3 DEF SnapshotKept
  <2> QED
    BY <1>1, <2>1, <2>2, <2>4, <2>5, <2>6, WriteIndexEffect DEF entry
<1>2. CASE pc[r] # "writeIndex"
  BY <1>2 DEF Frame
<1>3. CASE pc[r] = "writeIndex" /\ ~WriteIndex(r)
  <2>1. WriteIndexFails(r) \/ Crash(r) \/ DownloadSettles(r)
    BY <1>3
       DEF Start, Begin, Step, Failure, AcquireCache, AcquireIndex, PlanRotation, MoveEntry, StageFiles,
           CommitQuery, CommitFile, Prune, Unstage, WriteReport, WriteTelemetrySidecar, ReadIndex,
           ReleaseIndex, ReleaseCache, AwaitDownloads, FlushLlmsStaging, SettleDownloads,
           CacheSuggest, WriteLockedTelemetry, HasReport, ClearCacheArtefacts, GiveUp, RotationFails,
           CommitFails
  <2> QED
    BY <2>1 DEF WriteIndexFails, Crash, DownloadSettles, store, history
<1> QED
  BY <1>1, <1>2, <1>3

-------------------------------------------------------------------------------
(* The progress of a commit.  c holds exactly the query and files of r. *)
Complete(c, r) ==
  /\ c.query = r
  /\ \A f \in Files : c.files[f] = IF f \in run[r].writes THEN r ELSE NoRun

BeforeFailure == {"wantCache", "rotate", "move", "stage", "commitQuery", "commit", "prune", "report"}

(* A commit throws only out of these places; it has written query.txt and  *)
(* the files no longer to do, and after the pruning nothing else is left.  *)
(* One that has thrown has left its folder marked.                         *)
Progress(r) ==
  /\ pc[r] \in BeforeFailure => ~run[r].failed
  /\ pc[r] = "commit" => /\ Content(r).query = r
                         /\ \A f \in run[r].writes \ run[r].todo : Content(r).files[f] = r
  /\ pc[r] = "prune" => /\ Content(r).query = r
                        /\ \A f \in run[r].writes : Content(r).files[f] = r
  /\ pc[r] = "unstage" /\ ~run[r].failed => Complete(Content(r), r)
  /\ pc[r] = "report" => Complete(Content(r), r)
  /\ pc[r] = "unstage" /\ run[r].failed => PathOf(r) \in interrupted

ProgressInv == \A r \in Runs : Progress(r)

LEMMA ProgressInit == Init => ProgressInv
BY DEF Init, ProgressInv, Progress, BeforeFailure

(* A run keeps its failed flag until it throws. *)
LEMMA FailedSteps ==
  ASSUME TypeOK, SlotExists, NEW r \in Runs, Start(r) \/ Step(r) \/ Failure(r),
         pc[r] \in BeforeFailure \cup {"unstage"}, pc'[r] \in BeforeFailure,
         pc[r] # "unstage" => ~run[r].failed
  PROVE  ~run'[r].failed
<1>0. pc[r] # "idle" /\ {} \in SUBSET (Entries \cup Files)
  BY DEF BeforeFailure
<1>1. CASE DownloadSettles(r)
  BY <1>1, SettlingKeeps DEF BeforeFailure
<1>2. CASE AcquireCache(r)
  BY <1>2 DEF AcquireCache, BeforeFailure
<1>3. CASE PlanRotation(r) \/ MoveEntry(r)
  BY <1>3, PlanRotationEffect, MoveEntryEffect DEF PlanRotation, MoveEntry
<1>4. CASE RotationFails(r)
  BY <1>0, <1>4, Started, SetTodo DEF RotationFails
<1>5. CASE StageFiles(r)
  BY <1>0, <1>5, Started, SetStaging DEF StageFiles
<1>6. CASE CommitQuery(r) \/ CommitFile(r)
  BY <1>6, CommitQueryEffect, CommitFileEffect DEF CommitQuery, CommitFile
<1>7. CASE Unstage(r)
  <2>1. ~run[r].failed
    BY <1>7 DEF Unstage, Goto, BeforeFailure, TypeOK
  <2>2. CASE UNCHANGED run
    BY <2>1, <2>2
  <2>3. CASE run' = [run EXCEPT ![r].staging = FALSE]
    BY <1>0, <2>1, <2>3, Started, SetStaging
  <2> QED
    BY <1>7, <2>2, <2>3 DEF Unstage
<1>8. ~Start(r)
  BY <1>0 DEF Start, Begin
<1> QED
  BY <1>1, <1>2, <1>3, <1>4, <1>5, <1>6, <1>7, <1>8, ControlFlow DEF Edges, BeforeFailure

LEMMA ProgressNext ==
  ASSUME TypeOK, SlotExists, LocksOwned, NEW r \in Runs, Start(r) \/ Step(r) \/ Failure(r),
         NEW s \in Runs, Progress(s)
  PROVE  Progress(s)'
<1>1. TypeOK' /\ Frame(r)
  BY RunStepTyped
<1>2. CASE s # r
  <2>1. CASE pc[s] \in HoldsCache
    BY <1>1, <1>2, <2>1, Undisturbed DEF Progress, Complete, Content, PathOf, BodyKept
  <2>2. CASE pc[s] \notin HoldsCache
    BY <1>1, <1>2, <2>2 DEF Progress, Frame, OthersKept, HoldsCache, Rewriting
  <2> QED
    BY <2>1, <2>2
<1>3. CASE s = r /\ DownloadSettles(r)
  <2>1. folder' = folder /\ interrupted' = interrupted /\ pc' = pc /\ PathOf(r)' = PathOf(r)
        /\ run'[r].writes = run[r].writes /\ run'[r].todo = run[r].todo
        /\ run'[r].failed = run[r].failed
    BY <1>3, SettlingKeeps DEF TaskKept, RotationKept, store, history
  <2> QED
    BY <1>3, <2>1 DEF Progress, Complete, Content, PathOf
<1>4. CASE s = r /\ ~DownloadSettles(r)
  <2> USE <1>4
  <2>1. Edges(r)
    BY ControlFlow
  <2>2. pc[r] # "idle" => /\ run'[r].writes = run[r].writes /\ run'[r].path = run[r].path
                          /\ PathOf(r)' = PathOf(r) /\ PathOf(r) \in Paths
                          /\ run[r].writes \in SUBSET Files
                          /\ Content(r) \in Snapshot
    BY <1>1, Started DEF Frame, TaskKept, PathOf
  <2>3. ASSUME NEW c, Writes(r, c), pc[r] # "idle"
        PROVE  Content(r)' = c
    BY <1>1, <2>2, <2>3, Started DEF Writes, Content, PathOf
  <2>4. pc'[r] \in BeforeFailure => ~run'[r].failed
    <3>1. CASE Start(r)
      <4>1. PICK q \in Paths, op \in Ops, ws \in FileSets : Begin(r, q, op, ws)
        BY <3>1 DEF Start
      <4> QED
        BY <4>1, BeginEffect
    <3>2. CASE ~Start(r) /\ pc'[r] \in BeforeFailure
      <4>1. pc[r] \in BeforeFailure \cup {"unstage"}
        <5>1. CASE pc'[r] \in {"wantCache", "rotate", "move", "stage"}
          BY <2>1, <3>2, <5>1
             DEF Edges, BeforeFailure, PlanRotation, MoveEntry, RotationFails
        <5>2. CASE pc'[r] \in {"commitQuery", "commit", "prune", "report"}
          BY <2>1, <5>2 DEF Edges, BeforeFailure, StageFiles, CommitQuery, CommitFile, Unstage
        <5> QED
          BY <3>2, <5>1, <5>2 DEF BeforeFailure
      <4> QED
        BY <3>2, <4>1, FailedSteps DEF Progress
    <3> QED
      BY <3>1, <3>2
  <2>5. pc'[r] = "commit" => /\ Content(r)'.query = r
                             /\ \A f \in run'[r].writes \ run'[r].todo : Content(r)'.files[f] = r
    <3>1. CASE CommitQuery(r)
      <4>1. pc[r] # "idle" /\ Writes(r, [Content(r) EXCEPT !.query = r])
            /\ run'[r].todo = run[r].writes
        BY <3>1, CommitQueryEffect DEF CommitQuery
      <4>2. Content(r)'.query = r
        BY <2>2, <2>3, <4>1 DEF Snapshot
      <4> QED
        BY <2>2, <4>1, <4>2
    <3>2. CASE CommitFile(r)
      <4>1. PICK f \in run[r].todo : Writes(r, [Content(r) EXCEPT !.files[f] = r])
                                    /\ run'[r].todo = run[r].todo \ {f}
        BY <3>2, CommitFileEffect
      <4>2. pc[r] = "commit"
        BY <3>2 DEF CommitFile
      <4>3. /\ Content(r)'.query = Content(r).query
            /\ \A g \in Files : Content(r)'.files[g] = IF g = f THEN r ELSE Content(r).files[g]
        BY <2>2, <2>3, <4>1, <4>2 DEF Snapshot
      <4> QED
        BY <2>2, <4>1, <4>2, <4>3 DEF Progress
    <3> QED
      BY <2>1, <3>1, <3>2 DEF Edges
  <2>6. pc'[r] = "prune" => /\ Content(r)'.query = r
                            /\ \A f \in run'[r].writes : Content(r)'.files[f] = r
    <3> SUFFICES ASSUME pc'[r] = "prune"
                 PROVE  /\ Content(r)'.query = r
                        /\ \A f \in run'[r].writes : Content(r)'.files[f] = r
      OBVIOUS
    <3>1. CommitFile(r) /\ pc[r] = "commit"
      BY <2>1 DEF Edges, CommitFile
    <3>2. PICK f \in run[r].todo : /\ Writes(r, [Content(r) EXCEPT !.files[f] = r])
                                  /\ Goto(r, IF run[r].todo = {f} THEN "prune" ELSE "commit")
      BY <3>1, CommitFileEffect
    <3>3. run[r].todo = {f}
      BY <3>2 DEF Goto, TypeOK
    <3>4. /\ Content(r)'.query = Content(r).query
          /\ \A g \in Files : Content(r)'.files[g] = IF g = f THEN r ELSE Content(r).files[g]
      BY <2>2, <2>3, <3>1, <3>2 DEF Snapshot
    <3> QED
      BY <2>2, <3>1, <3>3, <3>4 DEF Progress
  <2>7. pc'[r] = "unstage" /\ ~run'[r].failed => Complete(Content(r), r)'
    <3>1. CASE Prune(r)
      <4>1. pc[r] = "prune"
        BY <3>1 DEF Prune
      <4> DEFINE g == [f \in Files |-> IF f \in run[r].writes THEN Content(r).files[f] ELSE NoRun]
      <4>2. Writes(r, [Content(r) EXCEPT !.files = g])
        BY <3>1, PruneEffect
      <4>3. \A f \in Files : g[f] = IF f \in run[r].writes THEN r ELSE NoRun
        BY <4>1 DEF Progress
      <4> HIDE DEF g
      <4>4. Content(r)'.query = Content(r).query /\ Content(r)'.files = g
        BY <2>2, <2>3, <4>1, <4>2 DEF Snapshot
      <4> QED
        BY <2>2, <4>1, <4>3, <4>4 DEF Progress, Complete
    <3>2. CASE CommitFails(r)
      <4>1. pc[r] # "idle" /\ run' = [run EXCEPT ![r].failed = TRUE]
        BY <3>2 DEF CommitFails, Throw
      <4> QED
        BY <4>1, Started, SetFailed
    <3> QED
      BY <2>1, <3>1, <3>2 DEF Edges
  <2>8. pc'[r] = "report" => Complete(Content(r), r)'
    <3> SUFFICES ASSUME pc'[r] = "report" PROVE Complete(Content(r), r)'
      OBVIOUS
    <3>1. Unstage(r) /\ pc[r] = "unstage" /\ ~run[r].failed /\ folder' = folder
      BY <2>1 DEF Edges, Unstage, Goto, TypeOK, store
    <3> QED
      BY <2>2, <3>1 DEF Progress, Complete, Content, PathOf
  <2>9. pc'[r] = "unstage" /\ run'[r].failed => PathOf(r)' \in interrupted'
    <3>1. CASE Prune(r)
      BY <3>1 DEF Prune, Progress, BeforeFailure
    <3>2. CASE CommitFails(r)
      BY <2>2, <3>2 DEF CommitFails, LeaveHalfWritten
    <3> QED
      BY <2>1, <3>1, <3>2 DEF Edges
  <2> QED
    BY <2>4, <2>5, <2>6, <2>7, <2>8, <2>9 DEF Progress
<1> QED
  BY <1>2, <1>3, <1>4

LEMMA ProgressCorrect == Spec => []ProgressInv
<1>1. TypeOK /\ SlotExists /\ LocksOwned /\ ProgressInv /\ [Next]_vars => ProgressInv'
  <2> SUFFICES ASSUME TypeOK, SlotExists, LocksOwned, ProgressInv, [Next]_vars
               PROVE  ProgressInv'
    OBVIOUS
  <2>1. CASE Breaking \/ UNCHANGED vars
    BY <2>1, OtherStepTyped
       DEF ProgressInv, Progress, Complete, Idle, store, history, Content, PathOf
  <2>2. ASSUME NEW r \in Runs, Start(r) \/ Step(r) \/ Failure(r)
        PROVE  ProgressInv'
    BY <2>2, ProgressNext DEF ProgressInv
  <2> QED
    BY <2>1, <2>2, StepKinds
<1> QED
  BY <1>1, ProgressInit, TypeCorrect, LocksCorrect, PTL DEF Spec

-------------------------------------------------------------------------------
(* How the rewriting of a folder ends: with the report in place, or with   *)
(* the folder marked as interrupted.                                       *)
LEMMA RewritingEnds ==
  ASSUME TypeOK, NEW r \in Runs, Progress(r), Start(r) \/ Step(r) \/ Failure(r),
         pc[r] \in Rewriting, pc'[r] \notin Rewriting
  PROVE  WriteReport(r) \/ PathOf(r) \in interrupted'
<1> USE DEF Rewriting, Goto, TypeOK
<1>1. CASE Failure(r)
  <2>1. CASE RotationFails(r) \/ GiveUp(r) \/ WriteIndexFails(r)
    BY <2>1 DEF RotationFails, GiveUp, WriteIndexFails
  <2>2. CASE CommitFails(r)
    BY <2>2 DEF CommitFails, LeaveHalfWritten
  <2>3. CASE Crash(r)
    BY <2>3 DEF Crash
  <2> QED
    BY <1>1, <2>1, <2>2, <2>3 DEF Failure
<1>2. CASE Unstage(r)
  BY <1>2 DEF Unstage, Progress, history
<1>3. CASE MoveEntry(r) \/ StageFiles(r) \/ CommitQuery(r) \/ CommitFile(r) \/ Prune(r)
           \/ DownloadSettles(r)
  BY <1>3 DEF MoveEntry, StageFiles, CommitQuery, CommitFile, Prune, DownloadSettles
<1>4. ~Start(r)
  BY DEF Start, Begin
<1> QED
  BY <1>1, <1>2, <1>3, <1>4
     DEF Step, AcquireCache, AcquireIndex, PlanRotation, WriteTelemetrySidecar, ReadIndex,
         WriteIndex, ReleaseIndex, ReleaseCache, AwaitDownloads, FlushLlmsStaging, SettleDownloads,
         CacheSuggest, WriteLockedTelemetry, HasReport, ClearCacheArtefacts

(* What repairs an interrupted folder: a commit there, or a degraded exit  *)
(* that finds the folder unlisted or removes it from the index.            *)
Delists(r) ==
  /\ run[r].op = "degraded"
  /\ (ReadIndex(r) /\ index[PathOf(r)] = NoRun) \/ WriteIndex(r)

LEMMA Repairs ==
  ASSUME TypeOK, NEW r \in Runs, Start(r) \/ Step(r) \/ Failure(r),
         NEW q \in interrupted, q \notin interrupted'
  PROVE  q = PathOf(r) /\ (WriteReport(r) \/ Delists(r))
<1>1. CASE Start(r)
  BY <1>1 DEF Start, Begin, history
<1>2. CASE Failure(r)
  BY <1>2
     DEF Failure, GiveUp, RotationFails, CommitFails, WriteIndexFails, Crash, LeaveHalfWritten,
         history
<1>3. CASE WriteReport(r) \/ ReadIndex(r) \/ WriteIndex(r)
  BY <1>3 DEF WriteReport, ReadIndex, WriteIndex, Delists
<1> QED
  BY <1>1, <1>2, <1>3
     DEF Step, AcquireCache, AcquireIndex, PlanRotation, MoveEntry, StageFiles, CommitQuery,
         CommitFile, Prune, Unstage, WriteTelemetrySidecar, ReleaseIndex, ReleaseCache,
         DownloadSettles, AwaitDownloads, FlushLlmsStaging, SettleDownloads, CacheSuggest,
         WriteLockedTelemetry, HasReport, ClearCacheArtefacts, history

(* A folder is being rewritten, or was interrupted, or it is listed only   *)
(* with a report, and its report lies next to its own files.               *)
BeingRewritten(q) == \E r \in Runs : pc[r] \in Rewriting /\ PathOf(r) = q
Listed(q) == index[q] # NoRun => folder[q].content.report # NoRun
Coherent(q) ==
  \A r \in Runs : folder[q].content.report = r => Complete(folder[q].content, r)

FoldersSound ==
  \A q \in Paths : BeingRewritten(q) \/ q \in interrupted \/ (Listed(q) /\ Coherent(q))

(* After a step of run r the folder q is being rewritten or interrupted,   *)
(* or r wrote its report, or r does not rewrite q at all.                  *)
LEMMA RewritingNext ==
  ASSUME TypeOK, SlotExists, NEW r \in Runs, Start(r) \/ Step(r) \/ Failure(r), Progress(r),
         NEW q \in Paths
  PROVE  \/ BeingRewritten(q)' \/ q \in interrupted'
         \/ q = PathOf(r) /\ WriteReport(r)
         \/ /\ ~(pc[r] \in Rewriting /\ PathOf(r) = q) /\ ~(pc'[r] \in Rewriting /\ PathOf(r)' = q)
            /\ ~BeingRewritten(q)
<1>1. TypeOK' /\ Frame(r)
  BY RunStepTyped
<1>2. CASE pc[r] \in Rewriting /\ PathOf(r) = q
  <2>1. PathOf(r)' = PathOf(r)
    BY <1>1, <1>2 DEF Frame, TaskKept, Rewriting, PathOf
  <2> QED
    BY <1>2, <2>1, RewritingEnds DEF BeingRewritten
<1>3. CASE ~(pc[r] \in Rewriting /\ PathOf(r) = q)
  <2>1. BeingRewritten(q) => BeingRewritten(q)'
    BY <1>1, <1>3 DEF BeingRewritten, Frame, OthersKept, PathOf
  <2> QED
    BY <1>3, <2>1 DEF BeingRewritten
<1> QED
  BY <1>2, <1>3

LEMMA FoldersNext ==
  ASSUME TypeOK, SlotExists, ReportInv, ProgressInv, SnapshotKept, FoldersSound,
         NEW r \in Runs, Start(r) \/ Step(r) \/ Failure(r)
  PROVE  FoldersSound'
<1>1. TypeOK' /\ Frame(r)
  BY RunStepTyped
<1>2. ReportAt /\ CommitPlace(r) /\ Progress(r)
  BY DEF ReportInv, ProgressInv
<1>3. \A s \in Runs : pc[s] # "idle" => run'[s].writes = run[s].writes
  BY <1>1 DEF Frame, OthersKept, TaskKept
<1> SUFFICES ASSUME NEW q \in Paths, ~BeingRewritten(q)', q \notin interrupted'
             PROVE  Listed(q)' /\ Coherent(q)'
  BY DEF FoldersSound
<1>4. CASE q = PathOf(r) /\ WriteReport(r)
  <2>1. pc[r] = "report" /\ pc[r] # "idle"
    BY <1>4 DEF WriteReport
  <2>2. Content(r) \in Snapshot /\ folder'[q].content = [Content(r) EXCEPT !.report = r]
    BY <1>4, <2>1, Started, WriteReportEffect DEF Writes
  <2>3. /\ folder'[q].content.report = r /\ folder'[q].content.query = Content(r).query
        /\ folder'[q].content.files = Content(r).files
    BY <2>2 DEF Snapshot
  <2>4. Complete(folder[q].content, r)'
    BY <1>2, <1>3, <2>1, <2>3 DEF Progress, Complete
  <2> QED
    BY <2>3, <2>4, StoreAssumption DEF Listed, Coherent
<1>5. CASE /\ ~(pc[r] \in Rewriting /\ PathOf(r) = q) /\ ~(pc'[r] \in Rewriting /\ PathOf(r)' = q)
           /\ ~BeingRewritten(q)
  <2>1. CASE q \in interrupted
    <3>1. q = PathOf(r) /\ Delists(r)
      BY <1>5, <2>1, Repairs DEF WriteReport, Rewriting
    <3>2. pc[r] \in {"readIndex", "writeIndex"} /\ run[r].op = "degraded"
      BY <3>1 DEF Delists, ReadIndex, WriteIndex
    <3>3. folder[q].content.report = NoRun /\ BodyKept(q)
      BY <1>1, <1>2, <3>1, <3>2 DEF CommitPlace, Content, Frame, Writers
    <3>4. index'[q] = NoRun
      <4>1. CASE ReadIndex(r) /\ index[q] = NoRun
        BY <4>1 DEF ReadIndex, store
      <4>2. CASE WriteIndex(r)
        <5>1. run[r].snap \in Index
          BY <3>2, Started
        <5> QED
          BY <3>1, <3>2, <4>2, <5>1, WriteIndexEffect DEF Index
      <4> QED
        BY <3>1, <4>1, <4>2 DEF Delists
    <3> QED
      BY <3>3, <3>4, StoreAssumption DEF BodyKept, Listed, Coherent
  <2>2. CASE q \notin interrupted /\ pc[r] = "clear" /\ PathOf(r) = q
    <3>1. folder[q].content.report = NoRun
      BY <1>2, <2>2 DEF CommitPlace, Content
    <3>2. index[q] = NoRun
      BY <1>5, <2>2, <3>1 DEF FoldersSound, Listed
    <3>3. folder'[q].content.report = NoRun
      BY <2>2, <3>1, ReportSteps DEF WriteReport
    <3>4. index' = index
      BY <1>1, <2>2 DEF Frame
    <3> QED
      BY <3>2, <3>3, <3>4, StoreAssumption DEF Listed, Coherent
  <2>3. CASE q \notin interrupted /\ ~(pc[r] = "clear" /\ PathOf(r) = q)
    <3>1. BodyKept(q)
      BY <1>1, <1>5, <2>3 DEF Frame, Writers, Rewriting
    <3>2. Listed(q) /\ Coherent(q)
      BY <1>5, <2>3 DEF FoldersSound
    <3>3. Listed(q)'
      <4>1. CASE index'[q] \in {index[q], NoRun}
        BY <3>1, <3>2, <4>1 DEF Listed, BodyKept
      <4>2. CASE pc[r] = "writeIndex" /\ q = PathOf(r) /\ run[r].op # "degraded"
        BY <1>2, <3>1, <4>2, StoreAssumption DEF CommitPlace, Content, BodyKept, Listed
      <4> QED
        BY <1>1, <4>1, <4>2, IndexSteps
    <3>4. Coherent(q)'
      <4> SUFFICES ASSUME NEW s \in Runs, folder'[q].content.report = s
                   PROVE  Complete(folder[q].content, s)'
        BY DEF Coherent
      <4>1. folder[q].content.report = s /\ Complete(folder[q].content, s)
        BY <3>1, <3>2 DEF Coherent, BodyKept
      <4>2. run'[s].writes = run[s].writes
        BY <1>2, <1>3, <4>1 DEF ReportAt
      <4> QED
        BY <3>1, <4>1, <4>2 DEF Complete, BodyKept
    <3> QED
      BY <3>3, <3>4
  <2> QED
    BY <2>1, <2>2, <2>3
<1> QED
  BY <1>2, <1>4, <1>5, RewritingNext

LEMMA FoldersCorrect == Spec => []FoldersSound
<1>1. Init => FoldersSound
  BY StoreAssumption DEF Init, FoldersSound, Listed, Coherent, Empty
<1>2. TypeOK /\ SlotExists /\ ReportInv /\ ProgressInv /\ SnapshotKept /\ FoldersSound /\ [Next]_vars
        => FoldersSound'
  <2> SUFFICES ASSUME TypeOK, SlotExists, ReportInv, ProgressInv, SnapshotKept, FoldersSound,
                      [Next]_vars
               PROVE  FoldersSound'
    OBVIOUS
  <2>1. CASE Breaking \/ UNCHANGED vars
    BY <2>1, OtherStepTyped
       DEF FoldersSound, BeingRewritten, Listed, Coherent, Complete, Idle, store, history, PathOf
  <2>2. ASSUME NEW r \in Runs, Start(r) \/ Step(r) \/ Failure(r)
        PROVE  FoldersSound'
    BY <2>2, FoldersNext
  <2> QED
    BY <2>1, <2>2, StepKinds
<1> QED
  BY <1>1, <1>2, TypeCorrect, ReportCorrect, ProgressCorrect, SnapshotCorrect, PTL DEF Spec

(* Whoever takes a free lock finds a report next to exactly the files its  *)
(* run wrote, whatever errors and crashes there were before: a folder      *)
(* whose commit they interrupted stays marked until a run repairs it.      *)
THEOREM ReportsComplete == Spec => []ReportComplete
<1>1. TypeOK /\ LocksOwned /\ FoldersSound => ReportComplete
  BY StoreAssumption
     DEF LocksOwned, HoldsCache, FoldersSound, BeingRewritten, Coherent, Complete, ReportComplete
<1> QED
  BY <1>1, TypeCorrect, LocksCorrect, FoldersCorrect, PTL

(* Nor does it find a folder in the index that has no report, unless it is *)
(* so marked: neither a lost index entry of another folder nor a failed    *)
(* read of the index makes one.                                            *)
THEOREM ListedFoldersHaveReports == Spec => []ListedHasReport
<1>1. TypeOK /\ LocksOwned /\ FoldersSound => ListedHasReport
  BY StoreAssumption
     DEF LocksOwned, HoldsCache, FoldersSound, BeingRewritten, Listed, ListedHasReport
<1> QED
  BY <1>1, TypeCorrect, LocksCorrect, FoldersCorrect, PTL

-------------------------------------------------------------------------------
(* A run that listed its folder has passed the write of the index.         *)
PastIndex ==
  {"freeIndex", "freeCache", "await", "wantFlush", "flush", "freeFlush", "settle", "suggest",
   "wantMeta", "lastMeta", "freeMeta", "ended", "crashed"}

IndexedPlace == \A r \in indexed : pc[r] \in PastIndex /\ run[r].op # "degraded"

(* There is no way back. *)
LEMMA PastIndexStays ==
  ASSUME TypeOK, NEW r \in Runs, Start(r) \/ Step(r) \/ Failure(r),
         pc[r] \in PastIndex, run[r].op # "degraded"
  PROVE  pc'[r] \in PastIndex
<1> USE DEF PastIndex, Goto, TypeOK
<1>1. CASE Failure(r)
  BY <1>1
     DEF Failure, GiveUp, RotationFails, CommitFails, WriteIndexFails, Crash, Throw, AfterThrow
<1>2. CASE AcquireCache(r) \/ ReleaseIndex(r) \/ ReleaseCache(r)
  BY <1>2 DEF AcquireCache, Entered, ReleaseIndex, ReleaseCache
<1>3. CASE AwaitDownloads(r) \/ FlushLlmsStaging(r) \/ SettleDownloads(r) \/ CacheSuggest(r)
           \/ WriteLockedTelemetry(r) \/ DownloadSettles(r)
  BY <1>3
     DEF AwaitDownloads, FlushLlmsStaging, SettleDownloads, CacheSuggest, WriteLockedTelemetry,
         DownloadSettles, Throw
<1>4. ~Start(r)
  BY DEF Start, Begin
<1> QED
  BY <1>1, <1>2, <1>3, <1>4
     DEF Step, AcquireIndex, PlanRotation, MoveEntry, StageFiles, CommitQuery, CommitFile, Prune,
         Unstage, WriteReport, WriteTelemetrySidecar, ReadIndex, WriteIndex, HasReport,
         ClearCacheArtefacts

LEMMA IndexedPlaceNext ==
  ASSUME TypeOK, SlotExists, SnapshotKept, IndexedPlace,
         NEW r \in Runs, Start(r) \/ Step(r) \/ Failure(r)
  PROVE  IndexedPlace'
<1>1. TypeOK' /\ Frame(r)
  BY RunStepTyped
<1> SUFFICES ASSUME NEW s \in indexed'
             PROVE  pc'[s] \in PastIndex /\ run'[s].op # "degraded"
  BY DEF IndexedPlace
<1>2. s \in Runs
  BY <1>1 DEF TypeOK
<1>3. CASE s \in indexed /\ s # r
  BY <1>1, <1>2, <1>3 DEF IndexedPlace, Frame, OthersKept
<1>4. CASE s \in indexed /\ s = r
  BY <1>1, <1>4, PastIndexStays DEF IndexedPlace, Frame, TaskKept, PastIndex
<1>5. CASE s \notin indexed
  <2>1. s = r /\ WriteIndex(r) /\ run[r].op # "degraded"
    BY <1>1, <1>5, IndexSteps
  <2> QED
    BY <1>1, <2>1 DEF WriteIndex, Goto, TypeOK, PastIndex, Frame, TaskKept
<1> QED
  BY <1>3, <1>4, <1>5

LEMMA ListingKeptNext ==
  ASSUME "readIndex" \notin FaultyOps,
         TypeOK, SlotExists, ReportInv, SnapshotKept, IndexedPlace, ListingKept,
         NEW r \in Runs, Start(r) \/ Step(r) \/ Failure(r)
  PROVE  ListingKept'
<1>1. TypeOK' /\ Frame(r) /\ ReportAt'
  BY RunStepTyped, ReportAtNext DEF ReportInv
<1> SUFFICES ASSUME NEW q \in Paths, NEW s \in indexed', folder'[q].content.report = s
             PROVE  index'[q] = s
  BY DEF ListingKept
<1>2. s \in Runs
  BY <1>1 DEF TypeOK
<1>3. CASE s \notin indexed
  <2>1. s = r /\ pc[r] = "writeIndex" /\ index'[PathOf(r)] = r
    BY <1>1, <1>3, IndexSteps
  <2>2. PathOf(r) = q
    BY <1>1, <2>1 DEF ReportAt, PathOf, Frame, TaskKept
  <2> QED
    BY <2>1, <2>2
<1>4. CASE s \in indexed
  <2>1. folder[q].content.report = s
    <3>1. ~(WriteReport(r) /\ s = r)
      BY <1>4 DEF WriteReport, IndexedPlace, PastIndex
    <3> QED
      BY <1>2, <3>1, ReportSteps, StoreAssumption
  <2>2. index[q] = s
    BY <1>4, <2>1 DEF ListingKept
  <2>3. CASE index' = index
    BY <2>2, <2>3
  <2>4. CASE /\ pc[r] = "writeIndex"
             /\ index' = [index EXCEPT ![PathOf(r)] = IF run[r].op = "degraded" THEN NoRun ELSE r]
    <3>1. PathOf(r) # q
      <4>1. Content(r).report \in {NoRun, r}
        BY <2>4 DEF ReportInv, CommitPlace
      <4>2. s # r
        BY <1>4, <2>4 DEF IndexedPlace, PastIndex
      <4> QED
        BY <1>2, <2>1, <4>1, <4>2, StoreAssumption DEF Content
    <3> QED
      BY <2>2, <2>4, <3>1 DEF TypeOK, Index
  <2> QED
    BY <1>1, <2>3, <2>4, IndexSteps
<1> QED
  BY <1>3, <1>4

LEMMA IndexedCorrect == Spec => []IndexedPlace
<1>1. Init => IndexedPlace
  BY DEF Init, IndexedPlace
<1>2. TypeOK /\ SlotExists /\ SnapshotKept /\ IndexedPlace /\ [Next]_vars => IndexedPlace'
  <2> SUFFICES ASSUME TypeOK, SlotExists, SnapshotKept, IndexedPlace, [Next]_vars
               PROVE  IndexedPlace'
    OBVIOUS
  <2>1. CASE Breaking \/ UNCHANGED vars
    BY <2>1, OtherStepTyped DEF IndexedPlace, Idle, history
  <2> QED
    BY <2>1, IndexedPlaceNext, StepKinds
<1> QED
  BY <1>1, <1>2, TypeCorrect, SnapshotCorrect, PTL DEF Spec

(* No run loses another's entry: the index is read and written back under  *)
(* one lock.  The index must not have failed to be read; updateIndex       *)
(* starts a new one then.                                                  *)
THEOREM ListingsKept ==
  ASSUME "readIndex" \notin FaultyOps
  PROVE  Spec => []ListingKept
<1>1. Init => ListingKept
  BY DEF Init, ListingKept
<1>2. TypeOK /\ SlotExists /\ ReportInv /\ SnapshotKept /\ IndexedPlace /\ ListingKept /\ [Next]_vars
        => ListingKept'
  <2> SUFFICES ASSUME TypeOK, SlotExists, ReportInv, SnapshotKept, IndexedPlace, ListingKept,
                      [Next]_vars
               PROVE  ListingKept'
    OBVIOUS
  <2>1. CASE Breaking \/ UNCHANGED vars
    BY <2>1, OtherStepTyped DEF ListingKept, Idle, store, history
  <2> QED
    BY <2>1, ListingKeptNext, StepKinds
<1> QED
  BY <1>1, <1>2, TypeCorrect, ReportCorrect, SnapshotCorrect, IndexedCorrect, PTL DEF Spec

(* The read-modify-write of the index is one atomic update of one entry:   *)
(* every step that changes the index lists or removes the folder of one    *)
(* run in the index as it is on disk.                                      *)
IndexAtomic ==
  [][\E r \in Runs :
       index' = [index EXCEPT ![PathOf(r)] = IF run[r].op = "degraded" THEN NoRun ELSE r]]_index

THEOREM IndexIsAtomic ==
  ASSUME "readIndex" \notin FaultyOps
  PROVE  Spec => IndexAtomic
<1>1. TypeOK /\ SlotExists /\ SnapshotKept /\ [Next]_vars
        => [\E r \in Runs : index' = [index EXCEPT ![PathOf(r)] =
                                        IF run[r].op = "degraded" THEN NoRun ELSE r]]_index
  <2> SUFFICES ASSUME TypeOK, SlotExists, SnapshotKept, [Next]_vars, index' # index
               PROVE  \E r \in Runs : index' = [index EXCEPT ![PathOf(r)] =
                                                  IF run[r].op = "degraded" THEN NoRun ELSE r]
    OBVIOUS
  <2>1. PICK r \in Runs : Start(r) \/ Step(r) \/ Failure(r)
    BY OtherStepTyped, StepKinds DEF Idle, store
  <2>2. Frame(r)
    BY <2>1, RunStepTyped
  <2> QED
    BY <2>1, <2>2, IndexSteps
<1> QED
  BY <1>1, TypeCorrect, SnapshotCorrect, PTL DEF Spec, IndexAtomic

-------------------------------------------------------------------------------
(* Who wrote what a snapshot holds, sidecar and downloads left out. *)
WrittenBy(c, w) ==
  /\ {c.report, c.query} \subseteq {w, NoRun}
  /\ \A f \in Files : c.files[f] \in {w, NoRun}

LEMMA OneWriterIs ==
  ASSUME NEW c PROVE OneWriter(c) <=> \E w \in Runs \cup {NoRun} : WrittenBy(c, w)
BY DEF OneWriter, WrittenBy

LEMMA EmptyWritten == ASSUME NEW w PROVE WrittenBy(Empty, w) /\ Empty.report = NoRun
BY DEF WrittenBy, Empty, NoFiles

(* Moving an entry between two snapshots of one writer keeps both its.     *)
LEMMA TakeWritten ==
  ASSUME NEW c \in Snapshot, NEW d \in Snapshot, NEW e \in Entries \cup Files, NEW w,
         WrittenBy(c, w), WrittenBy(d, w)
  PROVE  WrittenBy(Take(c, e, d), w)
<1> USE DEF Take, Snapshot, WrittenBy
<1>1. CASE e = "report"
  BY <1>1
<1>2. CASE e = "query"
  BY <1>2
<1>3. CASE e = "meta"
  BY <1>3
<1>4. CASE e = "extractions"
  BY <1>4
<1>5. CASE e \notin {"report", "query", "meta", "extractions"}
  BY <1>5 DEF Entries, Files
<1> QED
  BY <1>1, <1>2, <1>3, <1>4, <1>5

LEMMA TakeReport ==
  ASSUME NEW c \in Snapshot, NEW d \in Snapshot, NEW e \in Entries \cup Files
  PROVE  Take(c, e, d).report = IF e = "report" THEN d.report ELSE c.report
<1> USE DEF Take, Snapshot
<1>1. CASE e \in {"report", "query", "meta"}
  BY <1>1
<1>2. CASE e = "extractions"
  BY <1>2
<1>3. CASE e \notin {"report", "query", "meta", "extractions"}
  BY <1>3 DEF Entries, Files
<1> QED
  BY <1>1, <1>2, <1>3

(* Which entries there are to move. *)
LEMMA MovableIs ==
  ASSUME NEW c \in Snapshot, NEW x
  PROVE  x \in Movable(c) <=>
           \/ x = "report" /\ c.report # NoRun
           \/ x = "query" /\ c.query # NoRun
           \/ x = "meta" /\ c.meta # NoMeta
           \/ x = "extractions" /\ \E f \in ExtFiles : c.files[f] # NoRun
           \/ x \in SrcFiles /\ c.files[x] # NoRun
<1>1. x = "report" => c[x] = c.report
  BY DEF Snapshot
<1>2. x = "query" => c[x] = c.query
  BY DEF Snapshot
<1> QED
  BY <1>1, <1>2 DEF Movable, ExtOf

(* Moving an entry away leaves exactly the others to move. *)
LEMMA MovableTake ==
  ASSUME NEW c \in Snapshot, NEW e \in Movable(c)
  PROVE  Movable(Take(c, e, Empty)) = Movable(c) \ {e}
<1> DEFINE d == Take(c, e, Empty)
<1>1. e \in Entries
  BY MovableTyped
<1>2. d \in Snapshot
  BY <1>1, EmptyTyped, TakeTyped
<1>3. /\ d.report = IF e = "report" THEN NoRun ELSE c.report
      /\ d.query = IF e = "query" THEN NoRun ELSE c.query
      /\ d.meta = IF e = "meta" THEN NoMeta ELSE c.meta
      /\ \A f \in Files : d.files[f] =
           IF (e = f /\ e \in SrcFiles) \/ (e = "extractions" /\ f \in ExtFiles)
             THEN NoRun ELSE c.files[f]
  <2> USE StoreAssumption DEF Take, Snapshot, Empty, NoFiles
  <2>1. CASE e \in {"report", "query", "meta"}
    BY <2>1
  <2>2. CASE e = "extractions"
    BY <2>2
  <2>3. CASE e \notin {"report", "query", "meta", "extractions"}
    <3>1. e \in SrcFiles /\ e \in Files /\ e \notin ExtFiles
      BY <1>1, <2>3 DEF Entries, Files
    <3>2. d = [c EXCEPT !.files[e] = NoRun]
      BY <2>3, <3>1
    <3>3. /\ d.report = c.report /\ d.query = c.query /\ d.meta = c.meta
          /\ d.files = [c.files EXCEPT ![e] = NoRun] /\ c.files \in [Files -> Runs \cup {NoRun}]
      BY <3>2
    <3> HIDE DEF d
    <3>4. \A f \in Files : d.files[f] = IF f = e THEN NoRun ELSE c.files[f]
      BY <3>1, <3>3
    <3> QED
      BY <2>3, <3>1, <3>3, <3>4
  <2> QED
    BY <2>1, <2>2, <2>3
<1> HIDE DEF d
<1>4. ASSUME NEW x
      PROVE  x \in Movable(d) <=> x \in Movable(c) \ {e}
  <2> USE <1>1, <1>2, <1>3, StoreAssumption, MovableIs
  <2>1. CASE x \in {"report", "query", "meta"}
    BY <2>1
  <2>2. CASE x = "extractions"
    BY <2>2 DEF Files
  <2>3. CASE x \in SrcFiles
    <3>1. x \notin {"report", "query", "meta", "extractions"} /\ x \notin ExtFiles /\ x \in Files
      BY <2>3 DEF Files
    <3>2. d.files[x] = IF x = e THEN NoRun ELSE c.files[x]
      <4>1. CASE x = e
        BY <2>3, <3>1, <4>1
      <4>2. CASE x # e
        BY <2>3, <3>1, <4>2
      <4> QED
        BY <4>1, <4>2
    <3> QED
      BY <2>3, <3>1, <3>2
  <2> QED
    BY <2>1, <2>2, <2>3
<1> QED
  BY <1>4 DEF d

(* A folder with nothing to move is bare. *)
LEMMA NothingMovable ==
  ASSUME NEW c \in Snapshot, Movable(c) = {}
  PROVE  WrittenBy(c, NoRun)
BY MovableIs DEF WrittenBy, Files

-------------------------------------------------------------------------------
(* The archives: a step of run r adds an empty one, or moves one entry     *)
(* into the one it made.                                                   *)
LEMMA ArchiveSteps ==
  ASSUME TypeOK, SlotExists, NEW r \in Runs, Start(r) \/ Step(r) \/ Failure(r), NEW q \in Paths
  PROVE  /\ \A i \in DOMAIN archives[q] :
              /\ i \in DOMAIN archives'[q]
              /\ \/ archives'[q][i] = archives[q][i]
                 \/ q = PathOf(r) /\ MoveEntry(r) /\ i = run[r].slot
         /\ \A i \in DOMAIN archives'[q] \ DOMAIN archives[q] :
              archives'[q][i] = Empty
<1>1. CASE UNCHANGED archives \/ archives'[q] = archives[q]
  BY <1>1
<1>2. CASE PlanRotation(r) /\ archives' # archives
  <2>1. PathOf(r) \in Paths
    BY <1>2, Started DEF PlanRotation
  <2>2. archives' = [archives EXCEPT ![PathOf(r)] = Append(archives[PathOf(r)], Empty)]
    BY <1>2, PlanRotationEffect
  <2>3. CASE q = PathOf(r)
    <3>1. Len(archives[q]) \in Nat
      BY LenProperties DEF TypeOK
    <3> QED
      BY <2>1, <2>2, <2>3, <3>1, PlanArchives
  <2> QED
    BY <1>1, <2>1, <2>2, <2>3, PlanArchives
<1>3. CASE MoveEntry(r)
  <2>1. PathOf(r) \in Paths /\ run[r].slot \in DOMAIN archives[PathOf(r)] /\ Content(r) \in Snapshot
    BY <1>3, Started DEF MoveEntry, SlotExists
  <2>2. PICK e \in Entries \cup Files :
          archives' = [archives EXCEPT ![PathOf(r)][run[r].slot] = Take(@, e, Content(r))]
    BY <1>3, MoveEntryEffect
  <2> QED
    BY <1>1, <1>3, <2>1, <2>2, MoveArchives
<1> QED
  BY <1>1, <1>2, <1>3, ControlFlow

(* What a move does to the folder and to the archive, given that the       *)
(* entries it still has to do are the movable ones of the folder.          *)
LEMMA MoveBoth ==
  ASSUME TypeOK, SlotExists, NEW r \in Runs, MoveEntry(r), run[r].todo = Movable(Content(r))
  PROVE  \E e \in Movable(Content(r)) :
           /\ e \in Entries
           /\ Content(r) \in Snapshot /\ archives[PathOf(r)][run[r].slot] \in Snapshot
           /\ folder'[PathOf(r)].content = Take(Content(r), e, Empty)
           /\ archives'[PathOf(r)][run[r].slot]
                = Take(archives[PathOf(r)][run[r].slot], e, Content(r))
           /\ Movable(folder'[PathOf(r)].content) = Movable(Content(r)) \ {e}
           /\ run'[r].todo = Movable(Content(r)) \ {e}
           /\ run'[r].slot = run[r].slot /\ run'[r].path = run[r].path
           /\ Goto(r, IF Movable(Content(r)) = {e} THEN "stage" ELSE "move")
<1>1. /\ PathOf(r) \in Paths /\ run[r].slot \in DOMAIN archives[PathOf(r)]
      /\ Content(r) \in Snapshot
  BY Started DEF MoveEntry, SlotExists
<1>2. PICK e \in run[r].todo :
        /\ Writes(r, Take(Content(r), e, Empty))
        /\ archives' = [archives EXCEPT ![PathOf(r)][run[r].slot] = Take(@, e, Content(r))]
        /\ LocalsUpdated(r)
        /\ run'[r].todo = run[r].todo \ {e} /\ run'[r].slot = run[r].slot
        /\ Goto(r, IF run[r].todo = {e} THEN "stage" ELSE "move")
  BY MoveEntryEffect
<1>3. e \in Entries
  BY MovableTyped
<1>4. folder'[PathOf(r)].content = Take(Content(r), e, Empty) /\ run'[r].path = run[r].path
  BY <1>2 DEF Writes, LocalsUpdated, TaskKept
<1>5. /\ archives[PathOf(r)][run[r].slot] \in Snapshot
      /\ archives'[PathOf(r)][run[r].slot]
           = Take(archives[PathOf(r)][run[r].slot], e, Content(r))
  BY <1>1, <1>2, <1>3, MoveArchives
<1>6. Movable(Take(Content(r), e, Empty)) = Movable(Content(r)) \ {e}
  BY <1>1, <1>2, MovableTake
<1> QED
  BY <1>1, <1>2, <1>3, <1>4, <1>5, <1>6

-------------------------------------------------------------------------------
(* What the places of a rotation and a commit say of the run's folder: the *)
(* entries still to move are all that is left, what is left and what has   *)
(* been moved are of one writer, and from then on the folder is bare but   *)
(* for what the run itself has renamed into place.                         *)
Archive(r) == archives[PathOf(r)][run[r].slot]
Moving(r) ==
  /\ run[r].todo = Movable(Content(r))
  /\ \E w \in Runs \cup {NoRun} : WrittenBy(Content(r), w) /\ WrittenBy(Archive(r), w)
  /\ Content(r).report # NoRun => Archive(r).report = NoRun

RotationPlace(r) ==
  /\ pc[r] = "move" => Moving(r)
  /\ pc[r] \in {"stage", "commitQuery"} => WrittenBy(Content(r), NoRun)
  /\ pc[r] \in {"commit", "prune", "unstage", "report"} =>
       Content(r).report = NoRun /\ WrittenBy(Content(r), r)

RotationInv == NeverMixed /\ \A r \in Runs : RotationPlace(r)

(* The commit steps of run r keep its folder of one writer. *)
LEMMA CommitWritten ==
  ASSUME TypeOK, NEW r \in Runs, NEW w \in {r, NoRun}, WrittenBy(Content(r), w),
         CommitQuery(r) \/ CommitFile(r) \/ Prune(r) \/ WriteReport(r)
  PROVE  /\ WrittenBy(folder'[PathOf(r)].content, r)
         /\ ~WriteReport(r) => folder'[PathOf(r)].content.report = Content(r).report
<1>1. Content(r) \in Snapshot
  BY Started DEF CommitQuery, CommitFile, Prune, WriteReport
<1> USE <1>1 DEF WrittenBy, Writes, Snapshot
<1>2. CASE CommitQuery(r)
  <2>1. folder'[PathOf(r)].content = [Content(r) EXCEPT !.query = r]
    BY <1>2, CommitQueryEffect
  <2> QED
    BY <2>1
<1>3. CASE CommitFile(r)
  <2>1. PICK f : folder'[PathOf(r)].content = [Content(r) EXCEPT !.files[f] = r]
    BY <1>3, CommitFileEffect
  <2> QED
    BY <2>1
<1>4. CASE Prune(r)
  <2> DEFINE g == [f \in Files |-> IF f \in run[r].writes THEN Content(r).files[f] ELSE NoRun]
  <2>1. folder'[PathOf(r)].content = [Content(r) EXCEPT !.files = g]
    BY <1>4, PruneEffect
  <2>2. \A f \in Files : g[f] \in {r, NoRun}
    OBVIOUS
  <2> HIDE DEF g
  <2> QED
    BY <2>1, <2>2
<1>5. CASE WriteReport(r)
  <2>1. folder'[PathOf(r)].content = [Content(r) EXCEPT !.report = r]
    BY <1>5, WriteReportEffect
  <2>2. WrittenBy(folder'[PathOf(r)].content, r)
    BY <2>1
  <2> QED
    BY <1>5, <2>2 DEF WriteReport, CommitQuery, CommitFile, Prune
<1> QED
  BY <1>2, <1>3, <1>4, <1>5

LEMMA NeverMixedNext ==
  ASSUME TypeOK, SlotExists, RotationInv, NEW r \in Runs, Start(r) \/ Step(r) \/ Failure(r)
  PROVE  NeverMixed'
<1>1. TypeOK' /\ Frame(r)
  BY RunStepTyped
<1>2. NeverMixed /\ RotationPlace(r)
  BY DEF RotationInv
<1> SUFFICES ASSUME NEW q \in Paths
             PROVE  /\ OneWriter(folder'[q].content)
                    /\ \A i \in DOMAIN archives'[q] : OneWriter(archives'[q][i])
  BY DEF NeverMixed, OneWriter
<1>3. CASE MoveEntry(r) /\ PathOf(r) = q
  <2>1. Moving(r) /\ pc[r] # "idle"
    BY <1>2, <1>3 DEF MoveEntry, RotationPlace
  <2>2. PICK w \in Runs \cup {NoRun} : WrittenBy(Content(r), w) /\ WrittenBy(Archive(r), w)
    BY <2>1 DEF Moving
  <2>3. PICK e \in Entries :
          /\ Content(r) \in Snapshot /\ Archive(r) \in Snapshot
          /\ folder'[q].content = Take(Content(r), e, Empty)
          /\ archives'[q][run[r].slot] = Take(Archive(r), e, Content(r))
    BY <1>3, <2>1, MoveBoth DEF Archive, Moving
  <2>4. WrittenBy(folder'[q].content, w) /\ WrittenBy(archives'[q][run[r].slot], w)
    BY <2>2, <2>3, EmptyTyped, EmptyWritten, TakeWritten
  <2>5. ASSUME NEW i \in DOMAIN archives'[q], i # run[r].slot
        PROVE  OneWriter(archives'[q][i])
    BY <1>2, <2>5, ArchiveSteps, EmptyWritten, OneWriterIs DEF NeverMixed
  <2> QED
    BY <2>4, <2>5, OneWriterIs
<1>4. CASE ~(MoveEntry(r) /\ PathOf(r) = q)
  <2>1. \A i \in DOMAIN archives'[q] : OneWriter(archives'[q][i])
    BY <1>2, <1>4, ArchiveSteps, EmptyWritten, OneWriterIs DEF NeverMixed
  <2>2. CASE BodyKept(q)
    BY <1>2, <2>1, <2>2 DEF BodyKept, NeverMixed, OneWriter
  <2>3. CASE /\ CommitQuery(r) \/ CommitFile(r) \/ Prune(r) \/ WriteReport(r)
             /\ PathOf(r) = q
    <3>1. \E w \in {r, NoRun} : WrittenBy(Content(r), w)
      BY <1>2, <2>3 DEF CommitQuery, CommitFile, Prune, WriteReport, RotationPlace
    <3>2. WrittenBy(folder'[q].content, r)
      BY <2>3, <3>1, CommitWritten
    <3> QED
      BY <2>1, <3>2, OneWriterIs
  <2>4. CASE ClearCacheArtefacts(r) /\ PathOf(r) = q
    <3>1. PICK w \in Runs \cup {NoRun} : WrittenBy(folder[q].content, w)
      BY <1>2, OneWriterIs DEF NeverMixed
    <3>2. WrittenBy(folder'[q].content, w)
      BY <2>4, <3>1, ClearEffect DEF WrittenBy, Writes, Content
    <3> QED
      BY <2>1, <3>1, <3>2, OneWriterIs
  <2>5. BodyKept(q) \/ (PathOf(r) = q /\ pc[r] \in Writers)
    BY <1>1 DEF Frame
  <2>6. UNCHANGED folder \/ (\A p \in Paths : folder'[p].content = folder[p].content) => BodyKept(q)
    BY DEF BodyKept
  <2>7. pc[r] \in Writers =>
          ~WriteTelemetrySidecar(r) /\ ~FlushLlmsStaging(r) /\ ~WriteLockedTelemetry(r)
    BY DEF Writers, WriteTelemetrySidecar, FlushLlmsStaging, WriteLockedTelemetry
  <2> QED
    BY <1>4, <2>1, <2>2, <2>3, <2>4, <2>5, <2>6, <2>7, FolderSteps
<1> QED
  BY <1>3, <1>4

(* Not even the sidecar of a folder changes under the run that holds its   *)
(* lock.                                                                   *)
LEMMA ContentKept ==
  ASSUME TypeOK, LocksOwned, NEW r \in Runs, Start(r) \/ Step(r) \/ Failure(r),
         NEW s \in Runs, s # r, pc[s] \in HoldsCache
  PROVE  folder'[PathOf(s)].content = folder[PathOf(s)].content
<1>1. PathOf(s) \in Paths /\ (pc[r] \in HoldsCache => PathOf(r) # PathOf(s))
  BY Started DEF LocksOwned, HoldsCache, HoldsIndex, Rewriting
<1>2. ASSUME NEW c, Writes(r, c), pc[r] \in HoldsCache
      PROVE  folder'[PathOf(s)].content = folder[PathOf(s)].content
  BY <1>1, <1>2 DEF Writes
<1>3. CASE MoveEntry(r) \/ CommitQuery(r) \/ CommitFile(r) \/ Prune(r) \/ WriteReport(r)
  <2>1. pc[r] \in HoldsCache
    BY <1>3 DEF MoveEntry, CommitQuery, CommitFile, Prune, WriteReport, HoldsCache, Rewriting
  <2> QED
    BY <1>2, <1>3, <2>1, MoveEntryEffect, CommitQueryEffect, CommitFileEffect, PruneEffect,
       WriteReportEffect
<1>4. CASE WriteTelemetrySidecar(r) \/ WriteLockedTelemetry(r)
  <2>1. pc[r] \in HoldsCache /\ pc[r] # "idle"
    BY <1>4 DEF WriteTelemetrySidecar, WriteLockedTelemetry, HoldsCache
  <2>2. (\E c : Writes(r, c)) \/ UNCHANGED folder
    BY <1>4, <2>1, WriteMetaEffect DEF WriteTelemetrySidecar, WriteLockedTelemetry, Outcome
  <2> QED
    BY <1>2, <2>1, <2>2
<1>5. CASE FlushLlmsStaging(r) \/ ClearCacheArtefacts(r)
  <2>1. pc[r] \in HoldsCache
    BY <1>5 DEF FlushLlmsStaging, ClearCacheArtefacts, HoldsCache
  <2> QED
    BY <1>2, <1>5, <2>1, FlushEffect, ClearEffect
<1> QED
  BY <1>1, <1>3, <1>4, <1>5, FolderSteps

LEMMA RotationPlaceNext ==
  ASSUME "rotate" \notin FaultyOps,
         TypeOK, SlotExists, LocksOwned, NeverMixed,
         NEW r \in Runs, Start(r) \/ Step(r) \/ Failure(r), NEW s \in Runs, RotationPlace(s)
  PROVE  RotationPlace(s)'
<1>1. TypeOK' /\ Frame(r)
  BY RunStepTyped
<1>2. CASE s # r
  <2>1. CASE pc[s] \in HoldsCache
    <3>1. /\ pc'[s] = pc[s] /\ run'[s] = run[s]
          /\ folder'[run[s].path].content = folder[run[s].path].content
          /\ archives'[run[s].path] = archives[run[s].path]
      BY <1>1, <1>2, <2>1, Undisturbed, ContentKept DEF PathOf
    <3> QED
      BY <3>1 DEF RotationPlace, Moving, Archive, Content, PathOf
  <2>2. CASE pc[s] \notin HoldsCache
    BY <1>1, <1>2, <2>2 DEF RotationPlace, Frame, HoldsCache, Rewriting
  <2> QED
    BY <2>1, <2>2
<1>3. CASE s = r /\ DownloadSettles(r)
  <2>1. /\ pc' = pc /\ run'[r].todo = run[r].todo /\ run'[r].slot = run[r].slot
        /\ run'[r].path = run[r].path /\ folder' = folder /\ archives' = archives
    BY <1>3, SettlingKeeps DEF RotationKept, TaskKept, store
  <2> QED
    BY <1>3, <2>1 DEF RotationPlace, Moving, Archive, Content, PathOf
<1>4. CASE s = r /\ ~DownloadSettles(r)
  <2> USE <1>4
  <2>1. Edges(r)
    BY ControlFlow
  <2>2. pc[r] # "idle" => PathOf(r)' = PathOf(r) /\ PathOf(r) \in Paths /\ Content(r) \in Snapshot
    BY <1>1, Started DEF Frame, TaskKept, PathOf
  <2>3. ~RotationFails(r)
    BY DEF RotationFails, Fault
  <2>4. pc'[r] = "move" => Moving(r)'
    <3> SUFFICES ASSUME pc'[r] = "move" PROVE Moving(r)'
      OBVIOUS
    <3>1. CASE PlanRotation(r)
      <4>1. pc[r] # "idle" /\ folder' = folder
        BY <3>1 DEF PlanRotation
      <4>2. /\ run'[r].todo = Movable(Content(r))
            /\ run'[r].slot = Len(archives[PathOf(r)]) + 1
            /\ archives' = [archives EXCEPT ![PathOf(r)] = Append(archives[PathOf(r)], Empty)]
        BY <3>1, PlanRotationEffect DEF Goto, TypeOK
      <4>3. Content(r)' = Content(r) /\ Archive(r)' = Empty
        BY <2>2, <4>1, <4>2, PlanArchives DEF Content, Archive
      <4>4. PICK w \in Runs \cup {NoRun} : WrittenBy(Content(r), w)
        BY <2>2, <4>1, OneWriterIs DEF NeverMixed, Content
      <4> QED
        BY <4>2, <4>3, <4>4, EmptyWritten DEF Moving
    <3>2. CASE MoveEntry(r)
      <4>1. Moving(r) /\ pc[r] # "idle"
        BY <3>2 DEF MoveEntry, RotationPlace
      <4>2. PICK e \in Entries :
              /\ Content(r) \in Snapshot /\ Archive(r) \in Snapshot
              /\ folder'[PathOf(r)].content = Take(Content(r), e, Empty)
              /\ archives'[PathOf(r)][run[r].slot] = Take(Archive(r), e, Content(r))
              /\ Movable(folder'[PathOf(r)].content) = Movable(Content(r)) \ {e}
              /\ run'[r].todo = Movable(Content(r)) \ {e} /\ run'[r].slot = run[r].slot
        BY <3>2, <4>1, MoveBoth DEF Moving, Archive
      <4>3. Content(r)' = Take(Content(r), e, Empty) /\ Archive(r)' = Take(Archive(r), e, Content(r))
        BY <2>2, <4>1, <4>2 DEF Content, Archive
      <4>4. run'[r].todo = Movable(Content(r)')
        BY <2>2, <4>1, <4>2 DEF Content
      <4>5. PICK w \in Runs \cup {NoRun} : WrittenBy(Content(r), w) /\ WrittenBy(Archive(r), w)
        BY <4>1 DEF Moving
      <4>6. WrittenBy(Content(r)', w) /\ WrittenBy(Archive(r)', w)
        BY <4>2, <4>3, <4>5, EmptyTyped, EmptyWritten, TakeWritten
      <4>7. Content(r)'.report # NoRun => Archive(r)'.report = NoRun
        BY <4>1, <4>2, <4>3, EmptyTyped, EmptyWritten, TakeReport DEF Moving
      <4>8. Movable(Content(r))' = Movable(Content(r)')
        BY DEF Movable, ExtOf
      <4> QED
        BY <4>4, <4>6, <4>7, <4>8 DEF Moving, WrittenBy
    <3> QED
      BY <2>1, <3>1, <3>2 DEF Edges
  <2>5. pc'[r] \in {"stage", "commitQuery"} => WrittenBy(Content(r), NoRun)'
    <3> SUFFICES ASSUME pc'[r] \in {"stage", "commitQuery"} PROVE WrittenBy(Content(r)', NoRun)
      BY DEF WrittenBy
    <3>1. CASE PlanRotation(r)
      <4>1. pc[r] # "idle" /\ folder' = folder
        BY <3>1 DEF PlanRotation
      <4>2. Movable(Content(r)) = {}
        BY <3>1, PlanRotationEffect DEF Goto, TypeOK
      <4> QED
        BY <2>2, <4>1, <4>2, NothingMovable DEF Content
    <3>2. CASE MoveEntry(r)
      <4>1. Moving(r) /\ pc[r] # "idle"
        BY <3>2 DEF MoveEntry, RotationPlace
      <4>2. Movable(folder'[PathOf(r)].content) = {}
        BY <3>2, <4>1, MoveBoth DEF Moving, Goto, TypeOK
      <4>3. folder'[PathOf(r)].content \in Snapshot
        BY <1>1, <2>2, <4>1 DEF TypeOK, Folder
      <4> QED
        BY <2>2, <4>1, <4>2, <4>3, NothingMovable DEF Content
    <3>3. CASE StageFiles(r)
      BY <2>2, <3>3 DEF StageFiles, RotationPlace, Content, store
    <3> QED
      BY <2>1, <2>3, <3>1, <3>2, <3>3 DEF Edges
  <2>6. pc'[r] \in {"commit", "prune", "unstage", "report"} =>
          Content(r)'.report = NoRun /\ WrittenBy(Content(r), r)'
    <3> SUFFICES ASSUME pc'[r] \in {"commit", "prune", "unstage", "report"}
                 PROVE  Content(r)'.report = NoRun /\ WrittenBy(Content(r)', r)
      BY DEF WrittenBy
    <3>1. CASE CommitQuery(r) \/ CommitFile(r) \/ Prune(r)
      <4>1. /\ pc[r] # "idle" /\ Content(r).report = NoRun /\ ~WriteReport(r)
            /\ \E w \in {r, NoRun} : WrittenBy(Content(r), w)
        BY <3>1 DEF CommitQuery, CommitFile, Prune, WriteReport, RotationPlace, WrittenBy
      <4> QED
        BY <2>2, <3>1, <4>1, CommitWritten DEF Content
    <3>2. CASE Unstage(r)
      BY <2>2, <3>2 DEF Unstage, RotationPlace, Content, store
    <3>3. CASE CommitFails(r)
      <4>1. pc[r] \in {"stage", "commitQuery", "commit", "prune"} /\ folder' = folder
        BY <3>3 DEF CommitFails, Throw, Goto, TypeOK, store
      <4> QED
        BY <2>2, <4>1 DEF RotationPlace, WrittenBy, Content
    <3> QED
      BY <2>1, <3>1, <3>2, <3>3 DEF Edges
  <2> QED
    BY <2>4, <2>5, <2>6 DEF RotationPlace
<1> QED
  BY <1>2, <1>3, <1>4

LEMMA RotationCorrect ==
  ASSUME "rotate" \notin FaultyOps
  PROVE  Spec => []RotationInv
<1>1. Init => RotationInv
  <2>1. Init => /\ \A q \in Paths : folder[q].content = Empty /\ DOMAIN archives[q] = {}
                /\ \A r \in Runs : pc[r] = "idle"
    BY DEF Init
  <2>2. OneWriter(Empty)
    BY EmptyWritten, OneWriterIs
  <2> QED
    BY <2>1, <2>2 DEF RotationInv, NeverMixed, RotationPlace
<1>2. TypeOK /\ SlotExists /\ LocksOwned /\ RotationInv /\ [Next]_vars => RotationInv'
  <2> SUFFICES ASSUME TypeOK, SlotExists, LocksOwned, RotationInv, [Next]_vars
               PROVE  RotationInv'
    OBVIOUS
  <2>1. CASE Breaking \/ UNCHANGED vars
    <3>1. pc' = pc /\ run' = run /\ folder' = folder /\ archives' = archives
      BY <2>1, OtherStepTyped DEF Idle, store
    <3> QED
      BY <3>1
         DEF RotationInv, NeverMixed, OneWriter, RotationPlace, Moving, Archive, Content, PathOf
  <2>2. ASSUME NEW r \in Runs, Start(r) \/ Step(r) \/ Failure(r)
        PROVE  RotationInv'
    BY <2>2, NeverMixedNext, RotationPlaceNext DEF RotationInv
  <2> QED
    BY <2>1, <2>2, StepKinds
<1> QED
  BY <1>1, <1>2, TypeCorrect, LocksCorrect, PTL DEF Spec

(* A refresh never mixes old and new artefact sets: no folder and no       *)
(* archive ever holds files of two runs, in the middle of a commit or      *)
(* after a crash.  Only a failed rotation, which the code logs and passes  *)
(* over, can mix them.                                                     *)
THEOREM SetsNeverMix ==
  ASSUME "rotate" \notin FaultyOps
  PROVE  Spec => []NeverMixed
<1>1. RotationInv => NeverMixed
  BY DEF RotationInv
<1> QED
  BY <1>1, RotationCorrect, PTL

-------------------------------------------------------------------------------
(* Where the report of a run is kept. *)
Kept(r) ==
  \/ folder[PathOf(r)].content.report = r
  \/ \E i \in DOMAIN archives[PathOf(r)] : archives[PathOf(r)][i].report = r

CommittedKept == \A r \in committed : pc[r] # "idle" /\ Kept(r)

LEMMA CommittedKeptNext ==
  ASSUME TypeOK, SlotExists, ReportInv, RotationInv, CommittedKept,
         NEW r \in Runs, Start(r) \/ Step(r) \/ Failure(r)
  PROVE  CommittedKept'
<1>1. TypeOK' /\ Frame(r)
  BY RunStepTyped
<1>2. CommitPlace(r) /\ RotationPlace(r)
  BY DEF ReportInv, RotationInv
<1> SUFFICES ASSUME NEW s \in committed'
             PROVE  pc'[s] # "idle" /\ Kept(s)'
  BY DEF CommittedKept
<1>3. s \in Runs
  BY <1>1 DEF TypeOK
<1>4. CASE s \notin committed
  <2>1. WriteReport(r) /\ s = r
    <3>1. pc[r] = "report" /\ ~DownloadSettles(r)
      BY <1>1, <1>4, SettlingKeeps DEF Frame, history
    <3> QED
      BY <1>3, <1>4, <3>1
         DEF Start, Begin, Step, Failure, AcquireCache, AcquireIndex, PlanRotation, MoveEntry,
             StageFiles, CommitQuery, CommitFile, Prune, Unstage, WriteReport,
             WriteTelemetrySidecar, ReadIndex, WriteIndex, ReleaseIndex, ReleaseCache,
             AwaitDownloads, FlushLlmsStaging, SettleDownloads, CacheSuggest, WriteLockedTelemetry,
             HasReport, ClearCacheArtefacts, GiveUp, RotationFails, CommitFails, WriteIndexFails,
             Crash, history
  <2>2. pc[r] # "idle" /\ PathOf(r) \in Paths /\ Content(r) \in Snapshot /\ PathOf(r)' = PathOf(r)
    BY <1>1, <2>1, Started DEF WriteReport, Frame, TaskKept, PathOf
  <2>3. folder'[PathOf(r)].content = [Content(r) EXCEPT !.report = r]
    BY <2>1, WriteReportEffect DEF Writes
  <2> QED
    BY <1>1, <2>1, <2>2, <2>3 DEF Kept, Frame, Snapshot
<1>5. CASE s \in committed
  <2>1. pc[s] # "idle" /\ Kept(s)
    BY <1>5 DEF CommittedKept
  <2>2. /\ pc'[s] # "idle" /\ PathOf(s) \in Paths /\ PathOf(s)' = PathOf(s)
    BY <1>1, <1>3, <2>1, Started DEF Frame, OthersKept, TaskKept, PathOf
  <2>3. CASE MoveEntry(r) /\ PathOf(r) = PathOf(s)
    <3>1. Moving(r) /\ run[r].slot \in DOMAIN archives[PathOf(s)]
      BY <1>2, <2>3 DEF MoveEntry, RotationPlace, SlotExists
    <3>2. PICK e \in Movable(Content(r)) :
            /\ e \in Entries
            /\ Content(r) \in Snapshot /\ Archive(r) \in Snapshot
            /\ folder'[PathOf(s)].content = Take(Content(r), e, Empty)
            /\ archives'[PathOf(s)][run[r].slot] = Take(Archive(r), e, Content(r))
      BY <2>3, <3>1, MoveBoth DEF Moving, Archive
    <3>3. CASE e = "report"
      <4>1. Content(r).report # NoRun /\ Archive(r).report = NoRun
        BY <3>1, <3>2, <3>3, MovableIs, StoreAssumption DEF Moving
      <4>2. archives'[PathOf(s)][run[r].slot].report = Content(r).report
        BY <3>2, <3>3, TakeReport
      <4>3. CASE folder[PathOf(s)].content.report = s
        BY <2>2, <2>3, <3>1, <4>2, <4>3, ArchiveSteps DEF Kept, Content
      <4>4. CASE \E i \in DOMAIN archives[PathOf(s)] : archives[PathOf(s)][i].report = s
        <5>1. PICK i \in DOMAIN archives[PathOf(s)] : archives[PathOf(s)][i].report = s
          BY <4>4
        <5>2. i # run[r].slot
          BY <1>3, <2>3, <4>1, <5>1, StoreAssumption DEF Archive
        <5> QED
          BY <2>2, <5>1, <5>2, ArchiveSteps DEF Kept
      <4> QED
        BY <2>1, <4>3, <4>4 DEF Kept
    <3>4. CASE e # "report"
      <4>1. /\ folder'[PathOf(s)].content.report = folder[PathOf(s)].content.report
            /\ archives'[PathOf(s)][run[r].slot].report = Archive(r).report
        BY <2>3, <3>2, <3>4, EmptyTyped, TakeReport DEF Content
      <4>2. \A i \in DOMAIN archives[PathOf(s)] :
              /\ i \in DOMAIN archives'[PathOf(s)]
              /\ archives'[PathOf(s)][i].report = archives[PathOf(s)][i].report
        BY <2>2, <2>3, <4>1, ArchiveSteps DEF Archive
      <4> QED
        BY <2>1, <2>2, <4>1, <4>2 DEF Kept
    <3> QED
      BY <3>3, <3>4
  <2>4. CASE ~(MoveEntry(r) /\ PathOf(r) = PathOf(s))
    <3>1. \A i \in DOMAIN archives[PathOf(s)] :
            i \in DOMAIN archives'[PathOf(s)] /\ archives'[PathOf(s)][i] = archives[PathOf(s)][i]
      BY <2>2, <2>4, ArchiveSteps
    <3>2. CASE folder[PathOf(s)].content.report = s
      <4>1. ~(ClearCacheArtefacts(r) /\ PathOf(s) = PathOf(r))
        BY <1>2, <1>3, <3>2, StoreAssumption DEF ClearCacheArtefacts, CommitPlace, Content
      <4>2. ~(WriteReport(r) /\ PathOf(s) = PathOf(r))
        BY <1>2, <1>3, <3>2, StoreAssumption DEF WriteReport, RotationPlace, Content
      <4> QED
        BY <2>2, <2>4, <3>2, <4>1, <4>2, ReportSteps DEF Kept
    <3> QED
      BY <2>1, <2>2, <3>1, <3>2 DEF Kept
  <2> QED
    BY <2>3, <2>4
<1> QED
  BY <1>4, <1>5

(* A report renamed into place is never deleted or overwritten: it stays   *)
(* in its folder or goes to an archive.  Rotation must not have failed.    *)
THEOREM NoReportIsLost ==
  ASSUME "rotate" \notin FaultyOps
  PROVE  Spec => []ReportsKept
<1>1. Init => CommittedKept
  BY DEF Init, CommittedKept
<1>2. TypeOK /\ SlotExists /\ ReportInv /\ RotationInv /\ CommittedKept /\ [Next]_vars
        => CommittedKept'
  <2> SUFFICES ASSUME TypeOK, SlotExists, ReportInv, RotationInv, CommittedKept, [Next]_vars
               PROVE  CommittedKept'
    OBVIOUS
  <2>1. CASE Breaking \/ UNCHANGED vars
    BY <2>1, OtherStepTyped DEF CommittedKept, Kept, Idle, store, history, PathOf
  <2>2. ASSUME NEW r \in Runs, Start(r) \/ Step(r) \/ Failure(r)
        PROVE  CommittedKept'
    BY <2>2, CommittedKeptNext
  <2> QED
    BY <2>1, <2>2, StepKinds
<1>3. CommittedKept => ReportsKept
  BY DEF CommittedKept, Kept, ReportsKept
<1> QED
  BY <1>1, <1>2, <1>3, TypeCorrect, ReportCorrect, RotationCorrect, PTL DEF Spec

-------------------------------------------------------------------------------
(* The store as its readers see it, one lemma for each variable of         *)
(* ReportStore: which steps change it, and how.                            *)
LEMMA CurrentSteps ==
  ASSUME TypeOK, SlotExists, ReportInv, RotationInv,
         NEW r \in Runs, Start(r) \/ Step(r) \/ Failure(r)
  PROVE  \/ CurrentReports' = CurrentReports
         \/ /\ PathOf(r) \in Paths
            /\ \/ /\ WriteReport(r) /\ CurrentReports[PathOf(r)] = NoRun
                  /\ CurrentReports' = [CurrentReports EXCEPT ![PathOf(r)] = r]
               \/ /\ MoveEntry(r) /\ CurrentReports[PathOf(r)] # NoRun
                  /\ CurrentReports' = [CurrentReports EXCEPT ![PathOf(r)] = NoRun]
<1> USE DEF CurrentReports
<1>1. CASE WriteReport(r)
  <2>1. PathOf(r) \in Paths /\ Content(r).report = NoRun /\ ~MoveEntry(r) /\ ~ClearCacheArtefacts(r)
    BY <1>1, Started
       DEF WriteReport, MoveEntry, ClearCacheArtefacts, RotationInv, RotationPlace
  <2>2. /\ folder'[PathOf(r)].content.report \in {r, NoRun}
        /\ \A q \in Paths \ {PathOf(r)} : folder'[q].content.report = folder[q].content.report
    BY <1>1, <2>1, ReportSteps DEF Content
  <2> QED
    BY <1>1, <2>1, <2>2 DEF Content
<1>2. CASE MoveEntry(r)
  <2>1. PathOf(r) \in Paths /\ ~WriteReport(r)
    BY <1>2, Started DEF WriteReport, MoveEntry
  <2>2. /\ folder'[PathOf(r)].content.report \in {Content(r).report, NoRun}
        /\ \A q \in Paths \ {PathOf(r)} : folder'[q].content.report = folder[q].content.report
    BY <1>2, <2>1, ReportSteps DEF Content
  <2> QED
    BY <1>2, <2>1, <2>2 DEF Content
<1>3. CASE ~WriteReport(r) /\ ~MoveEntry(r)
  <2>1. ClearCacheArtefacts(r) => Content(r).report = NoRun
    BY DEF ClearCacheArtefacts, ReportInv, CommitPlace
  <2>2. \A q \in Paths : folder'[q].content.report = folder[q].content.report
    BY <1>3, <2>1, ReportSteps DEF Content
  <2> QED
    BY <2>2
<1> QED
  BY <1>1, <1>2, <1>3

(* A report leaves its folder in the very step that puts it into the       *)
(* archive, and the one entry it takes was free.                           *)
LEMMA ArchivedSteps ==
  ASSUME TypeOK, SlotExists, RotationInv, NEW r \in Runs, Start(r) \/ Step(r) \/ Failure(r)
  PROVE  \/ /\ ArchivedReports' = ArchivedReports
            /\ MoveEntry(r) => CurrentReports' = CurrentReports
         \/ /\ MoveEntry(r) /\ PathOf(r) \in Paths /\ CurrentReports[PathOf(r)] # NoRun
            /\ CurrentReports' = [CurrentReports EXCEPT ![PathOf(r)] = NoRun]
            /\ ArchivedReports' = [ArchivedReports EXCEPT ![PathOf(r)] =
                                     @ \cup {CurrentReports[PathOf(r)]}]
<1> DEFINE ReportsIn(q) == {archives[q][i].report : i \in DOMAIN archives[q]} \ {NoRun}
           Reports2(q) == {archives'[q][i].report : i \in DOMAIN archives'[q]} \ {NoRun}
<1>1. CASE ~MoveEntry(r)
  <2>1. ASSUME NEW q \in Paths PROVE Reports2(q) = ReportsIn(q)
    <3>1. \A i \in DOMAIN archives[q] :
            i \in DOMAIN archives'[q] /\ archives'[q][i] = archives[q][i]
      BY <1>1, ArchiveSteps
    <3>2. \A i \in DOMAIN archives'[q] \ DOMAIN archives[q] : archives'[q][i].report = NoRun
      BY ArchiveSteps, EmptyWritten
    <3> QED
      BY <3>1, <3>2
  <2> QED
    BY <1>1, <2>1 DEF ArchivedReports
<1>2. CASE MoveEntry(r)
  <2>1. /\ PathOf(r) \in Paths /\ Moving(r) /\ run[r].slot \in DOMAIN archives[PathOf(r)]
        /\ Content(r) \in Snapshot /\ ~WriteReport(r)
    BY <1>2, Started DEF MoveEntry, WriteReport, SlotExists, RotationInv, RotationPlace
  <2>2. PICK e \in Movable(Content(r)) :
          /\ e \in Entries
          /\ Archive(r) \in Snapshot
          /\ folder'[PathOf(r)].content = Take(Content(r), e, Empty)
          /\ archives'[PathOf(r)][run[r].slot] = Take(Archive(r), e, Content(r))
    BY <1>2, <2>1, MoveBoth DEF Moving, Archive
  <2>3. PICK m \in Entries \cup Files :
          /\ archives' = [archives EXCEPT ![PathOf(r)][run[r].slot] = Take(@, m, Content(r))]
          /\ Writes(r, Take(Content(r), m, Empty))
    BY <1>2, MoveEntryEffect
  <2>4. /\ \A q \in Paths \ {PathOf(r)} : archives'[q] = archives[q]
        /\ DOMAIN archives'[PathOf(r)] = DOMAIN archives[PathOf(r)]
        /\ \A i \in DOMAIN archives[PathOf(r)] \ {run[r].slot} :
             archives'[PathOf(r)][i] = archives[PathOf(r)][i]
    BY <2>1, <2>3, MoveArchives
  <2>5. \A q \in Paths \ {PathOf(r)} :
          folder'[q] = folder[q] /\ Reports2(q) = ReportsIn(q)
    BY <2>3, <2>4 DEF Writes
  <2>6. CASE e = "report"
    <3>1. Content(r).report # NoRun /\ Archive(r).report = NoRun
      BY <2>1, <2>2, <2>6, MovableIs, StoreAssumption DEF Moving
    <3>2. /\ folder'[PathOf(r)].content.report = NoRun
          /\ archives'[PathOf(r)][run[r].slot].report = Content(r).report
      BY <2>1, <2>2, <2>6, EmptyTyped, EmptyWritten, TakeReport
    <3>3. Reports2(PathOf(r)) = ReportsIn(PathOf(r)) \cup {Content(r).report}
      BY <2>1, <2>4, <3>1, <3>2 DEF Archive
    <3>4. CurrentReports' = [CurrentReports EXCEPT ![PathOf(r)] = NoRun]
      BY <2>1, <2>5, <3>2 DEF CurrentReports
    <3>5. ArchivedReports' = [ArchivedReports EXCEPT ![PathOf(r)] =
                                ReportsIn(PathOf(r)) \cup {Content(r).report}]
      <4> DEFINE now == ReportsIn(PathOf(r)) \cup {Content(r).report}
      <4>1. \A q \in Paths : Reports2(q) = IF q = PathOf(r) THEN now ELSE ReportsIn(q)
        BY <2>5, <3>3
      <4>2. ArchivedReports' = [q \in Paths |-> Reports2(q)]
        BY DEF ArchivedReports
      <4>3. ArchivedReports = [q \in Paths |-> ReportsIn(q)]
        BY DEF ArchivedReports
      <4> HIDE DEF now, ReportsIn, Reports2
      <4> QED
        BY <4>1, <4>2, <4>3 DEF now
    <3> QED
      BY <1>2, <2>1, <3>1, <3>4, <3>5 DEF CurrentReports, ArchivedReports, Content
  <2>7. CASE e # "report"
    <3>1. /\ folder'[PathOf(r)].content.report = folder[PathOf(r)].content.report
          /\ archives'[PathOf(r)][run[r].slot].report = archives[PathOf(r)][run[r].slot].report
      BY <2>1, <2>2, <2>7, EmptyTyped, TakeReport DEF Content, Archive
    <3>2. Reports2(PathOf(r)) = ReportsIn(PathOf(r))
      BY <2>4, <3>1
    <3>3. CurrentReports' = CurrentReports
      BY <2>5, <3>1 DEF CurrentReports
    <3>4. \A q \in Paths : Reports2(q) = ReportsIn(q)
      BY <2>5, <3>2
    <3>5. ArchivedReports' = ArchivedReports
      BY <3>4 DEF ArchivedReports
    <3> QED
      BY <3>3, <3>5
  <2> QED
    BY <2>6, <2>7
<1> QED
  BY <1>1, <1>2

(* What goes into the index is what the folder holds, although the index   *)
(* was read earlier and the report was looked at under another lock.       *)
LEMMA RegisterSteps ==
  ASSUME TypeOK, ReportInv, SnapshotKept,
         NEW r \in Runs, Frame(r), Start(r) \/ Step(r) \/ Failure(r)
  PROVE  \/ index' = index
         \/ /\ WriteIndex(r) /\ PathOf(r) \in Paths
            /\ \E lost \in SUBSET (Paths \ {PathOf(r)}) :
                 /\ lost # {} => "readIndex" \in FaultyOps
                 /\ index' = [p \in Paths |-> CASE p = PathOf(r) -> CurrentReports[PathOf(r)]
                                                [] p \in lost -> NoRun
                                                [] OTHER -> index[p]]
<1> SUFFICES ASSUME index' # index
             PROVE  /\ WriteIndex(r) /\ PathOf(r) \in Paths
                    /\ \E lost \in SUBSET (Paths \ {PathOf(r)}) :
                         /\ lost # {} => "readIndex" \in FaultyOps
                         /\ index' = [p \in Paths |->
                                        CASE p = PathOf(r) -> CurrentReports[PathOf(r)]
                                          [] p \in lost -> NoRun
                                          [] OTHER -> index[p]]
  OBVIOUS
<1>1. /\ pc[r] = "writeIndex" /\ WriteIndex(r) /\ PathOf(r) \in Paths
      /\ index'[PathOf(r)] = IF run[r].op = "degraded" THEN NoRun ELSE r
      /\ \A q \in Paths \ {PathOf(r)} : index'[q] \in {index[q], NoRun}
      /\ "readIndex" \notin FaultyOps => \A q \in Paths \ {PathOf(r)} : index'[q] = index[q]
  <2>1. /\ pc[r] = "writeIndex" /\ WriteIndex(r) /\ PathOf(r) \in Paths
        /\ index'[PathOf(r)] = IF run[r].op = "degraded" THEN NoRun ELSE r
        /\ \A q \in Paths \ {PathOf(r)} : index'[q] \in {index[q], NoRun}
        /\ "readIndex" \notin FaultyOps =>
             index' = [index EXCEPT ![PathOf(r)] = IF run[r].op = "degraded" THEN NoRun ELSE r]
    BY IndexSteps
  <2> QED
    BY <2>1 DEF TypeOK, Index
<1>2. index'[PathOf(r)] = CurrentReports[PathOf(r)]
  BY <1>1 DEF ReportInv, CommitPlace, CurrentReports, Content
<1>3. index' \in Index
  <2>1. run[r].snap \in Index
    BY <1>1, Started
  <2> QED
    BY <1>1, <2>1, WriteIndexEffect DEF Index
<1> DEFINE lost == {q \in Paths \ {PathOf(r)} : index'[q] # index[q]}
<1>4. lost # {} => "readIndex" \in FaultyOps
  BY <1>1
<1>5. index' = [p \in Paths |-> CASE p = PathOf(r) -> CurrentReports[PathOf(r)]
                                  [] p \in lost -> NoRun
                                  [] OTHER -> index[p]]
  BY <1>1, <1>2, <1>3 DEF Index
<1> QED
  BY <1>1, <1>4, <1>5

(* Each step of a run is at most one of these changes. *)
LEMMA PromiseSteps ==
  ASSUME TypeOK, SlotExists, ReportInv, SnapshotKept, RotationInv,
         NEW r \in Runs, Start(r) \/ Step(r) \/ Failure(r)
  PROVE  [Promise!Next]_(Promise!svars)
<1>1. Frame(r)
  BY RunStepTyped
<1>2. \/ Documented' = Documented
      \/ /\ FlushLlmsStaging(r) /\ PathOf(r) \in Paths
         /\ Documented' = [Documented EXCEPT ![PathOf(r)] = TRUE]
  <2>1. FlushLlmsStaging(r) => PathOf(r) \in Paths
    BY Started DEF FlushLlmsStaging
  <2> QED
    BY <2>1, DocumentationSteps DEF Documented
<1>3. CASE WriteReport(r) /\ CurrentReports' # CurrentReports
  <2>1. ~MoveEntry(r) /\ ~WriteIndex(r) /\ ~FlushLlmsStaging(r)
    BY <1>3 DEF WriteReport, MoveEntry, WriteIndex, FlushLlmsStaging
  <2>2. PathOf(r) \in Paths /\ Promise!Publish(PathOf(r), r)
    BY <1>1, <1>2, <1>3, <2>1, CurrentSteps, ArchivedSteps, RegisterSteps DEF Promise!Publish
  <2> QED
    BY <2>2 DEF Promise!Next
<1>4. CASE MoveEntry(r)
  <2>1. ~WriteReport(r) /\ ~WriteIndex(r) /\ ~FlushLlmsStaging(r)
    BY <1>4 DEF WriteReport, MoveEntry, WriteIndex, FlushLlmsStaging
  <2>2. index' = index /\ Documented' = Documented
    BY <1>1, <1>2, <2>1, RegisterSteps
  <2>3. CASE ArchivedReports' = ArchivedReports /\ CurrentReports' = CurrentReports
    BY <2>2, <2>3 DEF Promise!svars
  <2>4. CASE /\ PathOf(r) \in Paths /\ CurrentReports[PathOf(r)] # NoRun
             /\ CurrentReports' = [CurrentReports EXCEPT ![PathOf(r)] = NoRun]
             /\ ArchivedReports' = [ArchivedReports EXCEPT ![PathOf(r)] =
                                      @ \cup {CurrentReports[PathOf(r)]}]
    <3>1. Promise!Retire(PathOf(r))
      BY <2>2, <2>4 DEF Promise!Retire
    <3> QED
      BY <2>4, <3>1 DEF Promise!Next
  <2> QED
    BY <1>4, <2>3, <2>4, ArchivedSteps
<1>5. CASE CurrentReports' = CurrentReports /\ ~MoveEntry(r)
  <2>1. ArchivedReports' = ArchivedReports
    BY <1>5, ArchivedSteps
  <2>2. CASE WriteIndex(r) /\ index' # index
    <3>1. ~FlushLlmsStaging(r)
      BY <2>2 DEF WriteIndex, FlushLlmsStaging
    <3>2. PathOf(r) \in Paths /\ Promise!Register(PathOf(r))
      BY <1>1, <1>2, <1>5, <2>1, <2>2, <3>1, RegisterSteps DEF Promise!Register
    <3> QED
      BY <3>2 DEF Promise!Next
  <2>3. CASE index' = index
    <3>1. CASE Documented' = Documented
      BY <1>5, <2>1, <2>3, <3>1 DEF Promise!svars
    <3>2. CASE PathOf(r) \in Paths /\ Documented' = [Documented EXCEPT ![PathOf(r)] = TRUE]
      <4>1. Promise!Document(PathOf(r))
        BY <1>5, <2>1, <2>3, <3>2 DEF Promise!Document
      <4> QED
        BY <3>2, <4>1 DEF Promise!Next
    <3> QED
      BY <1>2, <3>1, <3>2
  <2> QED
    BY <1>1, <2>2, <2>3, RegisterSteps
<1> QED
  BY <1>3, <1>4, <1>5, CurrentSteps

(* The cache implements the store its readers are promised, with any       *)
(* crashes and errors but a failed rotation: concurrent refreshes,         *)
(* degraded exits and collations look like single publications,            *)
(* retirements, entries in the index and saved downloads.                  *)
THEOREM ImplementsStore ==
  ASSUME "rotate" \notin FaultyOps
  PROVE  Spec => StoreSpec
<1>1. Init => Promise!Init
  <2> SUFFICES ASSUME Init PROVE Promise!Init
    OBVIOUS
  <2>1. CurrentReports = [q \in Paths |-> NoRun] /\ Documented = [q \in Paths |-> FALSE]
    BY DEF Init, CurrentReports, Documented, Empty
  <2>2. ArchivedReports = [q \in Paths |-> {}]
    <3>1. \A q \in Paths : DOMAIN archives[q] = {}
      BY DEF Init
    <3> QED
      BY <3>1 DEF ArchivedReports
  <2> QED
    BY <2>1, <2>2 DEF Init, Promise!Init
<1>2. TypeOK /\ SlotExists /\ ReportInv /\ SnapshotKept /\ RotationInv /\ [Next]_vars
        => [Promise!Next]_(Promise!svars)
  <2> SUFFICES ASSUME TypeOK, SlotExists, ReportInv, SnapshotKept, RotationInv, [Next]_vars
               PROVE  [Promise!Next]_(Promise!svars)
    OBVIOUS
  <2>1. CASE Breaking \/ UNCHANGED vars
    <3>1. folder' = folder /\ archives' = archives /\ index' = index
      BY <2>1, OtherStepTyped DEF Idle, store
    <3>2. /\ CurrentReports' = CurrentReports /\ ArchivedReports' = ArchivedReports
          /\ Documented' = Documented
      BY <3>1 DEF CurrentReports, ArchivedReports, Documented
    <3> QED
      BY <3>1, <3>2 DEF Promise!svars
  <2> QED
    BY <2>1, PromiseSteps, StepKinds
<1> QED
  BY <1>1, <1>2, TypeCorrect, ReportCorrect, SnapshotCorrect, RotationCorrect, PTL
     DEF Spec, StoreSpec, Promise!Spec

-------------------------------------------------------------------------------
(* The lock under the store: FsLock, for any processes, thresholds and     *)
(* bound on the faults that satisfy its assumption.  Prompt (critical      *)
(* sections shorter than the stale age) is needed for exclusion: the       *)
(* directory of a holder that outlives the stale age is broken.            *)
LEMMA LockTypeInit ==
  ASSUME LockInit PROVE LockTypeOK
BY LockAssumption DEF LockInit, LockTypeOK, LockPCs

(* One case for time and one for each kind of step a process takes. *)
LEMMA LockTypeNext ==
  ASSUME LockTypeOK, [LockNext]_lockVars
  PROVE  LockTypeOK'
<1> USE LockAssumption DEF LockTypeOK, LockPCs, Waiting, Holding, LockGoto, RemoveDir
<1>1. CASE Tick
  BY <1>1 DEF Tick, Saturate
<1>2. ASSUME NEW p \in Procs, LockStep(p)
      PROVE  LockTypeOK'
  <2>1. CASE TryAborted(p)
    BY <2>1 DEF TryAborted
  <2>2. CASE MkdirSucceeds(p)
    BY <2>2 DEF MkdirSucceeds
  <2>3. CASE MkdirExists(p)
    BY <2>3 DEF MkdirExists
  <2>4. CASE WritePid(p)
    BY <2>4 DEF WritePid
  <2>5. CASE CheckStale(p)
    BY <2>5 DEF CheckStale
  <2>6. CASE BreakStale(p)
    BY <2>6 DEF BreakStale
  <2>7. CASE Wake(p)
    BY <2>7 DEF Wake
  <2>8. CASE Leave(p)
    BY <2>8 DEF Leave
  <2>9. CASE Release(p)
    BY <2>9 DEF Release
  <2> QED
    BY <1>2, <2>1, <2>2, <2>3, <2>4, <2>5, <2>6, <2>7, <2>8, <2>9 DEF LockStep
<1>3. ASSUME NEW p \in Procs, Environment(p)
      PROVE  LockTypeOK'
  <2>1. CASE Call(p)
    BY <2>1 DEF Call
  <2>2. CASE WritePidFails(p)
    BY <2>2 DEF WritePidFails
  <2>3. CASE ReleaseFails(p)
    BY <2>3 DEF ReleaseFails
  <2>4. CASE Abort(p)
    BY <2>4 DEF Abort
  <2>5. CASE LockCrash(p)
    BY <2>5 DEF LockCrash
  <2>6. CASE Restart(p)
    BY <2>6 DEF Restart
  <2>7. CASE BreakFails(p)
    BY <2>7 DEF BreakFails
  <2> QED
    BY <1>3, <2>1, <2>2, <2>3, <2>4, <2>5, <2>6, <2>7 DEF Environment
<1>4. CASE UNCHANGED lockVars
  BY <1>4 DEF lockVars
<1> QED
  BY <1>1, <1>2, <1>3, <1>4 DEF LockNext

(* The variables of the lock protocol keep their types. *)
THEOREM LockTypeCorrect == LockSpec => []LockTypeOK
BY LockTypeInit, LockTypeNext, PTL DEF LockSpec

-------------------------------------------------------------------------------
(* Every fault is counted: a step that leaves the count at zero started    *)
(* from zero and is none of the faults.                                    *)
LEMMA LockFaultsGrow ==
  ASSUME LockTypeOK, [LockNext]_lockVars, lockFaults' = 0
  PROVE  /\ lockFaults = 0
         /\ \A p \in Procs : ~WritePidFails(p) /\ ~ReleaseFails(p) /\ ~LockCrash(p)
<1>1. \A p \in Procs : ~WritePidFails(p) /\ ~ReleaseFails(p) /\ ~LockCrash(p)
  BY DEF LockTypeOK, WritePidFails, ReleaseFails, LockCrash
<1>2. lockFaults' = lockFaults
  <2>1. CASE Tick
    BY <2>1 DEF Tick
  <2>2. ASSUME NEW p \in Procs, LockStep(p) PROVE lockFaults' = lockFaults
    BY <2>2 DEF LockStep, TryAborted, MkdirSucceeds, MkdirExists, WritePid,
                CheckStale, BreakStale, Wake, Leave, Release
  <2>3. ASSUME NEW p \in Procs, Environment(p) PROVE lockFaults' = lockFaults
    BY <1>1, <2>3 DEF Environment, Call, Abort, Restart, BreakFails
  <2>4. CASE UNCHANGED lockVars
    BY <2>4 DEF lockVars
  <2> QED
    BY <2>1, <2>2, <2>3, <2>4 DEF LockNext
<1> QED
  BY <1>1, <1>2

(* HolderMadeDir is inductive under Prompt while no fault has happened: no *)
(* directory becomes stale, so nobody breaks one, and release removes the  *)
(* releaser's own.                                                         *)
LEMMA HolderInit ==
  ASSUME LockInit PROVE HolderMadeDir
BY LockAssumption DEF LockInit, HolderMadeDir, Holding

LEMMA HolderNext ==
  ASSUME Prompt, LockTypeOK, HolderMadeDir,
         [LockNext]_lockVars, lockFaults' = 0
  PROVE  HolderMadeDir'
<1> USE LockAssumption DEF LockTypeOK, HolderMadeDir, Prompt, Waiting, Holding, LockPCs, LockGoto, RemoveDir
<1>1. CASE Tick
  <2>1. dir # Nobody => age < MaxHold
    BY <1>1 DEF Tick, HolderIsLate
  <2>2. age' <= MaxHold
    BY <1>1, <2>1 DEF Tick, Saturate
  <2> QED
    BY <1>1, <2>2 DEF Tick
<1>2. ASSUME NEW p \in Procs, LockStep(p)
      PROVE  HolderMadeDir'
  <2>1. CASE TryAborted(p)
    BY <2>1 DEF TryAborted
  <2>2. CASE MkdirSucceeds(p)
    BY <2>2 DEF MkdirSucceeds
  <2>3. CASE MkdirExists(p)
    BY <2>3 DEF MkdirExists
  <2>4. CASE WritePid(p)
    BY <2>4 DEF WritePid
  <2>5. CASE CheckStale(p)
    <3>1. ~IsLockStale
      BY DEF IsLockStale
    <3> QED
      BY <2>5, <3>1 DEF CheckStale
  <2>6. CASE BreakStale(p)
    BY <2>6 DEF BreakStale
  <2>7. CASE Wake(p)
    BY <2>7 DEF Wake
  <2>8. CASE Leave(p)
    BY <2>8 DEF Leave
  <2>9. CASE Release(p)
    BY <2>9 DEF Release
  <2> QED
    BY <1>2, <2>1, <2>2, <2>3, <2>4, <2>5, <2>6, <2>7, <2>8, <2>9 DEF LockStep
<1>3. ASSUME NEW p \in Procs, Environment(p)
      PROVE  HolderMadeDir'
  <2>1. CASE Call(p)
    BY <2>1 DEF Call
  <2>2. CASE Abort(p)
    BY <2>2 DEF Abort
  <2>3. CASE Restart(p)
    BY <2>3 DEF Restart
  <2>4. CASE BreakFails(p)
    BY <2>4 DEF BreakFails
  <2> QED
    BY <1>3, <2>1, <2>2, <2>3, <2>4, LockFaultsGrow DEF Environment
<1>4. CASE UNCHANGED lockVars
  BY <1>4 DEF lockVars
<1> QED
  BY <1>1, <1>2, <1>3, <1>4 DEF LockNext

(* Under Prompt and until the first fault, the directory on disk belongs   *)
(* to the one process that holds the lock, and no two callers of withLock  *)
(* run their functions at once: each would have made the directory that    *)
(* exists.                                                                 *)
THEOREM LockIsExclusive ==
  ASSUME Prompt
  PROVE  LockSpec => []SoundUntilFault
<1> DEFINE HInv == lockFaults = 0 => HolderMadeDir
<1>1. LockInit => HInv
  BY HolderInit
<1>2. LockTypeOK /\ HInv /\ [LockNext]_lockVars => HInv'
  <2> SUFFICES ASSUME LockTypeOK, HInv, [LockNext]_lockVars, lockFaults' = 0
               PROVE  HolderMadeDir'
    OBVIOUS
  <2> QED
    BY HolderNext, LockFaultsGrow
<1>3. HInv => SoundUntilFault
  BY DEF SoundUntilFault, HolderMadeDir, MutualExclusion, Holding
<1> QED
  BY <1>1, <1>2, <1>3, LockTypeCorrect, PTL DEF LockSpec

-------------------------------------------------------------------------------
(* Under Prompt every step of the directory protocol is a step of the lock *)
(* service, or leaves its variables alone.                                 *)
LEMMA ServiceInit == LockInit => Service!Init
BY DEF LockInit, Service!Init

LEMMA ServiceNext ==
  ASSUME Prompt, LockTypeOK, HolderMadeDir,
         [LockNext]_lockVars, lockFaults' = 0
  PROVE  [Service!Next]_(Service!svars)
<1> DEFINE inside == {p \in Procs : lockPc[p] = "held"}
<1> USE LockAssumption DEF LockTypeOK, HolderMadeDir, Prompt, Waiting, Holding, LockPCs, LockGoto, RemoveDir
<1>1. CASE Tick
  BY <1>1 DEF Tick, Service!svars
<1>2. ASSUME NEW p \in Procs, LockStep(p)
      PROVE  [Service!Next]_(Service!svars)
  <2>1. CASE MkdirSucceeds(p)
    <3>1. Service!Acquire(p)
      BY <2>1 DEF MkdirSucceeds, Service!Acquire
    <3> QED
      BY <3>1 DEF Service!Next
  <2>2. CASE WritePid(p)
    <3>1. dir = p /\ dir' = p /\ dir # Nobody
      BY <2>2 DEF WritePid
    <3>2. CASE aborted[p]
      <4>1. lockPc' = [lockPc EXCEPT ![p] = "release"]
        BY <2>2, <3>1, <3>2 DEF WritePid
      <4>2. inside' = inside
        BY <2>2, <4>1 DEF WritePid
      <4> QED
        BY <3>1, <4>2 DEF Service!svars
    <3>3. CASE ~aborted[p]
      <4>1. lockPc' = [lockPc EXCEPT ![p] = "held"]
        BY <2>2, <3>1, <3>3 DEF WritePid
      <4>2. inside' = inside \cup {p}
        BY <4>1
      <4>3. Service!Enter(p)
        BY <3>1, <4>2 DEF Service!Enter
      <4> QED
        BY <4>3 DEF Service!Next
    <3> QED
      BY <3>2, <3>3
  <2>3. CASE Leave(p)
    <3>1. inside' = inside \ {p}
      BY <2>3 DEF Leave
    <3>2. Service!Exit(p)
      BY <2>3, <3>1 DEF Leave, Service!Exit
    <3> QED
      BY <3>2 DEF Service!Next
  <2>4. CASE Release(p)
    <3>1. inside' = inside /\ p \notin inside
      BY <2>4 DEF Release
    <3>2. Service!Release(p)
      BY <2>4, <3>1 DEF Release, Service!Release
    <3> QED
      BY <3>2 DEF Service!Next
  <2>5. CASE TryAborted(p) \/ MkdirExists(p) \/ CheckStale(p) \/ BreakStale(p) \/ Wake(p)
    <3>1. dir' = dir /\ inside' = inside
      BY <2>5 DEF TryAborted, MkdirExists, CheckStale, BreakStale, Wake, IsLockStale
    <3> QED
      BY <3>1 DEF Service!svars
  <2> QED
    BY <1>2, <2>1, <2>2, <2>3, <2>4, <2>5 DEF LockStep
<1>3. ASSUME NEW p \in Procs, Environment(p)
      PROVE  [Service!Next]_(Service!svars)
  <2>1. dir' = dir /\ inside' = inside
    BY <1>3, LockFaultsGrow DEF Environment, Call, Abort, Restart, BreakFails
  <2> QED
    BY <2>1 DEF Service!svars
<1>4. CASE UNCHANGED lockVars
  BY <1>4 DEF lockVars, Service!svars
<1> QED
  BY <1>1, <1>2, <1>3, <1>4 DEF LockNext

(* Under Prompt and until the first fault, acquireLock and withLock        *)
(* provide the lock that CacheStore is written against.                    *)
THEOREM ImplementsService ==
  ASSUME Prompt
  PROVE  LockSpec => ServiceUntilFault
<1> DEFINE ServiceStep == lockFaults' = 0 => [Service!Next]_(Service!svars)
<1>1. LockTypeOK /\ SoundUntilFault /\ [LockNext]_lockVars => ServiceStep
  <2> SUFFICES ASSUME LockTypeOK, SoundUntilFault, [LockNext]_lockVars, lockFaults' = 0
               PROVE  [Service!Next]_(Service!svars)
    OBVIOUS
  <2> QED
    BY ServiceNext, LockFaultsGrow DEF SoundUntilFault
<1> QED
  BY <1>1, ServiceInit, LockTypeCorrect, LockIsExclusive, PTL
     DEF LockSpec, ServiceUntilFault
===============================================================================
