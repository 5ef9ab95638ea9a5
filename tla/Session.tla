------------------------------- MODULE Session --------------------------------
(***************************************************************************)
(* Sessions of the native extension: the session_start handler of          *)
(* src/index.ts, the settings cache with its pending migration of          *)
(* src/settings.ts, and the registration of models of src/providers.ts.    *)
(*                                                                         *)
(* Several processes share one agent directory.  What runs between two     *)
(* awaits of a process is one step.  A process may end a session and start *)
(* the next while loads of the earlier one are still under way.            *)
(***************************************************************************)
EXTENDS Integers

CONSTANTS Procs,        \* processes that run the extension
          Tools,        \* the tool calls one of them may have under way
          Users,        \* the processes whose tools are called
          Announcer,    \* the handler's own load, for the upgrade notice
          Current,      \* the version of the extension in each process
          Required,     \* REQUIRED_MODELS of that version: a set of ids
          Roles,        \* the model roles of the settings
          Values,       \* the model configurations that settings name
          ProjectOnly,  \* those that only the project's own file names
          Files,        \* the contents settings.json may have, by directory
          Markers,      \* the versions an earlier session may have left
          ModelFiles,   \* the contents of models.json before, and after an edit
          Unset,        \* a key that is absent, null or an empty string
          None,         \* no version, no migration, or no settings
          MaxSessions,  \* bound: sessions each of them starts
          MaxMishaps    \* bound: crashes, failed file system calls, edits of
                        \* a file by the user and changes of trust

Dirs == {"agent", "project"}

(* The releases DEFAULT_HISTORY has an entry for, 0.7.0 to 0.21.0, as      *)
(* 100 * minor + patch.                                                    *)
KnownVersions ==
  {700, 800, 1000, 1200, 1201, 1202, 1203, 1204, 1205, 1206, 1300, 1400,
   1401, 1500, 1600, 1700, 1800, 1900, 2000, 2100}

(* The entry of a release for a role: three eras of extraction and         *)
(* collation models, one search model throughout.                          *)
DefaultAt(v, role) ==
  CASE role = "searchModel" -> "perplexity/sonar"
    [] role # "searchModel" /\ v < 800 -> "minimax/MiniMax-M2.7"
    [] role # "searchModel" /\ v >= 800 /\ v < 1400 -> "minimax/minimax-m2.7"
    [] OTHER -> "minimax/minimax-m3"

Settings == [Roles -> Values]
Overrides == [Roles -> Values \cup {Unset}]
SettingsFile == [nested : Overrides, flat : Overrides]
Migration == [from : Nat, to : Nat]

ASSUME SessionAssumption ==
  /\ None \notin Procs /\ None \notin Nat
  /\ None \notin Settings /\ None \notin Migration
  /\ Unset \notin Values
  /\ Users \subseteq Procs
  /\ Announcer \notin Tools
  /\ Current \in [Procs -> Nat]
  /\ \A v \in KnownVersions \cup {Current[p] : p \in Procs}, role \in Roles :
       DefaultAt(v, role) \in Values \ ProjectOnly
  /\ \A d \in Dirs : Files[d] \subseteq SettingsFile
  /\ \A file \in Files["agent"], role \in Roles :
       file.nested[role] \notin ProjectOnly /\ file.flat[role] \notin ProjectOnly
  /\ Unset \notin ProjectOnly
  /\ \A m \in Markers : m \in Nat \/ m = None
  /\ \A m \in ModelFiles : m.valid \in BOOLEAN
  /\ MaxSessions \in [Procs -> Nat] /\ MaxMishaps \in Nat

VARIABLES
  files,       \* settings.json of the agent directory and of the project
  marker,      \* the version file, None while missing or cut short
  models,      \* models.json: whether it is well formed, and its model ids
  modelsLock,  \* the holder of its lock, or None
  registered,  \* history: ids the extension has made sure of since the last edit
  pc,          \* where the handler of each process is
  prev,        \* previousVersion, as the handler read it
  held,        \* models.json as the holder of the lock read it
  checked,     \* modelsChecked
  cache,       \* cachedSettings, by whether the project is trusted
  pending,     \* pendingMigration
  trusted,     \* what ctx.isProjectTrusted() answers
  loads,       \* the loadSettings calls under way, and the last answer of each
  upgraded,    \* history: the migration this session announced, or None
  alone,       \* history: since then no two loads overlapped, trust is the same
  sessions,    \* sessions started
  mishaps      \* crashes, failures, edits and changes of trust so far

disk == <<files, marker, models, modelsLock, registered>>
memory == <<cache, pending, loads>>
handler == <<pc, prev, held, checked>>
history == <<upgraded, alone>>
bounds == <<sessions, mishaps>>
vars == <<disk, memory, handler, history, trusted, bounds>>

Loads == Tools \cup {Announcer}
Starting == {"lock", "read", "rename", "unlock", "version", "announce", "truncate", "write"}

NoLoad == [pc |-> "idle", trust |-> FALSE, got |-> [r \in Roles |-> Unset],
           answer |-> None, under |-> None, alone |-> FALSE]

LoadRecord == [pc : {"idle", "agent", "project", "done"}, trust : BOOLEAN,
               got : Overrides, answer : Settings \cup {None},
               under : Migration \cup {None}, alone : BOOLEAN]

NoCache == [t \in BOOLEAN |-> None]

TypeOK ==
  /\ files \in [Dirs -> SettingsFile]
  /\ marker \in Nat \cup {None}
  /\ models.valid \in BOOLEAN
  /\ modelsLock \in Procs \cup {None}
  /\ pc \in [Procs -> {"off", "on", "dead"} \cup Starting]
  /\ prev \in [Procs -> Nat \cup {None}]
  /\ checked \in [Procs -> BOOLEAN]
  /\ cache \in [Procs -> [BOOLEAN -> Settings \cup {None}]]
  /\ pending \in [Procs -> Migration \cup {None}]
  /\ trusted \in [Procs -> BOOLEAN]
  /\ loads \in [Procs -> [Loads -> LoadRecord]]
  /\ upgraded \in [Procs -> Migration \cup {None}]
  /\ alone \in [Procs -> BOOLEAN]

Init ==
  /\ files \in {f \in [Dirs -> UNION {Files[d] : d \in Dirs}] : \A d \in Dirs : f[d] \in Files[d]}
  /\ marker \in Markers
  /\ models \in ModelFiles
  /\ modelsLock = None
  /\ registered = {}
  /\ pc = [p \in Procs |-> "off"]
  /\ prev = [p \in Procs |-> None]
  /\ held = [p \in Procs |-> {}]
  /\ checked = [p \in Procs |-> FALSE]
  /\ cache = [p \in Procs |-> NoCache]
  /\ pending = [p \in Procs |-> None]
  /\ trusted \in {f \in [Procs -> BOOLEAN] : \A p \in Procs \ Users : ~f[p]}
  /\ loads = [p \in Procs |-> [t \in Loads |-> NoLoad]]
  /\ upgraded = [p \in Procs |-> None]
  /\ alone = [p \in Procs |-> FALSE]
  /\ sessions = [p \in Procs |-> 0]
  /\ mishaps = 0

Goto(p, label) == pc' = [pc EXCEPT ![p] = label]

-------------------------------------------------------------------------------
(* Loading settings.                                                       *)

(* isPresent and the two tables of keys: the nested one wins, for each key. *)
ExtractOverrides(file) ==
  [r \in Roles |-> IF file.nested[r] # Unset THEN file.nested[r] ELSE file.flat[r]]

(* Object.assign, and a spread over the defaults. *)
Over(base, top) == [r \in Roles |-> IF top[r] # Unset THEN top[r] ELSE base[r]]

Defaults(p) == [r \in Roles |-> DefaultAt(Current[p], r)]

(* A process knows the history up to its own release. *)
Known(m) == {m.from, m.to} \subseteq {v \in KnownVersions : v <= m.to}

(* The roles whose setting is the default of the earlier release, where    *)
(* the two releases differ.                                                *)
Changes(m, settings) ==
  {r \in Roles : /\ Known(m)
                 /\ DefaultAt(m.from, r) # DefaultAt(m.to, r)
                 /\ settings[r] = DefaultAt(m.from, r)}

MigrateDefaults(m, settings) ==
  [r \in Roles |-> IF r \in Changes(m, settings) THEN DefaultAt(m.to, r) ELSE settings[r]]

InFlight(p) == {t \in Loads : loads[p][t].pc \in {"agent", "project"}}

(* Mutant: the cache does not tell trusted from untrusted. *)
HitAnyKey(p) ==
  IF cache[p][trusted[p]] # None THEN cache[p][trusted[p]] ELSE cache[p][~trusted[p]]

(* The key of the cache is the trust in the project at the time of a call. *)
Hit(p) == cache[p][trusted[p]]

(* The cached settings at once, or else the first read. *)
NewLoad(p) ==
  IF Hit(p) # None
  THEN [NoLoad EXCEPT !.pc = "done", !.trust = trusted[p], !.answer = Hit(p),
                      !.under = upgraded[p], !.alone = alone[p]]
  ELSE [NoLoad EXCEPT !.pc = "agent", !.trust = trusted[p]]

(* A tool of the running session asks for the settings. *)
BeginLoad(p, t) ==
  /\ p \in Users /\ pc[p] = "on"
  /\ loads[p][t].pc = "idle"
  /\ loads' = [loads EXCEPT ![p][t] = NewLoad(p)]
  /\ alone' = [alone EXCEPT ![p] = alone[p] /\ (Hit(p) # None \/ InFlight(p) = {})]
  /\ UNCHANGED <<disk, cache, pending, handler, upgraded, trusted, bounds>>

(* After its last read a load merges, applies the pending migration,       *)
(* clears it and fills the cache, whoever asked and whenever it began.     *)
FinishLoad(p, t, got) ==
  LET merged == Over(Defaults(p), got)
      answer == IF pending[p] # None THEN MigrateDefaults(pending[p], merged) ELSE merged
  IN  /\ loads' = [loads EXCEPT ![p][t] =
              [NoLoad EXCEPT !.pc = "done", !.trust = loads[p][t].trust, !.answer = answer,
                             !.under = upgraded[p], !.alone = alone[p]]]
      /\ cache' = [cache EXCEPT ![p][loads[p][t].trust] = answer]
      /\ pending' = [pending EXCEPT ![p] = None]

(* One settings file is read; a missing or malformed one counts as empty.  *)
ReadSettings(p, t, content) ==
  \/ /\ loads[p][t].pc = "agent"
     /\ loads[p][t].trust
     /\ loads' = [loads EXCEPT ![p][t] = [@ EXCEPT !.pc = "project", !.got = content]]
     /\ UNCHANGED <<cache, pending>>
  \/ /\ loads[p][t].pc = "agent"
     /\ ~loads[p][t].trust
     /\ FinishLoad(p, t, content)
  \/ /\ loads[p][t].pc = "project"
     /\ FinishLoad(p, t, Over(loads[p][t].got, content))

ReadSettingsSucceeds(p, t) ==
  /\ t \in InFlight(p)
  /\ ReadSettings(p, t, ExtractOverrides(files[loads[p][t].pc]))
  /\ UNCHANGED <<disk, handler, history, trusted, bounds>>

ReadSettingsFails(p, t) ==
  /\ mishaps < MaxMishaps
  /\ t \in InFlight(p)
  /\ ReadSettings(p, t, [r \in Roles |-> Unset])
  /\ mishaps' = mishaps + 1
  /\ UNCHANGED <<disk, handler, history, trusted, sessions>>

(* The tool goes on with the settings it was given. *)
UseSettings(p, t) ==
  /\ loads[p][t].pc = "done"
  /\ loads' = [loads EXCEPT ![p][t] = NoLoad]
  /\ UNCHANGED <<disk, cache, pending, handler, history, trusted, bounds>>

-------------------------------------------------------------------------------
(* The handler of session_start.                                           *)

(* The session is new: the cache is emptied.  What is pending stays, and   *)
(* so do loads of the earlier session.                                     *)
SessionStart(p) ==
  /\ pc[p] = "off" /\ sessions[p] < MaxSessions[p]
  /\ sessions' = [sessions EXCEPT ![p] = @ + 1]
  /\ cache' = [cache EXCEPT ![p] = NoCache]
  /\ upgraded' = [upgraded EXCEPT ![p] = None]
  /\ alone' = [alone EXCEPT ![p] = FALSE]
  /\ checked' = [checked EXCEPT ![p] = TRUE]
  /\ Goto(p, IF checked[p] THEN "version" ELSE "lock")
  /\ UNCHANGED <<disk, pending, loads, prev, held, trusted, mishaps>>

(* Mutant: models.json is changed without its lock. *)
AcquireModelsUnlocked(p) ==
  /\ pc[p] = "lock"
  /\ Goto(p, "read")
  /\ UNCHANGED <<disk, memory, prev, held, checked, history, trusted, bounds>>

AcquireModels(p) ==
  /\ pc[p] = "lock" /\ modelsLock = None
  /\ modelsLock' = p
  /\ Goto(p, "read")
  /\ UNCHANGED <<files, marker, models, registered, memory, prev, held, checked,
                 history, trusted, bounds>>

(* The path is a dangling link, its directory cannot be made, or the lock  *)
(* is not had in time: a warning, and startup goes on.                     *)
ModelsUnavailable(p) ==
  /\ pc[p] = "lock"
  /\ Goto(p, "version")
  /\ UNCHANGED <<disk, memory, prev, held, checked, history, trusted, bounds>>

(* A malformed file is left alone; a missing one counts as empty. *)
ReadModels(p) ==
  /\ pc[p] = "read"
  /\ held' = [held EXCEPT ![p] = IF models.valid THEN models.ids ELSE {}]
  /\ Goto(p, IF models.valid /\ ~(Required[p] \subseteq models.ids) THEN "rename" ELSE "unlock")
  /\ registered' = IF models.valid /\ Required[p] \subseteq models.ids
                   THEN registered \cup Required[p] ELSE registered
  /\ UNCHANGED <<files, marker, models, modelsLock, memory, prev, checked, history, trusted, bounds>>

(* What was read and the missing models, renamed over the file. *)
RenameModels(p) ==
  /\ pc[p] = "rename"
  /\ models' = [valid |-> TRUE, ids |-> held[p] \cup Required[p]]
  /\ registered' = registered \cup Required[p]
  /\ Goto(p, "unlock")
  /\ UNCHANGED <<files, marker, modelsLock, memory, prev, held, checked, history, trusted, bounds>>

(* The read, the write of the temporary file or its rename fails. *)
ModelsFail(p) ==
  /\ mishaps < MaxMishaps
  /\ pc[p] \in {"read", "rename"}
  /\ Goto(p, "unlock")
  /\ mishaps' = mishaps + 1
  /\ UNCHANGED <<disk, memory, prev, held, checked, history, trusted, sessions>>

ReleaseModels(p) ==
  /\ pc[p] = "unlock"
  /\ modelsLock' = None
  /\ held' = [held EXCEPT ![p] = {}]
  /\ Goto(p, "version")
  /\ UNCHANGED <<files, marker, models, registered, memory, prev, checked, history, trusted, bounds>>

(* No version, or one that cannot be parsed, is a fresh installation.  On  *)
(* a change of version the handler loads the settings for its notice.      *)
ReadVersion(p, found) ==
  /\ pc[p] = "version"
  /\ IF found # None /\ found # Current[p]
     THEN /\ prev' = [prev EXCEPT ![p] = found]
          /\ loads' = [loads EXCEPT ![p][Announcer] = NewLoad(p)]
          /\ Goto(p, "announce")
     ELSE /\ Goto(p, "truncate")
          /\ UNCHANGED <<prev, loads>>
  /\ UNCHANGED <<disk, cache, pending, held, checked, history, trusted>>

ReadVersionSucceeds(p) == ReadVersion(p, marker) /\ UNCHANGED bounds

ReadVersionFails(p) ==
  /\ mishaps < MaxMishaps
  /\ ReadVersion(p, None)
  /\ mishaps' = mishaps + 1
  /\ UNCHANGED sessions

(* Mutant: the settings loaded for the notice stay cached. *)
SetMigrationContextOnly(p) ==
  /\ pc[p] = "announce" /\ loads[p][Announcer].pc = "done"
  /\ pending' = [pending EXCEPT ![p] = [from |-> prev[p], to |-> Current[p]]]
  /\ upgraded' = [upgraded EXCEPT ![p] = [from |-> prev[p], to |-> Current[p]]]
  /\ alone' = [alone EXCEPT ![p] =
       \A t \in InFlight(p) : InFlight(p) = {t} /\ loads[p][t].trust = trusted[p]]
  /\ loads' = [loads EXCEPT ![p][Announcer] = NoLoad]
  /\ prev' = [prev EXCEPT ![p] = None]
  /\ Goto(p, "truncate")
  /\ UNCHANGED <<disk, cache, held, checked, trusted, bounds>>

(* The changes have been announced; only now is the migration set, and the *)
(* cache, filled by the handler's own load, emptied again.                 *)
SetMigrationContext(p) ==
  /\ pc[p] = "announce" /\ loads[p][Announcer].pc = "done"
  /\ pending' = [pending EXCEPT ![p] = [from |-> prev[p], to |-> Current[p]]]
  /\ upgraded' = [upgraded EXCEPT ![p] = [from |-> prev[p], to |-> Current[p]]]
  /\ alone' = [alone EXCEPT ![p] =
       \A t \in InFlight(p) : InFlight(p) = {t} /\ loads[p][t].trust = trusted[p]]
  /\ cache' = [cache EXCEPT ![p] = NoCache]
  /\ loads' = [loads EXCEPT ![p][Announcer] = NoLoad]
  /\ prev' = [prev EXCEPT ![p] = None]
  /\ Goto(p, "truncate")
  /\ UNCHANGED <<disk, held, checked, trusted, bounds>>

(* writeFile empties the version file before it writes it. *)
TruncateMarker(p) ==
  /\ pc[p] = "truncate"
  /\ marker' = None
  /\ Goto(p, "write")
  /\ UNCHANGED <<files, models, modelsLock, registered, memory, prev, held, checked,
                 history, trusted, bounds>>

WriteMarker(p) ==
  /\ pc[p] = "write"
  /\ marker' = Current[p]
  /\ Goto(p, "on")
  /\ UNCHANGED <<files, models, modelsLock, registered, memory, prev, held, checked,
                 history, trusted, bounds>>

(* The directory cannot be made, or the file not be opened or written. *)
MarkerFails(p) ==
  /\ mishaps < MaxMishaps
  /\ pc[p] \in {"truncate", "write"}
  /\ Goto(p, "on")
  /\ mishaps' = mishaps + 1
  /\ UNCHANGED <<disk, memory, prev, held, checked, history, trusted, sessions>>

SessionShutdown(p) ==
  /\ pc[p] = "on"
  /\ checked' = [checked EXCEPT ![p] = FALSE]
  /\ Goto(p, "off")
  /\ UNCHANGED <<disk, memory, prev, held, history, trusted, bounds>>

-------------------------------------------------------------------------------
(* The process and its user.                                               *)

(* Its memory is gone.  The lock it held is broken once it is stale, which *)
(* is FsLock; a waiter that does not wait for that finds models.json       *)
(* unavailable.                                                            *)
Crash(p) ==
  /\ mishaps < MaxMishaps
  /\ pc[p] \notin {"off", "dead"}
  /\ mishaps' = mishaps + 1
  /\ Goto(p, "dead")
  /\ cache' = [cache EXCEPT ![p] = NoCache]
  /\ pending' = [pending EXCEPT ![p] = None]
  /\ loads' = [loads EXCEPT ![p] = [t \in Loads |-> NoLoad]]
  /\ checked' = [checked EXCEPT ![p] = FALSE]
  /\ held' = [held EXCEPT ![p] = {}]
  /\ prev' = [prev EXCEPT ![p] = None]
  /\ upgraded' = [upgraded EXCEPT ![p] = None]
  /\ alone' = [alone EXCEPT ![p] = FALSE]
  /\ modelsLock' = IF modelsLock = p THEN None ELSE modelsLock
  /\ UNCHANGED <<files, marker, models, registered, trusted, sessions>>

(* A new process takes the place of the dead one. *)
Restart(p) ==
  /\ pc[p] = "dead"
  /\ Goto(p, "off")
  /\ UNCHANGED <<disk, memory, prev, held, checked, history, trusted, bounds>>

EditSettings ==
  /\ mishaps < MaxMishaps
  /\ \E d \in Dirs : \E file \in Files[d] : files' = [files EXCEPT ![d] = file]
  /\ mishaps' = mishaps + 1
  /\ UNCHANGED <<marker, models, modelsLock, registered, memory, handler, history,
                 trusted, sessions>>

EditModels ==
  /\ mishaps < MaxMishaps
  /\ models' \in ModelFiles
  /\ registered' = {}
  /\ mishaps' = mishaps + 1
  /\ UNCHANGED <<files, marker, modelsLock, memory, handler, history, trusted, sessions>>

(* The user approves the project, or goes on where it is not approved. *)
ChangeTrust(p) ==
  /\ mishaps < MaxMishaps
  /\ trusted' = [trusted EXCEPT ![p] = ~@]
  /\ alone' = [alone EXCEPT ![p] = FALSE]
  /\ mishaps' = mishaps + 1
  /\ UNCHANGED <<disk, memory, handler, upgraded, sessions>>

Handler(p) ==
  \/ AcquireModels(p) \/ ModelsUnavailable(p) \/ ReadModels(p) \/ RenameModels(p)
  \/ ReleaseModels(p) \/ ReadVersionSucceeds(p) \/ SetMigrationContext(p)
  \/ TruncateMarker(p) \/ WriteMarker(p)

Load(p) == \E t \in Loads : ReadSettingsSucceeds(p, t)

Environment(p) ==
  \/ SessionStart(p) \/ SessionShutdown(p) \/ ModelsFail(p) \/ ReadVersionFails(p)
  \/ MarkerFails(p) \/ Crash(p) \/ Restart(p) \/ ChangeTrust(p)
  \/ \E t \in Tools : BeginLoad(p, t) \/ UseSettings(p, t)
  \/ \E t \in Loads : ReadSettingsFails(p, t)

(* Nobody has anything left to do. *)
Quiet ==
  /\ \A p \in Procs : pc[p] \in {"off", "on", "dead"}
  /\ UNCHANGED vars

Next ==
  \/ \E p \in Procs : Handler(p) \/ Load(p) \/ Environment(p)
  \/ EditSettings \/ EditModels \/ Quiet

Spec == Init /\ [][Next]_vars

-------------------------------------------------------------------------------
(* "loadSettings() applies this migration in-memory so tools always get    *)
(* the migrated defaults" (settings.ts): a tool answered in a session that *)
(* announced a migration is given settings with nothing left to migrate,   *)
(* if since the migration was set no two loads overlapped and the trust in *)
(* the project did not change.  The one migration is consumed by the load  *)
(* that fills the cache for all later ones, whatever loads of earlier      *)
(* sessions, crashes, failed reads and failed writes of the version file   *)
(* do.  (Of two loads that overlap only the first is migrated, and the     *)
(* second fills the cache.)                                                *)
MigratedWhenAlone ==
  \A p \in Procs, t \in Tools :
    loads[p][t].under # None /\ loads[p][t].alone
      => Changes(loads[p][t].under, loads[p][t].answer) = {}

(* A project that is not trusted has no say: what only its own file names  *)
(* reaches no tool that was called without the trust, neither by a read    *)
(* nor by the cache, also when the trust came or went meanwhile.           *)
UntrustedHasNoSay ==
  \A p \in Procs, t \in Loads :
    loads[p][t].answer # None /\ ~loads[p][t].trust
      => \A r \in Roles : loads[p][t].answer[r] \notin ProjectOnly

(* What one process has registered in models.json, another that registers  *)
(* at the same time does not take away: the read, the merge and the rename *)
(* of two processes with different lists never overlap.                    *)
RegisteredStay == registered \subseteq models.ids
===============================================================================
