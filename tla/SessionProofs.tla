---------------------------- MODULE SessionProofs -----------------------------
(***************************************************************************)
(* Proofs about Session: types, what an unapproved project can say, the    *)
(* registration of models, and the migration that a tool is given.         *)
(***************************************************************************)
EXTENDS Session, TLAPS

-------------------------------------------------------------------------------
(* What loads compute.                                                     *)

(* A merge of overrides over overrides, or over settings, is one. *)
LEMMA OverType ==
  ASSUME NEW base, NEW top \in Overrides
  PROVE  /\ base \in Overrides => Over(base, top) \in Overrides
         /\ base \in Settings => Over(base, top) \in Settings
BY SMT DEF Over, Overrides, Settings

LEMMA ExtractType ==
  ASSUME NEW file \in SettingsFile
  PROVE  ExtractOverrides(file) \in Overrides
BY SMT DEF ExtractOverrides, SettingsFile, Overrides

LEMMA DefaultsType ==
  ASSUME NEW p \in Procs
  PROVE  /\ Defaults(p) \in Settings
         /\ \A r \in Roles : Defaults(p)[r] \notin ProjectOnly
BY SessionAssumption DEF Defaults, Settings

(* A release that is known has its defaults among the values. *)
LEMMA KnownDefault ==
  ASSUME NEW m, Known(m), NEW r \in Roles
  PROVE  DefaultAt(m.to, r) \in Values \ ProjectOnly
<1>1. m.to \in KnownVersions
  BY DEF Known
<1>2. QED
  BY <1>1, SessionAssumption

(* Migrated settings are settings, say nothing the settings did not say    *)
(* or a release does, and leave nothing to migrate.                        *)
LEMMA MigrateType ==
  ASSUME NEW m, NEW s \in Settings
  PROVE  /\ MigrateDefaults(m, s) \in Settings
         /\ (\A r \in Roles : s[r] \notin ProjectOnly)
              => \A r \in Roles : MigrateDefaults(m, s)[r] \notin ProjectOnly
<1>1. \A r \in Changes(m, s) : r \in Roles /\ DefaultAt(m.to, r) \in Values \ ProjectOnly
  BY KnownDefault DEF Changes
<1>2. QED
  BY <1>1 DEF MigrateDefaults, Settings

LEMMA MigratedOnce ==
  ASSUME NEW m, NEW s \in Settings
  PROVE  Changes(m, MigrateDefaults(m, s)) = {}
<1> SUFFICES ASSUME NEW r \in Changes(m, MigrateDefaults(m, s))
             PROVE  FALSE
  OBVIOUS
<1>1. /\ r \in Roles /\ Known(m)
      /\ DefaultAt(m.from, r) # DefaultAt(m.to, r)
      /\ MigrateDefaults(m, s)[r] = DefaultAt(m.from, r)
  BY DEF Changes
<1>2. CASE r \in Changes(m, s)
  BY <1>1, <1>2 DEF MigrateDefaults
<1>3. CASE r \notin Changes(m, s)
  BY <1>1, <1>3 DEF MigrateDefaults, Changes
<1>4. QED
  BY <1>2, <1>3

-------------------------------------------------------------------------------
(* Updates of one place of a table of tables.                              *)

LEMMA LoadsUpdate ==
  ASSUME loads \in [Procs -> [Loads -> LoadRecord]],
         NEW p \in Procs, NEW t \in Loads, NEW x \in LoadRecord,
         loads' = [loads EXCEPT ![p][t] = x]
  PROVE  /\ loads' \in [Procs -> [Loads -> LoadRecord]]
         /\ loads'[p][t] = x
         /\ \A q \in Procs, s \in Loads : q # p \/ s # t => loads'[q][s] = loads[q][s]
OBVIOUS

LEMMA CacheUpdate ==
  ASSUME cache \in [Procs -> [BOOLEAN -> Settings \cup {None}]],
         NEW p \in Procs, NEW b \in BOOLEAN, NEW x \in Settings \cup {None},
         cache' = [cache EXCEPT ![p][b] = x]
  PROVE  /\ cache' \in [Procs -> [BOOLEAN -> Settings \cup {None}]]
         /\ cache'[p][b] = x
         /\ \A q \in Procs, c \in BOOLEAN : q # p \/ c # b => cache'[q][c] = cache[q][c]
OBVIOUS

LEMMA NoLoadType == NoLoad \in LoadRecord
BY DEF NoLoad, LoadRecord, Overrides

-------------------------------------------------------------------------------
(* Types.                                                                  *)

(* The handler announces an upgrade only from a version it has read. *)
PrevRead == \A p \in Procs : pc[p] = "announce" => prev[p] # None

TypeInv == TypeOK /\ PrevRead

(* A load begins with the right types, from the cache or with a read. *)
LEMMA NewLoadType ==
  ASSUME TypeOK, NEW p \in Procs
  PROVE  NewLoad(p) \in LoadRecord
<1>1. /\ Hit(p) \in Settings \cup {None} /\ trusted[p] \in BOOLEAN
      /\ upgraded[p] \in Migration \cup {None} /\ alone[p] \in BOOLEAN
  BY DEF TypeOK, Hit
<1>2. QED
  BY <1>1, NoLoadType DEF NewLoad, NoLoad, LoadRecord

LEMMA FinishLoadType ==
  ASSUME TypeOK, NEW p \in Procs, NEW t \in Loads, NEW got \in Overrides, FinishLoad(p, t, got)
  PROVE  /\ loads' \in [Procs -> [Loads -> LoadRecord]]
         /\ cache' \in [Procs -> [BOOLEAN -> Settings \cup {None}]]
         /\ pending' \in [Procs -> Migration \cup {None}]
<1> DEFINE merged == Over(Defaults(p), got)
           answer == IF pending[p] # None THEN MigrateDefaults(pending[p], merged) ELSE merged
           record == [NoLoad EXCEPT !.pc = "done", !.trust = loads[p][t].trust, !.answer = answer,
                                    !.under = upgraded[p], !.alone = alone[p]]
<1>1. answer \in Settings
  <2>1. merged \in Settings
    BY OverType, DefaultsType
  <2>2. QED
    BY <2>1, MigrateType
<1>2. /\ loads[p][t].trust \in BOOLEAN /\ upgraded[p] \in Migration \cup {None}
      /\ alone[p] \in BOOLEAN
  BY DEF TypeOK, LoadRecord
<1> HIDE DEF answer
<1>3. record \in LoadRecord
  BY <1>1, <1>2, NoLoadType DEF NoLoad, LoadRecord
<1> HIDE DEF record
<1>4. /\ loads' = [loads EXCEPT ![p][t] = record]
      /\ cache' = [cache EXCEPT ![p][loads[p][t].trust] = answer]
      /\ pending' = [pending EXCEPT ![p] = None]
  BY DEF FinishLoad, record, answer
<1>5. loads' \in [Procs -> [Loads -> LoadRecord]]
  BY <1>3, <1>4, LoadsUpdate DEF TypeOK
<1>6. cache' \in [Procs -> [BOOLEAN -> Settings \cup {None}]]
  BY <1>1, <1>2, <1>4, CacheUpdate DEF TypeOK
<1>7. QED
  BY <1>4, <1>5, <1>6 DEF TypeOK

(* Whatever a read brings, the load goes on or ends with the right types. *)
LEMMA ReadSettingsType ==
  ASSUME TypeOK, NEW p \in Procs, NEW t \in Loads, NEW content \in Overrides,
         ReadSettings(p, t, content)
  PROVE  /\ loads' \in [Procs -> [Loads -> LoadRecord]]
         /\ cache' \in [Procs -> [BOOLEAN -> Settings \cup {None}]]
         /\ pending' \in [Procs -> Migration \cup {None}]
<1>1. loads[p][t] \in LoadRecord
  BY DEF TypeOK
<1>2. CASE /\ loads' = [loads EXCEPT ![p][t] = [@ EXCEPT !.pc = "project", !.got = content]]
           /\ UNCHANGED <<cache, pending>>
  <2> DEFINE record == [loads[p][t] EXCEPT !.pc = "project", !.got = content]
  <2>1. record \in LoadRecord
    BY <1>1 DEF LoadRecord
  <2>2. loads' = [loads EXCEPT ![p][t] = record]
    BY <1>2 DEF TypeOK
  <2> HIDE DEF record
  <2>3. QED
    BY <1>2, <2>1, <2>2, LoadsUpdate DEF TypeOK
<1>3. CASE FinishLoad(p, t, content)
  BY <1>3, FinishLoadType
<1>4. CASE FinishLoad(p, t, Over(loads[p][t].got, content))
  <2>1. loads[p][t].got \in Overrides
    BY <1>1 DEF LoadRecord
  <2>2. QED
    BY <1>4, <2>1, OverType, FinishLoadType
<1>5. QED
  BY <1>2, <1>3, <1>4 DEF ReadSettings

LEMMA TypeInit == Init => TypeInv
<1> SUFFICES ASSUME Init PROVE TypeInv
  OBVIOUS
<1>1. files \in [Dirs -> SettingsFile]
  BY SessionAssumption DEF Init
<1>2. loads \in [Procs -> [Loads -> LoadRecord]]
  BY NoLoadType DEF Init
<1>3. marker \in Nat \cup {None} /\ models.valid \in BOOLEAN
  BY SessionAssumption DEF Init
<1>4. cache \in [Procs -> [BOOLEAN -> Settings \cup {None}]]
  BY DEF Init, NoCache
<1>5. trusted \in [Procs -> BOOLEAN]
  BY DEF Init
<1>6. QED
  BY <1>1, <1>2, <1>3, <1>4, <1>5 DEF Init, TypeInv, TypeOK, PrevRead, Starting

(* The handler's steps, other than those of its load. *)
LEMMA TypeHandler ==
  ASSUME TypeInv, NEW p \in Procs, Handler(p) \/ SessionStart(p) \/ SessionShutdown(p)
           \/ ModelsFail(p) \/ ReadVersionFails(p) \/ MarkerFails(p)
  PROVE  TypeInv'
<1> USE DEF TypeInv
<1>1. ASSUME NEW found \in Nat \cup {None}, ReadVersion(p, found)
      PROVE  TypeInv'
  <2>1. CASE found # None /\ found # Current[p]
    <3>1. loads' = [loads EXCEPT ![p][Announcer] = NewLoad(p)]
      BY <1>1, <2>1 DEF ReadVersion
    <3>2. Announcer \in Loads
      BY DEF Loads
    <3>3. loads' \in [Procs -> [Loads -> LoadRecord]]
      BY <3>1, <3>2, NewLoadType, LoadsUpdate DEF TypeOK
    <3>4. QED
      BY <1>1, <2>1, <3>3 DEF ReadVersion, Goto, TypeOK, PrevRead, Starting, disk, history
  <2>2. CASE ~(found # None /\ found # Current[p])
    BY <1>1, <2>2 DEF ReadVersion, Goto, TypeOK, PrevRead, Starting, disk, history
  <2>3. QED
    BY <2>1, <2>2
<1>2. CASE SetMigrationContext(p)
  <2>1. prev[p] \in Nat /\ Current[p] \in Nat
    BY <1>2, SessionAssumption DEF SetMigrationContext, TypeOK, PrevRead
  <2>2. [from |-> prev[p], to |-> Current[p]] \in Migration
    BY <2>1 DEF Migration
  <2>3. loads' \in [Procs -> [Loads -> LoadRecord]]
    <3>1. Announcer \in Loads
      BY DEF Loads
    <3>2. loads' = [loads EXCEPT ![p][Announcer] = NoLoad]
      BY <1>2 DEF SetMigrationContext
    <3>3. QED
      BY <3>1, <3>2, NoLoadType, LoadsUpdate DEF TypeOK
  <2>4. NoCache \in [BOOLEAN -> Settings \cup {None}]
    BY DEF NoCache
  <2> DEFINE m == [from |-> prev[p], to |-> Current[p]]
             a == \A t \in InFlight(p) : InFlight(p) = {t} /\ loads[p][t].trust = trusted[p]
  <2>5. /\ pending' = [pending EXCEPT ![p] = m] /\ upgraded' = [upgraded EXCEPT ![p] = m]
        /\ cache' = [cache EXCEPT ![p] = NoCache]
        /\ alone' = [alone EXCEPT ![p] = a]
        /\ prev' = [prev EXCEPT ![p] = None] /\ pc' = [pc EXCEPT ![p] = "truncate"]
        /\ UNCHANGED <<files, marker, models, modelsLock, checked, trusted>>
    BY <1>2 DEF SetMigrationContext, Goto, disk
  <2>6. m \in Migration /\ a \in BOOLEAN
    BY <2>2
  <2> HIDE DEF m, a
  <2>7. QED
    BY <2>3, <2>4, <2>5, <2>6 DEF TypeOK, PrevRead, Starting
<1>3. CASE AcquireModels(p) \/ ModelsUnavailable(p)
  <2>1. UNCHANGED <<files, marker, models, memory, prev, checked, history, trusted>>
    BY <1>3 DEF AcquireModels, ModelsUnavailable, disk
  <2>2. modelsLock' \in Procs \cup {None}
    BY <1>3 DEF AcquireModels, ModelsUnavailable, TypeOK, disk
  <2>3. \E label \in {"read", "version"} : pc' = [pc EXCEPT ![p] = label]
    BY <1>3 DEF AcquireModels, ModelsUnavailable, Goto
  <2>4. QED
    BY <2>1, <2>2, <2>3 DEF TypeOK, PrevRead, Starting, memory, history
<1>4. CASE ReadModels(p)
  <2>1. UNCHANGED <<files, marker, models, modelsLock, memory, prev, checked, history, trusted>>
    BY <1>4 DEF ReadModels
  <2>2. \E label \in {"rename", "unlock"} : pc' = [pc EXCEPT ![p] = label]
    BY <1>4 DEF ReadModels, Goto
  <2>3. QED
    BY <2>1, <2>2 DEF TypeOK, PrevRead, Starting, memory, history
<1>5. CASE RenameModels(p) \/ ReleaseModels(p)
  <2>1. UNCHANGED <<files, marker, memory, prev, checked, history, trusted>>
    BY <1>5 DEF RenameModels, ReleaseModels
  <2>2. models'.valid \in BOOLEAN /\ modelsLock' \in Procs \cup {None}
    <3>1. CASE RenameModels(p)
      <4>1. models'.valid = TRUE /\ modelsLock' = modelsLock
        BY <3>1 DEF RenameModels
      <4>2. QED
        BY <4>1 DEF TypeOK
    <3>2. CASE ReleaseModels(p)
      BY <3>2 DEF ReleaseModels, TypeOK
    <3>3. QED
      BY <1>5, <3>1, <3>2
  <2>3. \E label \in {"unlock", "version"} : pc' = [pc EXCEPT ![p] = label]
    BY <1>5 DEF RenameModels, ReleaseModels, Goto
  <2>4. QED
    BY <2>1, <2>2, <2>3 DEF TypeOK, PrevRead, Starting, memory, history
<1>6. CASE ReadVersionSucceeds(p) \/ ReadVersionFails(p)
  BY <1>1, <1>6 DEF ReadVersionSucceeds, ReadVersionFails, TypeOK
<1>7. CASE TruncateMarker(p) \/ WriteMarker(p)
  <2>1. UNCHANGED <<files, models, modelsLock, memory, prev, checked, history, trusted>>
    BY <1>7 DEF TruncateMarker, WriteMarker
  <2>2. marker' \in Nat \cup {None}
    BY <1>7, SessionAssumption DEF TruncateMarker, WriteMarker
  <2>3. \E label \in {"write", "on"} : pc' = [pc EXCEPT ![p] = label]
    BY <1>7 DEF TruncateMarker, WriteMarker, Goto
  <2>4. QED
    BY <2>1, <2>2, <2>3 DEF TypeOK, PrevRead, Starting, memory, history
<1>8. CASE ModelsFail(p) \/ MarkerFails(p)
  BY <1>8 DEF ModelsFail, MarkerFails, Goto, TypeOK, PrevRead, Starting, disk, memory, history
<1>9. CASE SessionStart(p)
  BY <1>9 DEF SessionStart, Goto, TypeOK, PrevRead, Starting, disk, NoCache
<1>10. CASE SessionShutdown(p)
  BY <1>10 DEF SessionShutdown, Goto, TypeOK, PrevRead, Starting, disk, memory, history
<1>11. QED
  BY <1>2, <1>3, <1>4, <1>5, <1>6, <1>7, <1>8, <1>9, <1>10 DEF Handler

(* The steps of loads, of the process and of its user. *)
LEMMA TypeOthers ==
  ASSUME TypeInv,
         \/ \E p \in Procs : Crash(p) \/ Restart(p) \/ ChangeTrust(p)
         \/ \E p \in Procs : \E t \in Tools : BeginLoad(p, t) \/ UseSettings(p, t)
         \/ \E p \in Procs : \E t \in Loads : ReadSettingsSucceeds(p, t) \/ ReadSettingsFails(p, t)
         \/ EditSettings \/ EditModels \/ UNCHANGED vars
  PROVE  TypeInv'
<1> USE DEF TypeInv
<1>1. ASSUME NEW p \in Procs, NEW t \in Loads, ReadSettingsSucceeds(p, t) \/ ReadSettingsFails(p, t)
      PROVE  TypeInv'
  <2>1. PICK content \in Overrides : ReadSettings(p, t, content)
    <3>1. CASE ReadSettingsSucceeds(p, t)
      <4>1. loads[p][t].pc \in Dirs
        BY <3>1 DEF ReadSettingsSucceeds, InFlight, Dirs
      <4>2. QED
        BY <3>1, <4>1, ExtractType DEF ReadSettingsSucceeds, TypeOK
    <3>2. CASE ReadSettingsFails(p, t)
      <4>1. [r \in Roles |-> Unset] \in Overrides
        BY DEF Overrides
      <4>2. QED
        BY <3>2, <4>1 DEF ReadSettingsFails
    <3>3. QED
      BY <1>1, <3>1, <3>2
  <2>2. UNCHANGED <<disk, handler, history, trusted>>
    BY <1>1 DEF ReadSettingsSucceeds, ReadSettingsFails
  <2>3. QED
    BY <2>1, <2>2, ReadSettingsType DEF TypeOK, PrevRead, disk, handler, history
<1>2. ASSUME NEW p \in Procs, NEW t \in Tools, BeginLoad(p, t) \/ UseSettings(p, t)
      PROVE  TypeInv'
  <2>1. t \in Loads
    BY DEF Loads
  <2>2. loads' \in [Procs -> [Loads -> LoadRecord]]
    <3>1. PICK x \in LoadRecord : loads' = [loads EXCEPT ![p][t] = x]
      BY <1>2, NewLoadType, NoLoadType DEF BeginLoad, UseSettings
    <3>2. QED
      BY <2>1, <3>1, LoadsUpdate DEF TypeOK
  <2>3. alone' \in [Procs -> BOOLEAN]
    BY <1>2 DEF BeginLoad, UseSettings, TypeOK, history
  <2>4. UNCHANGED <<disk, handler, cache, pending, upgraded, trusted>>
    BY <1>2 DEF BeginLoad, UseSettings, history
  <2>5. QED
    BY <2>2, <2>3, <2>4 DEF TypeOK, PrevRead, disk, handler
<1>3. ASSUME NEW p \in Procs, Crash(p)
      PROVE  TypeInv'
  <2>1. [t \in Loads |-> NoLoad] \in [Loads -> LoadRecord]
    BY NoLoadType
  <2>2. /\ loads' \in [Procs -> [Loads -> LoadRecord]]
        /\ cache' \in [Procs -> [BOOLEAN -> Settings \cup {None}]]
    BY <1>3, <2>1 DEF Crash, TypeOK, NoCache
  <2>3. QED
    BY <1>3, <2>2 DEF Crash, Goto, TypeOK, PrevRead
<1>4. ASSUME NEW p \in Procs, Restart(p) \/ ChangeTrust(p)
      PROVE  TypeInv'
  BY <1>4 DEF Restart, ChangeTrust, Goto, TypeOK, PrevRead, disk, memory, handler, history
<1>5. CASE EditSettings
  <2>1. files' \in [Dirs -> SettingsFile]
    BY <1>5, SessionAssumption DEF EditSettings, TypeOK
  <2>2. QED
    BY <1>5, <2>1 DEF EditSettings, TypeOK, PrevRead, memory, handler, history
<1>6. CASE EditModels
  BY <1>6, SessionAssumption DEF EditModels, TypeOK, PrevRead, memory, handler, history
<1>7. CASE UNCHANGED vars
  BY <1>7 DEF vars, disk, memory, handler, history, bounds, TypeOK, PrevRead
<1>8. QED
  BY <1>1, <1>2, <1>3, <1>4, <1>5, <1>6, <1>7

LEMMA TypeNext == TypeInv /\ [Next]_vars => TypeInv'
BY TypeHandler, TypeOthers DEF Next, Load, Environment, Quiet

(* The variables of the sessions keep their types; in particular a         *)
(* migration is only ever set between two releases, never from a version   *)
(* that was not read.                                                      *)
THEOREM TypeCorrect == Spec => []TypeInv
BY TypeInit, TypeNext, PTL DEF Spec

-------------------------------------------------------------------------------
(* The registration of models.                                             *)

(* Between the read and the release the process has the lock. *)
LockHeld == \A p \in Procs : pc[p] \in {"read", "rename", "unlock"} => modelsLock = p

(* What it is about to write contains all that was registered: nobody      *)
(* else registers while it has the lock.                                   *)
ReadIsRecent ==
  /\ DOMAIN held = Procs
  /\ \A p \in Procs : pc[p] = "rename" => registered \subseteq held[p]

RegInv == TypeInv /\ RegisteredStay /\ LockHeld /\ ReadIsRecent

LEMMA RegInit == Init => RegInv
BY TypeInit DEF Init, RegInv, RegisteredStay, LockHeld, ReadIsRecent

(* Steps that neither change what is registered nor enter or leave the     *)
(* part under the lock.                                                    *)
LEMMA RegElsewhere ==
  ASSUME RegInv, NEW p \in Procs, NEW label \in {"off", "on", "dead", "lock"} \cup {"version", "announce", "truncate", "write"},
         pc[p] \notin {"read", "rename", "unlock"},
         pc' = [pc EXCEPT ![p] = label] \/ UNCHANGED pc,
         UNCHANGED <<models, modelsLock, registered, held>>
  PROVE  RegisteredStay' /\ LockHeld' /\ ReadIsRecent'
BY DEF RegInv, TypeInv, TypeOK, RegisteredStay, LockHeld, ReadIsRecent, Starting

(* The steps of the handler. *)
LEMMA RegHandler ==
  ASSUME RegInv, NEW p \in Procs, Handler(p) \/ SessionStart(p) \/ SessionShutdown(p)
           \/ ModelsFail(p) \/ ReadVersionFails(p) \/ MarkerFails(p)
  PROVE  RegisteredStay' /\ LockHeld' /\ ReadIsRecent'
<1> USE DEF RegInv
<1>1. CASE AcquireModels(p)
  BY <1>1, SessionAssumption
  DEF AcquireModels, Goto, TypeInv, TypeOK, RegisteredStay, LockHeld, ReadIsRecent
<1>2. CASE ReadModels(p)
  <2>1. /\ pc[p] = "read" /\ UNCHANGED <<models, modelsLock>>
        /\ \A q \in Procs : q # p => pc'[q] = pc[q] /\ held'[q] = held[q]
        /\ pc'[p] \in {"rename", "unlock"}
        /\ pc'[p] = "rename" => held'[p] = models.ids /\ registered' = registered
        /\ DOMAIN held' = Procs
    BY <1>2 DEF ReadModels, Goto, ReadIsRecent, TypeInv, TypeOK
  <2>2. registered' \subseteq models.ids
    BY <1>2 DEF ReadModels, RegisteredStay
  <2>3. \A q \in Procs : q # p => pc[q] \notin {"read", "rename", "unlock"}
    BY <2>1 DEF LockHeld
  <2>4. QED
    BY <2>1, <2>2, <2>3 DEF RegisteredStay, LockHeld, ReadIsRecent
<1>3. CASE RenameModels(p)
  <2>1. /\ pc[p] = "rename" /\ UNCHANGED <<modelsLock, held>>
        /\ pc' = [pc EXCEPT ![p] = "unlock"]
        /\ models'.ids = held[p] \cup Required[p]
        /\ registered' = registered \cup Required[p]
    BY <1>3 DEF RenameModels, Goto
  <2>2. \A q \in Procs : q # p => pc[q] \notin {"read", "rename", "unlock"}
    BY <2>1 DEF LockHeld
  <2>3. QED
    BY <2>1, <2>2 DEF RegisteredStay, LockHeld, ReadIsRecent, TypeInv, TypeOK
<1>4. CASE ModelsFail(p)
  BY <1>4 DEF ModelsFail, Goto, TypeInv, TypeOK, RegisteredStay, LockHeld, ReadIsRecent, disk
<1>5. CASE ReleaseModels(p)
  <2>1. /\ pc[p] = "unlock" /\ UNCHANGED <<models, registered>>
        /\ pc' = [pc EXCEPT ![p] = "version"] /\ held' = [held EXCEPT ![p] = {}]
    BY <1>5 DEF ReleaseModels, Goto
  <2>2. \A q \in Procs : q # p => pc[q] \notin {"read", "rename", "unlock"}
    BY <2>1 DEF LockHeld
  <2>3. QED
    BY <2>1, <2>2 DEF RegisteredStay, LockHeld, ReadIsRecent, TypeInv, TypeOK
<1>6. CASE ModelsUnavailable(p)
  BY <1>6, RegElsewhere DEF ModelsUnavailable, Goto, disk
<1>7. CASE ReadVersionSucceeds(p) \/ ReadVersionFails(p)
  BY <1>7, RegElsewhere DEF ReadVersionSucceeds, ReadVersionFails, ReadVersion, Goto, disk
<1>8. CASE SetMigrationContext(p)
  BY <1>8, RegElsewhere DEF SetMigrationContext, Goto, disk
<1>9. CASE TruncateMarker(p) \/ WriteMarker(p)
  BY <1>9, RegElsewhere DEF TruncateMarker, WriteMarker, Goto
<1>10. CASE MarkerFails(p)
  BY <1>10, RegElsewhere DEF MarkerFails, Goto, disk
<1>11. CASE SessionStart(p)
  BY <1>11, RegElsewhere DEF SessionStart, Goto, disk
<1>12. CASE SessionShutdown(p)
  BY <1>12, RegElsewhere DEF SessionShutdown, Goto, disk
<1>13. QED
  BY <1>1, <1>2, <1>3, <1>4, <1>5, <1>6, <1>7, <1>8, <1>9, <1>10, <1>11, <1>12 DEF Handler

(* The steps of loads, of the process and of its user. *)
LEMMA RegOthers ==
  ASSUME RegInv,
         \/ \E p \in Procs : Crash(p) \/ Restart(p) \/ ChangeTrust(p)
         \/ \E p \in Procs : \E t \in Tools : BeginLoad(p, t) \/ UseSettings(p, t)
         \/ \E p \in Procs : \E t \in Loads : ReadSettingsSucceeds(p, t) \/ ReadSettingsFails(p, t)
         \/ EditSettings \/ EditModels \/ UNCHANGED vars
  PROVE  RegisteredStay' /\ LockHeld' /\ ReadIsRecent'
<1> USE DEF RegInv
<1>1. ASSUME NEW p \in Procs, Crash(p)
      PROVE  RegisteredStay' /\ LockHeld' /\ ReadIsRecent'
  BY <1>1, SessionAssumption
  DEF Crash, Goto, TypeInv, TypeOK, RegisteredStay, LockHeld, ReadIsRecent
<1>2. ASSUME NEW p \in Procs, Restart(p)
      PROVE  RegisteredStay' /\ LockHeld' /\ ReadIsRecent'
  BY <1>2, RegElsewhere DEF Restart, Goto, disk
<1>3. CASE EditModels
  BY <1>3 DEF EditModels, RegisteredStay, LockHeld, ReadIsRecent, handler
<1>4. CASE UNCHANGED <<models, modelsLock, registered, pc, held>>
  BY <1>4 DEF RegisteredStay, LockHeld, ReadIsRecent
<1>5. QED
  BY <1>1, <1>2, <1>3, <1>4
  DEF ChangeTrust, BeginLoad, UseSettings, ReadSettingsSucceeds, ReadSettingsFails, EditSettings,
      vars, disk, handler

LEMMA RegNext == RegInv /\ [Next]_vars => RegInv'
BY TypeNext, RegHandler, RegOthers DEF RegInv, Next, Load, Environment, Quiet

(* What one process has registered in models.json stays there until the    *)
(* user edits the file, for any number of processes that start together.   *)
THEOREM RegisteredCorrect == Spec => []RegisteredStay
<1>1. RegInv => RegisteredStay
  BY DEF RegInv
<1>2. QED
  BY <1>1, RegInit, RegNext, PTL DEF Spec

-------------------------------------------------------------------------------
(* What an unapproved project can say.                                     *)

Innocent(settings) == \A r \in Roles : settings[r] \notin ProjectOnly

(* The agent's file never says what only the project's does. *)
FilesAllowed == \A d \in Dirs : files[d] \in Files[d]

(* Only a load made with the approval reads the project's file. *)
ProjectReadTrusted ==
  \A p \in Procs, t \in Loads : loads[p][t].pc = "project" => loads[p][t].trust

(* The cache of the unapproved project is innocent. *)
CacheInnocent == \A p \in Procs : cache[p][FALSE] # None => Innocent(cache[p][FALSE])

LoadsInnocent == ProjectReadTrusted /\ UntrustedHasNoSay

SayInv == TypeInv /\ FilesAllowed /\ CacheInnocent /\ LoadsInnocent

LEMMA SayInit == Init => SayInv
<1> SUFFICES ASSUME Init PROVE SayInv
  OBVIOUS
<1>1. FilesAllowed
  BY DEF Init, FilesAllowed
<1>2. CacheInnocent /\ LoadsInnocent
  BY DEF Init, NoCache, NoLoad, CacheInnocent, LoadsInnocent, ProjectReadTrusted, UntrustedHasNoSay
<1>3. QED
  BY <1>1, <1>2, TypeInit DEF SayInv

(* One load becomes another record that says nothing it must not. *)
LEMMA LoadsInnocentStep ==
  ASSUME TypeInv, LoadsInnocent, NEW p \in Procs, NEW t \in Loads, NEW x \in LoadRecord,
         loads' = [loads EXCEPT ![p][t] = x],
         x.pc = "project" => x.trust,
         x.answer # None /\ ~x.trust => Innocent(x.answer)
  PROVE  LoadsInnocent'
BY LoadsUpdate DEF TypeInv, TypeOK, LoadsInnocent, ProjectReadTrusted, UntrustedHasNoSay, Innocent

LEMMA NewLoadInnocent ==
  ASSUME SayInv, NEW p \in Procs
  PROVE  /\ NewLoad(p).pc # "project"
         /\ NewLoad(p).answer # None /\ ~NewLoad(p).trust => Innocent(NewLoad(p).answer)
<1>1. trusted[p] \in BOOLEAN
  BY DEF SayInv, TypeInv, TypeOK
<1>2. QED
  BY <1>1 DEF SayInv, CacheInnocent, NewLoad, NoLoad, Hit

(* A load without the approval has read the agent's file alone. *)
LEMMA FinishInnocent ==
  ASSUME SayInv, NEW p \in Procs, NEW t \in Loads, NEW got \in Overrides, FinishLoad(p, t, got),
         loads[p][t].trust \/ Innocent(got)
  PROVE  CacheInnocent' /\ LoadsInnocent'
<1> DEFINE merged == Over(Defaults(p), got)
           answer == IF pending[p] # None THEN MigrateDefaults(pending[p], merged) ELSE merged
           record == [NoLoad EXCEPT !.pc = "done", !.trust = loads[p][t].trust, !.answer = answer,
                                    !.under = upgraded[p], !.alone = alone[p]]
<1>1. answer \in Settings /\ (Innocent(got) => Innocent(answer))
  <2>1. merged \in Settings /\ (Innocent(got) => Innocent(merged))
    <3>1. merged \in Settings
      BY OverType, DefaultsType
    <3>2. Innocent(got) => Innocent(merged)
      BY DefaultsType DEF Over, Innocent
    <3>3. QED
      BY <3>1, <3>2
  <2> HIDE DEF merged
  <2>2. QED
    BY <2>1, MigrateType DEF Innocent
<1>2. /\ loads[p][t].trust \in BOOLEAN /\ upgraded[p] \in Migration \cup {None}
      /\ alone[p] \in BOOLEAN
  BY DEF SayInv, TypeInv, TypeOK, LoadRecord
<1> HIDE DEF answer
<1>3. /\ record \in LoadRecord /\ record.pc = "done"
      /\ record.trust = loads[p][t].trust /\ record.answer = answer
  BY <1>1, <1>2, NoLoadType DEF NoLoad, LoadRecord
<1> HIDE DEF record
<1>4. /\ loads' = [loads EXCEPT ![p][t] = record]
      /\ cache' = [cache EXCEPT ![p][loads[p][t].trust] = answer]
  BY DEF FinishLoad, record, answer
<1>5. LoadsInnocent'
  BY <1>1, <1>3, <1>4, LoadsInnocentStep DEF SayInv
<1>6. CacheInnocent'
  BY <1>1, <1>2, <1>4, CacheUpdate DEF SayInv, TypeInv, TypeOK, CacheInnocent
<1>7. QED
  BY <1>5, <1>6

LEMMA ReadInnocent ==
  ASSUME SayInv, NEW p \in Procs, NEW t \in Loads, NEW content \in Overrides,
         ReadSettings(p, t, content),
         loads[p][t].pc = "agent" => Innocent(content)
  PROVE  CacheInnocent' /\ LoadsInnocent'
<1>1. loads[p][t] \in LoadRecord
  BY DEF SayInv, TypeInv, TypeOK
<1>2. CASE /\ loads[p][t].pc = "agent" /\ loads[p][t].trust
           /\ loads' = [loads EXCEPT ![p][t] = [@ EXCEPT !.pc = "project", !.got = content]]
           /\ UNCHANGED <<cache, pending>>
  <2> DEFINE record == [loads[p][t] EXCEPT !.pc = "project", !.got = content]
  <2>1. record \in LoadRecord /\ record.trust
    BY <1>1, <1>2 DEF LoadRecord
  <2>2. loads' = [loads EXCEPT ![p][t] = record]
    BY <1>2 DEF SayInv, TypeInv, TypeOK
  <2> HIDE DEF record
  <2>3. LoadsInnocent'
    BY <2>1, <2>2, LoadsInnocentStep DEF SayInv
  <2>4. CacheInnocent'
    BY <1>2 DEF SayInv, CacheInnocent
  <2>5. QED
    BY <2>3, <2>4
<1>3. CASE loads[p][t].pc = "agent" /\ FinishLoad(p, t, content)
  BY <1>3, FinishInnocent
<1>4. CASE loads[p][t].pc = "project" /\ FinishLoad(p, t, Over(loads[p][t].got, content))
  <2>1. loads[p][t].got \in Overrides
    BY <1>1 DEF LoadRecord
  <2>2. loads[p][t].trust
    BY <1>4 DEF SayInv, LoadsInnocent, ProjectReadTrusted
  <2>3. QED
    BY <1>4, <2>1, <2>2, OverType, FinishInnocent
<1>5. QED
  BY <1>2, <1>3, <1>4 DEF ReadSettings

LEMMA SayNext == SayInv /\ [Next]_vars => SayInv'
<1> SUFFICES ASSUME SayInv, [Next]_vars
             PROVE  FilesAllowed' /\ CacheInnocent' /\ LoadsInnocent'
  BY TypeNext DEF SayInv
<1> USE DEF SayInv
<1>1. ASSUME NEW p \in Procs, NEW t \in Loads, ReadSettingsSucceeds(p, t)
      PROVE  FilesAllowed' /\ CacheInnocent' /\ LoadsInnocent'
  <2>1. loads[p][t].pc \in Dirs /\ files[loads[p][t].pc] \in SettingsFile
    BY <1>1 DEF ReadSettingsSucceeds, InFlight, Dirs, TypeInv, TypeOK
  <2>2. ReadSettings(p, t, ExtractOverrides(files[loads[p][t].pc])) /\ UNCHANGED files
    BY <1>1 DEF ReadSettingsSucceeds, disk
  <2>3. loads[p][t].pc = "agent" => Innocent(ExtractOverrides(files[loads[p][t].pc]))
    BY <2>1, SessionAssumption DEF FilesAllowed, Innocent, ExtractOverrides
  <2>4. QED
    BY <2>1, <2>2, <2>3, ExtractType, ReadInnocent DEF FilesAllowed
<1>2. ASSUME NEW p \in Procs, NEW t \in Loads, ReadSettingsFails(p, t)
      PROVE  FilesAllowed' /\ CacheInnocent' /\ LoadsInnocent'
  <2> DEFINE nothing == [r \in Roles |-> Unset]
  <2>1. nothing \in Overrides /\ Innocent(nothing)
    BY SessionAssumption DEF Overrides, Innocent
  <2>2. ReadSettings(p, t, nothing) /\ UNCHANGED files
    BY <1>2 DEF ReadSettingsFails, disk
  <2> HIDE DEF nothing
  <2>3. QED
    BY <2>1, <2>2, ReadInnocent DEF FilesAllowed
<1>3. ASSUME NEW p \in Procs, NEW t \in Tools, BeginLoad(p, t)
      PROVE  FilesAllowed' /\ CacheInnocent' /\ LoadsInnocent'
  <2>1. t \in Loads /\ loads' = [loads EXCEPT ![p][t] = NewLoad(p)] /\ UNCHANGED <<files, cache>>
    BY <1>3 DEF BeginLoad, Loads, disk
  <2>2. LoadsInnocent'
    BY <2>1, NewLoadType, NewLoadInnocent, LoadsInnocentStep DEF TypeInv
  <2>3. QED
    BY <2>1, <2>2 DEF FilesAllowed, CacheInnocent
<1>4. ASSUME NEW p \in Procs, NEW found, ReadVersion(p, found)
      PROVE  FilesAllowed' /\ CacheInnocent' /\ LoadsInnocent'
  <2>1. UNCHANGED <<files, cache>>
    BY <1>4 DEF ReadVersion, disk
  <2>2. CASE loads' = [loads EXCEPT ![p][Announcer] = NewLoad(p)]
    <3>1. Announcer \in Loads
      BY DEF Loads
    <3>2. LoadsInnocent'
      BY <2>2, <3>1, NewLoadType, NewLoadInnocent, LoadsInnocentStep DEF TypeInv
    <3>3. QED
      BY <2>1, <3>2 DEF FilesAllowed, CacheInnocent
  <2>3. CASE UNCHANGED loads
    BY <2>1, <2>3 DEF FilesAllowed, CacheInnocent, LoadsInnocent, ProjectReadTrusted, UntrustedHasNoSay
  <2>4. QED
    BY <1>4, <2>2, <2>3 DEF ReadVersion
<1>5. ASSUME NEW p \in Procs, NEW t \in Loads, loads' = [loads EXCEPT ![p][t] = NoLoad],
             UNCHANGED files, UNCHANGED cache \/ cache' = [cache EXCEPT ![p] = NoCache]
      PROVE  FilesAllowed' /\ CacheInnocent' /\ LoadsInnocent'
  <2>1. LoadsInnocent'
    BY <1>5, NoLoadType, LoadsInnocentStep DEF NoLoad
  <2>2. CacheInnocent'
    <3>1. CASE UNCHANGED cache
      BY <3>1 DEF CacheInnocent
    <3>2. CASE cache' = [cache EXCEPT ![p] = NoCache]
      <4>1. ASSUME NEW q \in Procs, cache'[q][FALSE] # None
            PROVE  cache'[q][FALSE] = cache[q][FALSE]
        BY <3>2, <4>1 DEF NoCache, TypeInv, TypeOK
      <4>2. QED
        BY <4>1 DEF CacheInnocent
    <3>3. QED
      BY <1>5, <3>1, <3>2
  <2>3. QED
    BY <1>5, <2>1, <2>2 DEF FilesAllowed
<1>6. ASSUME NEW p \in Procs, UseSettings(p, Announcer) \/ SetMigrationContext(p)
                                 \/ \E t \in Tools : UseSettings(p, t)
      PROVE  FilesAllowed' /\ CacheInnocent' /\ LoadsInnocent'
  BY <1>5, <1>6 DEF UseSettings, SetMigrationContext, Loads, disk
<1>7. ASSUME NEW p \in Procs, SessionStart(p)
      PROVE  FilesAllowed' /\ CacheInnocent' /\ LoadsInnocent'
  BY <1>7
  DEF SessionStart, disk, FilesAllowed, CacheInnocent, NoCache, LoadsInnocent, ProjectReadTrusted,
      UntrustedHasNoSay, TypeInv, TypeOK
<1>8. ASSUME NEW p \in Procs, Crash(p)
      PROVE  FilesAllowed' /\ CacheInnocent' /\ LoadsInnocent'
  <2>1. /\ cache' = [cache EXCEPT ![p] = NoCache] /\ UNCHANGED files
        /\ loads' = [loads EXCEPT ![p] = [t \in Loads |-> NoLoad]]
    BY <1>8 DEF Crash
  <2>2. QED
    BY <2>1
    DEF FilesAllowed, CacheInnocent, NoCache, NoLoad, LoadsInnocent, ProjectReadTrusted,
        UntrustedHasNoSay, TypeInv, TypeOK
<1>9. CASE EditSettings
  BY <1>9, SessionAssumption
  DEF EditSettings, memory, FilesAllowed, CacheInnocent, LoadsInnocent, ProjectReadTrusted,
      UntrustedHasNoSay, TypeInv, TypeOK
<1>10. CASE UNCHANGED <<files, cache, loads>>
  BY <1>10 DEF FilesAllowed, CacheInnocent, LoadsInnocent, ProjectReadTrusted, UntrustedHasNoSay
<1>11. QED
  <2>1. ASSUME NEW p \in Procs, Handler(p)
        PROVE  FilesAllowed' /\ CacheInnocent' /\ LoadsInnocent'
    BY <1>4, <1>6, <1>10, <2>1
    DEF Handler, AcquireModels, ModelsUnavailable, ReadModels, RenameModels, ReleaseModels,
        ReadVersionSucceeds, TruncateMarker, WriteMarker, disk, memory
  <2>2. ASSUME NEW p \in Procs, Environment(p)
        PROVE  FilesAllowed' /\ CacheInnocent' /\ LoadsInnocent'
    BY <1>2, <1>3, <1>4, <1>6, <1>7, <1>8, <1>10, <2>2
    DEF Environment, SessionShutdown, ModelsFail, ReadVersionFails, MarkerFails, Restart, ChangeTrust,
        disk, memory
  <2>3. CASE EditModels \/ UNCHANGED vars
    BY <1>10, <2>3 DEF EditModels, vars, disk, memory
  <2>4. QED
    BY <1>1, <1>9, <2>1, <2>2, <2>3 DEF Next, Load, Quiet

(* What only the file of an unapproved project names reaches no load made  *)
(* without the approval, by whatever order of reads, hits in the cache,    *)
(* changes of trust, sessions and migrations.                              *)
THEOREM UntrustedCorrect == Spec => []UntrustedHasNoSay
<1>1. SayInv => UntrustedHasNoSay
  BY DEF SayInv, LoadsInnocent
<1>2. QED
  BY <1>1, SayInit, SayNext, PTL DEF Spec

-------------------------------------------------------------------------------
(* The migration a tool is given.                                          *)

(* Before the handler has set a migration, the session has none. *)
NoneYet ==
  \A p \in Procs :
    pc[p] \in {"lock", "read", "rename", "unlock", "version", "announce"} => upgraded[p] = None

(* The migration waits for the load that consumes it: nothing is cached,   *)
(* and at most one load is under way, for the trust there is.              *)
Waiting(p) ==
  /\ pending[p] = upgraded[p]
  /\ \A b \in BOOLEAN : cache[p][b] = None
  /\ \A s, t \in InFlight(p) : s = t
  /\ \A t \in InFlight(p) : loads[p][t].trust = trusted[p]

(* It has been consumed: its result is cached, and nothing else comes.     *)
Consumed(p) ==
  /\ pending[p] = None
  /\ InFlight(p) = {}
  /\ cache[p][trusted[p]] # None
  /\ Changes(upgraded[p], cache[p][trusted[p]]) = {}

Placed(p) == upgraded[p] # None /\ alone[p] => Waiting(p) \/ Consumed(p)

Migrated(x) == x.under # None /\ x.alone => x.pc = "done" /\ Changes(x.under, x.answer) = {}

AllMigrated == \A p \in Procs, t \in Loads : Migrated(loads[p][t])

MigrationInv == TypeInv /\ NoneYet /\ (\A p \in Procs : Placed(p)) /\ AllMigrated

LEMMA MigrationInit == Init => MigrationInv
<1> SUFFICES ASSUME Init PROVE MigrationInv
  OBVIOUS
<1>1. NoneYet /\ \A p \in Procs : Placed(p)
  BY DEF Init, NoneYet, Placed
<1>2. AllMigrated
  BY DEF Init, AllMigrated, Migrated, NoLoad
<1>3. QED
  BY <1>1, <1>2, TypeInit DEF MigrationInv

(* One load becomes another record. *)
LEMMA LoadsMigratedStep ==
  ASSUME TypeInv, AllMigrated, NEW p \in Procs, NEW t \in Loads, NEW x \in LoadRecord,
         loads' = [loads EXCEPT ![p][t] = x], Migrated(x)
  PROVE  AllMigrated'
<1>1. \A q \in Procs, s \in Loads : loads'[q][s] = x \/ loads'[q][s] = loads[q][s]
  <2>1. loads'[p][t] = x
    BY LoadsUpdate DEF TypeInv, TypeOK
  <2>2. \A q \in Procs, s \in Loads : q # p \/ s # t => loads'[q][s] = loads[q][s]
    BY LoadsUpdate DEF TypeInv, TypeOK
  <2>3. QED
    BY <2>1, <2>2
<1>2. ASSUME NEW q \in Procs, NEW s \in Loads
      PROVE  Migrated(loads'[q][s])
  BY <1>1 DEF AllMigrated
<1>3. QED
  BY <1>2 DEF AllMigrated, Migrated

LEMMA InFlightStep ==
  ASSUME TypeInv, NEW p \in Procs, NEW t \in Loads, NEW x \in LoadRecord,
         loads' = [loads EXCEPT ![p][t] = x]
  PROVE  /\ \A s \in Loads \ {t} : s \in InFlight(p)' <=> s \in InFlight(p)
         /\ t \in InFlight(p)' <=> x.pc \in {"agent", "project"}
         /\ InFlight(p)' \subseteq Loads
BY LoadsUpdate DEF TypeInv, TypeOK, InFlight

(* What a process knows of its migration is its own. *)
LEMMA PlacedFrame ==
  ASSUME NEW q \in Procs, Placed(q), upgraded'[q] = upgraded[q], alone'[q] = alone[q],
         pending'[q] = pending[q], cache'[q] = cache[q], loads'[q] = loads[q],
         trusted'[q] = trusted[q]
  PROVE  Placed(q)'
BY DEF Placed, Waiting, Consumed, InFlight

LEMMA MigrationBegin ==
  ASSUME MigrationInv, NEW p \in Procs, NEW t \in Tools, BeginLoad(p, t)
  PROVE  (\A q \in Procs : Placed(q)') /\ AllMigrated'
<1> DEFINE x == NewLoad(p)
<1>1. /\ t \in Loads /\ x \in LoadRecord
      /\ loads' = [loads EXCEPT ![p][t] = x]
      /\ UNCHANGED <<upgraded, pending, cache, trusted>>
      /\ alone' = [alone EXCEPT ![p] = alone[p] /\ (Hit(p) # None \/ InFlight(p) = {})]
  BY NewLoadType DEF BeginLoad, Loads, MigrationInv, TypeInv
<1>2. /\ trusted[p] \in BOOLEAN /\ alone[p] \in BOOLEAN
      /\ cache[p][trusted[p]] = Hit(p)
      /\ alone'[p] => alone[p] /\ (Hit(p) # None \/ InFlight(p) = {})
  BY <1>1 DEF MigrationInv, TypeInv, TypeOK, Hit
<1>3. Migrated(x) /\ x.trust = trusted[p]
  <2>1. CASE Hit(p) # None
    <3>1. x.pc = "done" /\ x.answer = Hit(p) /\ x.under = upgraded[p] /\ x.alone = alone[p]
          /\ x.trust = trusted[p]
      BY <2>1 DEF NewLoad, NoLoad
    <3>2. upgraded[p] # None /\ alone[p] => Changes(upgraded[p], Hit(p)) = {}
      BY <1>2, <2>1 DEF MigrationInv, Placed, Waiting, Consumed
    <3> HIDE DEF x
    <3>3. QED
      BY <3>1, <3>2 DEF Migrated
  <2>2. CASE Hit(p) = None
    BY <2>2 DEF NewLoad, NoLoad, Migrated
  <2>3. QED
    BY <2>1, <2>2
<1>4. x.pc = IF Hit(p) # None THEN "done" ELSE "agent"
  BY DEF NewLoad, NoLoad
<1> HIDE DEF x
<1>5. AllMigrated'
  BY <1>1, <1>3, LoadsMigratedStep DEF MigrationInv
<1>6. ASSUME upgraded'[p] # None, alone'[p]
      PROVE  Waiting(p)' \/ Consumed(p)'
  <2>1. alone[p] /\ (Waiting(p) \/ Consumed(p))
    BY <1>1, <1>2, <1>6 DEF MigrationInv, Placed
  <2>2. CASE Waiting(p)
    <3>1. Hit(p) = None /\ InFlight(p) = {}
      BY <1>2, <1>6, <2>2 DEF Waiting
    <3>2. InFlight(p)' \subseteq {t}
      BY <1>1, <3>1, InFlightStep DEF MigrationInv
    <3>3. loads'[p][t].trust = trusted[p]
      BY <1>1, <1>3, LoadsUpdate DEF MigrationInv, TypeInv, TypeOK
    <3>4. QED
      BY <1>1, <2>2, <3>2, <3>3 DEF Waiting
  <2>3. CASE Consumed(p)
    <3>1. x.pc = "done"
      BY <1>2, <1>4, <2>3 DEF Consumed
    <3>2. InFlight(p)' = {}
      BY <1>1, <2>3, <3>1, InFlightStep DEF MigrationInv, Consumed
    <3>3. QED
      BY <1>1, <2>3, <3>2 DEF Consumed
  <2>4. QED
    BY <2>1, <2>2, <2>3
<1>7. ASSUME NEW q \in Procs, q # p
      PROVE  Placed(q)'
  BY <1>1, <1>7, PlacedFrame DEF MigrationInv, TypeInv, TypeOK
<1>8. QED
  BY <1>5, <1>6, <1>7 DEF Placed

(* The load that ends consumes the migration, and it is the only one.      *)
LEMMA MigrationFinish ==
  ASSUME MigrationInv, NEW p \in Procs, NEW t \in InFlight(p), NEW got \in Overrides,
         FinishLoad(p, t, got), UNCHANGED <<upgraded, alone, trusted>>
  PROVE  (\A q \in Procs : Placed(q)') /\ AllMigrated'
<1> DEFINE merged == Over(Defaults(p), got)
           answer == IF pending[p] # None THEN MigrateDefaults(pending[p], merged) ELSE merged
           record == [NoLoad EXCEPT !.pc = "done", !.trust = loads[p][t].trust, !.answer = answer,
                                    !.under = upgraded[p], !.alone = alone[p]]
<1>1. /\ merged \in Settings /\ answer \in Settings
      /\ pending[p] # None => Changes(pending[p], answer) = {}
  <2>1. merged \in Settings
    BY OverType, DefaultsType
  <2> HIDE DEF merged
  <2>2. QED
    BY <2>1, MigrateType, MigratedOnce
<1>2. /\ t \in Loads /\ loads[p][t].trust \in BOOLEAN /\ upgraded[p] \in Migration \cup {None}
      /\ alone[p] \in BOOLEAN
  BY DEF MigrationInv, TypeInv, TypeOK, LoadRecord, InFlight
<1> HIDE DEF answer
<1>3. /\ record \in LoadRecord /\ record.pc = "done" /\ record.answer = answer
      /\ record.under = upgraded[p] /\ record.alone = alone[p]
  BY <1>1, <1>2, NoLoadType DEF NoLoad, LoadRecord
<1> HIDE DEF record
<1>4. /\ loads' = [loads EXCEPT ![p][t] = record]
      /\ cache' = [cache EXCEPT ![p][loads[p][t].trust] = answer]
      /\ pending' = [pending EXCEPT ![p] = None]
  BY DEF FinishLoad, record, answer
<1>5. upgraded[p] # None /\ alone[p]
        => /\ pending[p] = upgraded[p] /\ InFlight(p) = {t}
           /\ loads[p][t].trust = trusted[p]
  BY DEF MigrationInv, Placed, Waiting, Consumed
<1>6. upgraded[p] # None /\ alone[p] => Changes(upgraded[p], answer) = {}
  BY <1>1, <1>5
<1>7. AllMigrated'
  BY <1>2, <1>3, <1>4, <1>6, LoadsMigratedStep DEF MigrationInv, Migrated
<1>8. ASSUME upgraded[p] # None, alone[p]
      PROVE  Consumed(p)'
  <2>1. InFlight(p)' = {}
    BY <1>2, <1>3, <1>4, <1>5, <1>8, InFlightStep DEF MigrationInv
  <2>2. cache'[p][trusted[p]] = answer /\ pending'[p] = None
    BY <1>1, <1>2, <1>4, <1>5, <1>8, CacheUpdate DEF MigrationInv, TypeInv, TypeOK
  <2>3. answer # None
    BY <1>1, SessionAssumption
  <2>4. QED
    BY <1>6, <1>8, <2>1, <2>2, <2>3 DEF Consumed
<1>9. ASSUME NEW q \in Procs, q # p
      PROVE  Placed(q)'
  BY <1>4, <1>9, PlacedFrame DEF MigrationInv, TypeInv, TypeOK
<1>10. QED
  BY <1>7, <1>8, <1>9 DEF Placed

LEMMA MigrationRead ==
  ASSUME MigrationInv, NEW p \in Procs, NEW t \in InFlight(p), NEW content \in Overrides,
         ReadSettings(p, t, content), UNCHANGED <<upgraded, alone, trusted>>
  PROVE  (\A q \in Procs : Placed(q)') /\ AllMigrated'
<1>1. t \in Loads /\ loads[p][t] \in LoadRecord
  BY DEF MigrationInv, TypeInv, TypeOK, InFlight
<1>2. CASE /\ loads' = [loads EXCEPT ![p][t] = [@ EXCEPT !.pc = "project", !.got = content]]
           /\ UNCHANGED <<cache, pending>>
  <2> DEFINE record == [loads[p][t] EXCEPT !.pc = "project", !.got = content]
  <2>1. /\ record \in LoadRecord /\ record.pc = "project" /\ record.trust = loads[p][t].trust
        /\ record.under = loads[p][t].under /\ record.alone = loads[p][t].alone
    BY <1>1 DEF LoadRecord
  <2>2. loads' = [loads EXCEPT ![p][t] = record]
    BY <1>2 DEF MigrationInv, TypeInv, TypeOK
  <2> HIDE DEF record
  <2>3. ~(loads[p][t].under # None /\ loads[p][t].alone)
    BY <1>1 DEF MigrationInv, AllMigrated, Migrated, InFlight
  <2>4. AllMigrated'
    BY <1>1, <2>1, <2>2, <2>3, LoadsMigratedStep DEF MigrationInv, Migrated
  <2>5. InFlight(p)' = InFlight(p) /\ \A s \in Loads : loads'[p][s].trust = loads[p][s].trust
    <3>1. InFlight(p)' = InFlight(p)
      BY <1>1, <2>1, <2>2, InFlightStep DEF MigrationInv, InFlight
    <3>2. QED
      BY <1>1, <2>1, <2>2, <3>1, LoadsUpdate DEF MigrationInv, TypeInv, TypeOK
  <2>6. Placed(p)'
    BY <1>2, <2>5 DEF MigrationInv, Placed, Waiting, Consumed, InFlight
  <2>7. ASSUME NEW q \in Procs, q # p
        PROVE  Placed(q)'
    BY <1>2, <2>2, <2>7, PlacedFrame DEF MigrationInv, TypeInv, TypeOK
  <2>8. QED
    BY <2>4, <2>6, <2>7
<1>3. CASE FinishLoad(p, t, content)
  BY <1>3, MigrationFinish
<1>4. CASE FinishLoad(p, t, Over(loads[p][t].got, content))
  <2>1. loads[p][t].got \in Overrides
    BY <1>1 DEF LoadRecord
  <2>2. QED
    BY <1>4, <2>1, OverType, MigrationFinish
<1>5. QED
  BY <1>2, <1>3, <1>4 DEF ReadSettings

LEMMA MigrationNext == MigrationInv /\ [Next]_vars => MigrationInv'
<1> SUFFICES ASSUME MigrationInv, [Next]_vars
             PROVE  NoneYet' /\ (\A q \in Procs : Placed(q)') /\ AllMigrated'
  BY TypeNext DEF MigrationInv
<1> USE DEF MigrationInv
<1> DEFINE Kept == NoneYet' /\ (\A q \in Procs : Placed(q)') /\ AllMigrated'
(* A step that leaves the settings in memory alone. *)
<1>1. ASSUME UNCHANGED <<cache, pending, loads, upgraded, alone, trusted>>
      PROVE  (\A q \in Procs : Placed(q)') /\ AllMigrated'
  BY <1>1, PlacedFrame DEF AllMigrated, Migrated
<1>2. ASSUME NEW p \in Procs, NEW t \in Loads, NEW content \in Overrides,
             t \in InFlight(p), ReadSettings(p, t, content),
             UNCHANGED <<pc, upgraded, alone, trusted>>
      PROVE  Kept
  BY <1>2, MigrationRead DEF NoneYet
<1>3. ASSUME NEW p \in Procs, NEW t \in Loads, ReadSettingsSucceeds(p, t) \/ ReadSettingsFails(p, t)
      PROVE  Kept
  <2>1. t \in InFlight(p) /\ UNCHANGED <<pc, upgraded, alone, trusted>>
    BY <1>3 DEF ReadSettingsSucceeds, ReadSettingsFails, handler, history
  <2>2. PICK content \in Overrides : ReadSettings(p, t, content)
    <3>1. CASE ReadSettingsSucceeds(p, t)
      <4>1. loads[p][t].pc \in Dirs
        BY <2>1 DEF InFlight, Dirs
      <4>2. QED
        BY <3>1, <4>1, ExtractType DEF ReadSettingsSucceeds, TypeInv, TypeOK
    <3>2. CASE ReadSettingsFails(p, t)
      <4>1. [r \in Roles |-> Unset] \in Overrides
        BY DEF Overrides
      <4>2. QED
        BY <3>2, <4>1 DEF ReadSettingsFails
    <3>3. QED
      BY <1>3, <3>1, <3>2
  <2>3. QED
    BY <1>2, <2>1, <2>2
<1>4. ASSUME NEW p \in Procs, NEW t \in Tools, BeginLoad(p, t)
      PROVE  Kept
  <2>1. UNCHANGED <<pc, upgraded>>
    BY <1>4 DEF BeginLoad, handler
  <2>2. QED
    BY <1>4, <2>1, MigrationBegin DEF NoneYet
<1>5. ASSUME NEW p \in Procs, NEW t \in Tools, UseSettings(p, t)
      PROVE  Kept
  <2>1. /\ t \in Loads /\ loads[p][t].pc = "done" /\ loads' = [loads EXCEPT ![p][t] = NoLoad]
        /\ UNCHANGED <<pc, upgraded, alone, cache, pending, trusted>>
    BY <1>5 DEF UseSettings, Loads, handler, history
  <2>2. NoLoad.pc = "idle" /\ Migrated(NoLoad)
    BY DEF NoLoad, Migrated
  <2>3. AllMigrated'
    BY <2>1, <2>2, NoLoadType, LoadsMigratedStep
  <2>4. InFlight(p)' = InFlight(p)
    BY <2>1, <2>2, NoLoadType, InFlightStep DEF InFlight
  <2>5. \A s \in InFlight(p) : loads'[p][s].trust = loads[p][s].trust
    <3>1. \A s \in InFlight(p) : s \in Loads /\ s # t
      BY <2>1 DEF InFlight
    <3>2. QED
      BY <2>1, <3>1, NoLoadType, LoadsUpdate DEF TypeInv, TypeOK
  <2>6. Placed(p)'
    BY <2>1, <2>4, <2>5 DEF Placed, Waiting, Consumed
  <2>7. ASSUME NEW q \in Procs, q # p
        PROVE  Placed(q)'
    BY <2>1, <2>7, PlacedFrame DEF TypeInv, TypeOK
  <2>8. QED
    BY <2>1, <2>3, <2>6, <2>7 DEF NoneYet
<1>6. ASSUME NEW p \in Procs, NEW found, ReadVersion(p, found)
      PROVE  Kept
  <2>1. /\ upgraded[p] = None /\ UNCHANGED <<cache, pending, upgraded, alone, trusted>>
        /\ \E label \in {"announce", "truncate"} : pc' = [pc EXCEPT ![p] = label]
    BY <1>6 DEF ReadVersion, Goto, NoneYet, history
  <2>2. NoneYet'
    BY <2>1 DEF NoneYet, TypeInv, TypeOK
  <2>3. Placed(p)'
    BY <2>1 DEF Placed
  <2>4. CASE loads' = [loads EXCEPT ![p][Announcer] = NewLoad(p)]
    <3>1. Announcer \in Loads
      BY DEF Loads
    <3>2. Migrated(NewLoad(p))
      BY <2>1 DEF Migrated, NewLoad, NoLoad
    <3>3. AllMigrated'
      BY <2>4, <3>1, <3>2, NewLoadType, LoadsMigratedStep DEF TypeInv
    <3>4. ASSUME NEW q \in Procs, q # p
          PROVE  Placed(q)'
      BY <2>1, <2>4, <3>4, PlacedFrame DEF TypeInv, TypeOK
    <3>5. QED
      BY <2>2, <2>3, <3>3, <3>4
  <2>5. CASE UNCHANGED loads
    BY <1>1, <2>1, <2>2, <2>5
  <2>6. QED
    BY <1>6, <2>4, <2>5 DEF ReadVersion
<1>7. ASSUME NEW p \in Procs, SetMigrationContext(p)
      PROVE  Kept
  <2> DEFINE m == [from |-> prev[p], to |-> Current[p]]
             a == \A t \in InFlight(p) : InFlight(p) = {t} /\ loads[p][t].trust = trusted[p]
  <2>1. /\ loads[p][Announcer].pc = "done" /\ loads' = [loads EXCEPT ![p][Announcer] = NoLoad]
        /\ pending' = [pending EXCEPT ![p] = m] /\ upgraded' = [upgraded EXCEPT ![p] = m]
        /\ cache' = [cache EXCEPT ![p] = NoCache] /\ alone' = [alone EXCEPT ![p] = a]
        /\ pc' = [pc EXCEPT ![p] = "truncate"] /\ UNCHANGED trusted
    BY <1>7 DEF SetMigrationContext, Goto
  <2> HIDE DEF m
  <2>2. Announcer \in Loads /\ NoLoad.pc = "idle" /\ Migrated(NoLoad)
    BY DEF Loads, NoLoad, Migrated
  <2>3. AllMigrated'
    BY <2>1, <2>2, NoLoadType, LoadsMigratedStep
  <2>4. InFlight(p)' = InFlight(p)
    BY <2>1, <2>2, NoLoadType, InFlightStep DEF InFlight
  <2>5. \A s \in InFlight(p) : loads'[p][s].trust = loads[p][s].trust
    <3>1. \A s \in InFlight(p) : s \in Loads /\ s # Announcer
      BY <2>1 DEF InFlight
    <3>2. QED
      BY <2>1, <2>2, <3>1, NoLoadType, LoadsUpdate DEF TypeInv, TypeOK
  <2>6. Placed(p)'
    <3>1. alone'[p] = a /\ pending'[p] = m /\ upgraded'[p] = m /\ cache'[p] = NoCache
      BY <2>1 DEF TypeInv, TypeOK
    <3>2. a => Waiting(p)'
      <4>1. \A b \in BOOLEAN : cache'[p][b] = None
        BY <3>1 DEF NoCache
      <4>2. QED
        BY <2>1, <2>4, <2>5, <3>1, <4>1 DEF Waiting
    <3>3. QED
      BY <3>1, <3>2 DEF Placed
  <2>7. ASSUME NEW q \in Procs, q # p
        PROVE  Placed(q)'
    BY <2>1, <2>7, PlacedFrame DEF TypeInv, TypeOK
  <2>8. NoneYet'
    BY <2>1 DEF NoneYet, TypeInv, TypeOK
  <2>9. QED
    BY <2>3, <2>6, <2>7, <2>8
<1>8. ASSUME NEW p \in Procs, SessionStart(p)
      PROVE  Kept
  <2>1. /\ upgraded' = [upgraded EXCEPT ![p] = None] /\ alone' = [alone EXCEPT ![p] = FALSE]
        /\ cache' = [cache EXCEPT ![p] = NoCache] /\ UNCHANGED <<pending, loads, trusted>>
        /\ \E label \in {"version", "lock"} : pc' = [pc EXCEPT ![p] = label]
    BY <1>8 DEF SessionStart, Goto
  <2>2. NoneYet' /\ Placed(p)'
    BY <2>1 DEF NoneYet, Placed, TypeInv, TypeOK
  <2>3. ASSUME NEW q \in Procs, q # p
        PROVE  Placed(q)'
    BY <2>1, <2>3, PlacedFrame DEF TypeInv, TypeOK
  <2>4. AllMigrated'
    BY <2>1 DEF AllMigrated, Migrated
  <2>5. QED
    BY <2>2, <2>3, <2>4
<1>9. ASSUME NEW p \in Procs, Crash(p)
      PROVE  Kept
  <2>1. /\ upgraded' = [upgraded EXCEPT ![p] = None] /\ alone' = [alone EXCEPT ![p] = FALSE]
        /\ cache' = [cache EXCEPT ![p] = NoCache] /\ pending' = [pending EXCEPT ![p] = None]
        /\ loads' = [loads EXCEPT ![p] = [t \in Loads |-> NoLoad]] /\ UNCHANGED trusted
        /\ pc' = [pc EXCEPT ![p] = "dead"]
    BY <1>9 DEF Crash, Goto
  <2>2. NoneYet' /\ Placed(p)'
    BY <2>1 DEF NoneYet, Placed, TypeInv, TypeOK
  <2>3. ASSUME NEW q \in Procs, q # p
        PROVE  Placed(q)'
    BY <2>1, <2>3, PlacedFrame DEF TypeInv, TypeOK
  <2>4. Migrated(NoLoad)
    BY DEF NoLoad, Migrated
  <2>5. ASSUME NEW q \in Procs, NEW t \in Loads
        PROVE  Migrated(loads'[q][t])
    <3>1. loads'[q][t] = NoLoad \/ loads'[q][t] = loads[q][t]
      BY <2>1 DEF TypeInv, TypeOK
    <3>2. QED
      BY <2>4, <3>1 DEF AllMigrated
  <2>6. AllMigrated'
    BY <2>5 DEF AllMigrated, Migrated
  <2>7. QED
    BY <2>2, <2>3, <2>6
<1>10. ASSUME NEW p \in Procs, ChangeTrust(p)
       PROVE  Kept
  <2>1. /\ alone' = [alone EXCEPT ![p] = FALSE] /\ trusted' = [trusted EXCEPT ![p] = ~trusted[p]]
        /\ UNCHANGED <<cache, pending, loads, pc, upgraded>>
    BY <1>10 DEF ChangeTrust, memory, handler
  <2>2. Placed(p)'
    BY <2>1 DEF Placed, TypeInv, TypeOK
  <2>3. ASSUME NEW q \in Procs, q # p
        PROVE  Placed(q)'
    BY <2>1, <2>3, PlacedFrame DEF TypeInv, TypeOK
  <2>4. NoneYet' /\ AllMigrated'
    BY <2>1 DEF NoneYet, AllMigrated, Migrated
  <2>5. QED
    BY <2>2, <2>3, <2>4
(* A step of the handler, or of its process, that only moves on. *)
<1>11. ASSUME UNCHANGED <<cache, pending, loads, upgraded, alone, trusted>>, NoneYet'
       PROVE  Kept
  BY <1>1, <1>11
<1>12. ASSUME NEW p \in Procs,
              \/ AcquireModels(p) \/ ModelsUnavailable(p) \/ ReadModels(p) \/ RenameModels(p)
              \/ ReleaseModels(p) \/ ModelsFail(p)
       PROVE  Kept
  <2>1. /\ UNCHANGED <<cache, pending, loads, upgraded, alone, trusted>>
        /\ pc[p] \in {"lock", "read", "rename", "unlock"}
        /\ \E label \in {"read", "rename", "unlock", "version"} : pc' = [pc EXCEPT ![p] = label]
    BY <1>12
    DEF AcquireModels, ModelsUnavailable, ReadModels, RenameModels, ReleaseModels, ModelsFail, Goto,
        memory, history
  <2>2. NoneYet'
    BY <2>1 DEF NoneYet, TypeInv, TypeOK
  <2>3. QED
    BY <1>11, <2>1, <2>2
<1>13. ASSUME NEW p \in Procs,
              \/ TruncateMarker(p) \/ WriteMarker(p) \/ MarkerFails(p) \/ SessionShutdown(p)
              \/ Restart(p)
       PROVE  Kept
  <2>1. /\ UNCHANGED <<cache, pending, loads, upgraded, alone, trusted>>
        /\ \E label \in {"write", "on", "off"} : pc' = [pc EXCEPT ![p] = label]
    BY <1>13
    DEF TruncateMarker, WriteMarker, MarkerFails, SessionShutdown, Restart, Goto, memory, history
  <2>2. NoneYet'
    BY <2>1 DEF NoneYet, TypeInv, TypeOK
  <2>3. QED
    BY <1>11, <2>1, <2>2
<1>14. CASE EditSettings \/ EditModels \/ UNCHANGED vars
  <2>1. UNCHANGED <<cache, pending, loads, upgraded, alone, trusted, pc>>
    BY <1>14 DEF EditSettings, EditModels, vars, memory, handler, history
  <2>2. QED
    BY <1>11, <2>1 DEF NoneYet
<1>15. ASSUME NEW p \in Procs, Handler(p) \/ Load(p) \/ Environment(p)
       PROVE  Kept
  <2>1. ASSUME Handler(p)
        PROVE  Kept
    BY <1>6, <1>7, <1>12, <1>13, <2>1 DEF Handler, ReadVersionSucceeds
  <2>2. ASSUME Environment(p)
        PROVE  Kept
    BY <1>3, <1>4, <1>5, <1>6, <1>8, <1>9, <1>10, <1>12, <1>13, <2>2 DEF Environment, ReadVersionFails
  <2>3. QED
    BY <1>3, <1>15, <2>1, <2>2 DEF Load
<1>16. QED
  BY <1>14, <1>15 DEF Next, Quiet

(* A tool answered in a session that announced a migration is given        *)
(* settings with nothing left to migrate, if no loads overlapped and the   *)
(* trust stayed: for any number of processes, tools and sessions, whatever *)
(* crashes, fails or is edited meanwhile.                                  *)
THEOREM MigratedCorrect == Spec => []MigratedWhenAlone
<1>1. MigrationInv => MigratedWhenAlone
  BY DEF MigrationInv, AllMigrated, Migrated, MigratedWhenAlone, Loads
<1>2. QED
  BY <1>1, MigrationInit, MigrationNext, PTL DEF Spec

===============================================================================
