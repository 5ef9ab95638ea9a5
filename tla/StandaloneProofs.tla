--------------------------- MODULE StandaloneProofs ---------------------------
(***************************************************************************)
(* Proofs about Standalone: types, what a call may cost, that a completed  *)
(* setup connects and is served, and whose output is diverted.             *)
(***************************************************************************)
EXTENDS Standalone, FiniteSets, FiniteSetTheorems, TLAPS

CallRecord == [pc : CallPlaces, keyed : BOOLEAN, aborted : BOOLEAN,
               billed : 0 .. MaxBilled, answer : Answers, keyless : BOOLEAN]
PlanRecord == [pc : SetupPlaces, draft : Document, target : KeyFiles]

(* One place of a table is replaced. *)
LEMMA CallUpdate ==
  ASSUME call \in [Calls -> CallRecord], NEW c \in Calls, NEW x \in CallRecord,
         call' = [call EXCEPT ![c] = x]
  PROVE  /\ call' \in [Calls -> CallRecord]
         /\ call'[c] = x
         /\ \A d \in Calls : d # c => call'[d] = call[d]
OBVIOUS

LEMMA PlanUpdate ==
  ASSUME setup \in [Setups -> PlanRecord], NEW s \in Setups, NEW x \in PlanRecord,
         setup' = [setup EXCEPT ![s] = x]
  PROVE  /\ setup' \in [Setups -> PlanRecord]
         /\ setup'[s] = x
         /\ \A t \in Setups : t # s => setup'[t] = setup[t]
OBVIOUS

-------------------------------------------------------------------------------
(* What a call may cost.                                                   *)

(* The credential and the preflight come before anything is asked for, and *)
(* nothing refuses a call after that.                                      *)
CallSound(x) ==
  /\ x.pc # "ended" => x.answer = None /\ ~x.keyless
  /\ x.pc \in {"idle", "scan", "credential", "readKey", "catalogue", "scanAgain"} => x.billed = 0
  /\ x.pc \in {"catalogue", "scanAgain", "operate", "request"} => x.keyed
  /\ x.answer \in Refusals => x.billed = 0
  /\ x.billed > 0 => x.keyed
  /\ x.aborted => x.answer \in {None, "result", "CANCELLED"}

CallsInv == call \in [Calls -> CallRecord] /\ \A c \in Calls : CallSound(call[c])

LEMMA AnsweredSound ==
  ASSUME CallsInv, NEW c \in Calls, call[c].pc # "ended",
         NEW code \in Refusals \cup {"PROVIDER", "OPERATION"},
         code \in Refusals => call[c].billed = 0
  PROVE  /\ Answered(c, code) \in CallRecord /\ CallSound(Answered(c, code))
         /\ Answered(c, code).pc = "ended" /\ ~Answered(c, code).keyless
         /\ [Answered(c, code) EXCEPT !.keyless = TRUE] \in CallRecord
         /\ CallSound([Answered(c, code) EXCEPT !.keyless = TRUE])
<1> DEFINE x == Answered(c, code)
           y == [x EXCEPT !.keyless = TRUE]
<1>1. call[c] \in CallRecord /\ CallSound(call[c])
  BY DEF CallsInv
<1>2. /\ x \in CallRecord /\ x.pc = "ended" /\ x.answer = IF call[c].aborted THEN "CANCELLED" ELSE code
      /\ x.billed = call[c].billed /\ x.keyed = call[c].keyed /\ x.aborted = call[c].aborted
      /\ x.keyless = call[c].keyless
  BY <1>1 DEF Answered, CallRecord, CallPlaces, Answers
<1>3. CallSound(x) /\ ~x.keyless
  BY <1>1, <1>2 DEF CallSound, Refusals
<1> HIDE DEF x
<1>4. y \in CallRecord /\ CallSound(y)
  BY <1>2, <1>3 DEF CallRecord, CallSound
<1>5. QED
  BY <1>2, <1>3, <1>4 DEF x

(* The call becomes a sound record. *)
Becomes(c) ==
  \E x \in CallRecord : call' = [call EXCEPT ![c] = x] /\ CallSound(x)

LEMMA GoesSound ==
  ASSUME CallsInv, NEW c \in Calls, NEW place, CallGoes(c, place),
         \/ call[c].pc = "idle" /\ place = "scan"
         \/ call[c].pc = "scan" /\ place = "credential"
         \/ call[c].pc = "credential" /\ place = "readKey"
         \/ call[c].pc = "catalogue" /\ place = "scanAgain"
         \/ call[c].pc \in {"scanAgain", "request"} /\ place = "operate"
  PROVE  Becomes(c)
<1> DEFINE x == [call[c] EXCEPT !.pc = place]
<1>1. call[c] \in CallRecord /\ CallSound(call[c])
  BY DEF CallsInv
<1>2. x \in CallRecord /\ CallSound(x)
  BY <1>1 DEF CallRecord, CallPlaces, CallSound
<1>3. call' = [call EXCEPT ![c] = x]
  BY DEF CallGoes, CallsInv
<1>4. QED
  BY <1>2, <1>3 DEF Becomes

LEMMA RefuseSound ==
  ASSUME CallsInv, NEW c \in Calls, call[c].pc # "ended",
         NEW code \in Refusals \cup {"PROVIDER", "OPERATION"},
         code \in Refusals => call[c].billed = 0, Refuse(c, code)
  PROVE  Becomes(c)
BY AnsweredSound DEF Refuse, Becomes

LEMMA KeyedSound ==
  ASSUME CallsInv, NEW c \in Calls, call[c].pc \in {"credential", "readKey"},
         \/ Unusable(c)
         \/ \E key : Keyed(c, key)
  PROVE  Becomes(c)
<1> DEFINE x == [call[c] EXCEPT !.pc = "catalogue", !.keyed = TRUE]
<1>1. call[c] \in CallRecord /\ CallSound(call[c]) /\ call[c].billed = 0
  BY DEF CallsInv, CallSound
<1>2. x \in CallRecord /\ CallSound(x)
  BY <1>1 DEF CallRecord, CallPlaces, CallSound
<1> HIDE DEF x
<1>3. CASE call' = [call EXCEPT ![c] = x]
  BY <1>2, <1>3 DEF Becomes
<1>4. CASE call' = [call EXCEPT ![c] = [Answered(c, "CONFIGURATION") EXCEPT !.keyless = TRUE]]
  BY <1>1, <1>4, AnsweredSound DEF Becomes, Refusals
<1>5. QED
  BY <1>3, <1>4 DEF Keyed, Unusable, Category, x

(* Every step of a call is one of these, or asks for a completion, ends or *)
(* aborts it.                                                              *)
LEMMA CallSteps ==
  ASSUME CallsInv, NEW c \in Calls, Call(c)
  PROVE  Becomes(c)
<1>t. call[c] \in CallRecord /\ CallSound(call[c])
  BY DEF CallsInv
<1>1. CASE Begin(c)
  BY <1>t, <1>1, GoesSound, RefuseSound DEF Begin, Refusals, CallSound
<1>2. CASE Scan(c)
  BY <1>t, <1>2, GoesSound, RefuseSound DEF Scan, Category, Refusals, CallSound
<1>3. CASE InspectCredential(c)
  <2>1. \/ Unusable(c) \/ CallGoes(c, "readKey")
        \/ Keyed(c, launch.key) \/ Keyed(c, None)
    <3>1. CASE launch.key # None
      BY <1>3, <3>1 DEF InspectCredential
    <3>2. CASE launch.key = None /\ server.keyFile = None
      BY <1>3, <3>2 DEF InspectCredential
    <3>3. CASE launch.key = None /\ server.keyFile # None
      <4>1. CASE cred[server.keyFile] = None \/ cred[server.keyFile] = "unsafe"
        BY <1>3, <3>3, <4>1, StandaloneAssumption DEF InspectCredential
      <4>2. CASE ~(cred[server.keyFile] = None \/ cred[server.keyFile] = "unsafe")
        BY <1>3, <3>3, <4>2 DEF InspectCredential
      <4>3. QED
        BY <4>1, <4>2
    <3>4. QED
      BY <3>1, <3>2, <3>3
  <2>2. call[c].pc = "credential"
    BY <1>3 DEF InspectCredential
  <2>3. QED
    BY <2>1, <2>2, GoesSound, KeyedSound
<1>4. CASE ReadCredential(c)
  <2>1. call[c].pc = "readKey" /\ (Unusable(c) \/ \E key : Keyed(c, key))
    BY <1>4 DEF ReadCredential
  <2>2. QED
    BY <2>1, KeyedSound
<1>5. CASE Preflight(c)
  <2>1. /\ call[c].pc = "catalogue" /\ call[c].billed = 0
        /\ Refuse(c, "PROVIDER") \/ Refuse(c, "CONFIGURATION") \/ CallGoes(c, "scanAgain")
    BY <1>t, <1>5 DEF Preflight, Category, CallSound
  <2>2. QED
    BY <2>1, GoesSound, RefuseSound DEF Refusals
<1>6. CASE Complete(c)
  <2> DEFINE more == call[c].billed + 1
             x == [call[c] EXCEPT !.pc = "request", !.billed = more]
  <2>1. call[c].pc = "operate" /\ call[c].billed < MaxBilled
    BY <1>6 DEF Complete
  <2>2. more \in 0 .. MaxBilled /\ more > 0
    <3>1. call[c].billed \in 0 .. MaxBilled
      BY <1>t DEF CallRecord
    <3>2. QED
      BY <2>1, <3>1, StandaloneAssumption
  <2>3. call' = [call EXCEPT ![c] = x]
    BY <1>6 DEF Complete, CallsInv
  <2> HIDE DEF more
  <2>4. x \in CallRecord
    BY <1>t, <2>2 DEF CallRecord, CallPlaces
  <2>5. CallSound(x)
    <3>1. /\ x.pc = "request" /\ x.billed = more /\ x.keyed = call[c].keyed
          /\ x.answer = call[c].answer /\ x.keyless = call[c].keyless
      BY <1>t DEF CallRecord
    <3>2. call[c].answer = None /\ ~call[c].keyless /\ call[c].keyed
      BY <1>t, <2>1 DEF CallSound
    <3> HIDE DEF x
    <3>3. QED
      BY <2>2, <3>1, <3>2, StandaloneAssumption DEF CallSound
  <2>6. QED
    BY <2>3, <2>4, <2>5 DEF Becomes
<1>7. CASE RequestEnds(c)
  BY <1>7, GoesSound DEF RequestEnds
<1>8. CASE RequestFails(c)
  BY <1>8, RefuseSound DEF RequestFails, Refusals
<1>9. CASE EndOperation(c)
  <2>1. CASE Refuse(c, "OPERATION")
    BY <1>9, <2>1, RefuseSound DEF EndOperation, Refusals
  <2>2. CASE call' = [call EXCEPT ![c].pc = "ended", ![c].answer = "result"]
    <3> DEFINE x == [call[c] EXCEPT !.pc = "ended", !.answer = "result"]
    <3>1. x \in CallRecord
      BY <1>t DEF CallRecord, CallPlaces, Answers
    <3>2. CallSound(x)
      BY <1>t, <1>9 DEF CallSound, EndOperation, CallRecord, Refusals
    <3>3. call' = [call EXCEPT ![c] = x]
      BY <2>2 DEF CallsInv
    <3>4. QED
      BY <3>1, <3>2, <3>3 DEF Becomes
  <2>3. QED
    BY <1>9, <2>1, <2>2 DEF EndOperation, Category
<1>10. CASE Abort(c)
  <2> DEFINE x == [call[c] EXCEPT !.aborted = TRUE]
  <2>1. x \in CallRecord
    BY <1>t DEF CallRecord
  <2>2. CallSound(x)
    BY <1>t, <1>10 DEF CallSound, Abort, CallRecord
  <2>3. call' = [call EXCEPT ![c] = x]
    BY <1>10 DEF Abort, CallsInv
  <2>4. QED
    BY <2>1, <2>2, <2>3 DEF Becomes
<1>11. QED
  BY <1>1, <1>2, <1>3, <1>4, <1>5, <1>6, <1>7, <1>8, <1>9, <1>10 DEF Call

LEMMA CallsInit == Init => CallsInv
BY StandaloneAssumption DEF Init, CallsInv, CallRecord, CallPlaces, Answers, CallSound, Refusals

(* No other step touches a call. *)
LEMMA OthersLeaveCalls ==
  ASSUME [Next]_vars
  PROVE  UNCHANGED call \/ \E c \in Calls : Call(c)
BY DEF Next, Setup, StartSetup, ReadDocument, InspectDocument, WriteDocument, WriteCredential,
       FinishSetup, SetupFails, OnlySetup, Serve, LoadSelected, OnlyServer, StopServer, User,
       EditDocument, LinkWorkspace, TouchCredential, Waiting, vars

LEMMA CallsNext == CallsInv /\ [Next]_vars => CallsInv'
<1> SUFFICES ASSUME CallsInv, [Next]_vars
             PROVE  CallsInv'
  OBVIOUS
<1>1. CASE UNCHANGED call
  BY <1>1 DEF CallsInv
<1>2. ASSUME NEW c \in Calls, Call(c)
      PROVE  CallsInv'
  <2>1. PICK x \in CallRecord : call' = [call EXCEPT ![c] = x] /\ CallSound(x)
    BY <1>2, CallSteps DEF Becomes
  <2>2. /\ call' \in [Calls -> CallRecord]
        /\ \A d \in Calls : call'[d] = IF d = c THEN x ELSE call[d]
    BY <2>1, CallUpdate DEF CallsInv
  <2>3. \A d \in Calls : CallSound(call'[d])
    BY <2>1, <2>2 DEF CallsInv
  <2>4. QED
    BY <2>2, <2>3 DEF CallsInv, CallSound
<1>3. QED
  BY <1>1, <1>2, OthersLeaveCalls

(* A refused call has cost nothing, one that cost something had a key, and *)
(* an aborted one is answered as cancelled or with its result: for any     *)
(* number of calls, completions, setups and edits.                         *)
THEOREM RefusalCorrect == Spec => []RefusedUnbilled
<1>1. CallsInv => RefusedUnbilled
  BY DEF CallsInv, CallSound, RefusedUnbilled
<1>2. QED
  BY <1>1, CallsInit, CallsNext, PTL DEF Spec

-------------------------------------------------------------------------------
(* Setups.                                                                 *)

DiskType ==
  /\ doc \in Document
  /\ cred \in [KeyFiles -> Keys \cup {None, "unsafe", "torn"}]
  /\ setup \in [Setups -> PlanRecord]
  /\ undisturbed \subseteq Setups
  /\ \A s \in Setups : setup[s].pc \in {"inspect", "writeDoc"} => setup[s].draft.form = "valid"

(* What the document selects is what the user selected. *)
Selection == doc.choice = wanted /\ (doc.form = "missing" => doc.choice = Stock)

(* A setup that will write the document found none, or one without a file  *)
(* for the credential, and so will any other; once it need not, the        *)
(* document names the file it writes.                                      *)
PlanSound(s) ==
  /\ setup[s].pc \in {"inspect", "writeDoc"} =>
       /\ setup[s].target = Default
       /\ setup[s].draft.choice = wanted /\ setup[s].draft.keyFile = Default
       /\ Parses(doc) => doc.keyFile \in {None, Default}
  /\ setup[s].pc \in {"writeKey", "check"} => Parses(doc) /\ doc.keyFile = setup[s].target
  /\ setup[s].pc = "check" => cred[setup[s].target] \in Keys
  /\ setup[s].pc = "done" => Parses(doc) /\ doc.keyFile # None /\ cred[doc.keyFile] \in Keys

SetupInv == DiskType /\ Selection /\ \A s \in undisturbed : PlanSound(s)

LEMMA DefaultDocumentType == DefaultDocument \in Document
BY StandaloneAssumption DEF DefaultDocument, Document

LEMMA EndedType ==
  \A place \in {"done", "failed"} : Plan(place, DefaultDocument, Default) \in PlanRecord
BY StandaloneAssumption, DefaultDocumentType DEF Plan, PlanRecord, SetupPlaces

LEMMA SetupInit == Init => SetupInv
<1> SUFFICES ASSUME Init PROVE SetupInv
  OBVIOUS
<1>1. Plan("idle", DefaultDocument, Default) \in PlanRecord
  BY StandaloneAssumption, DefaultDocumentType DEF Plan, PlanRecord, SetupPlaces
<1>2. DiskType
  <2>1. setup \in [Setups -> PlanRecord] /\ \A s \in Setups : setup[s].pc = "idle"
    BY <1>1 DEF Init, Plan
  <2>2. doc \in Document
    BY StandaloneAssumption DEF Init
  <2>3. cred \in [KeyFiles -> Keys \cup {None, "unsafe", "torn"}] /\ undisturbed = {}
    BY DEF Init
  <2>4. QED
    BY <2>1, <2>2, <2>3 DEF DiskType
<1>3. Selection
  BY StandaloneAssumption DEF Init, Selection
<1>4. QED
  BY <1>2, <1>3 DEF Init, SetupInv

(* A setup takes its next plan and changes nothing on the disk. *)
LEMMA PlanStep ==
  ASSUME SetupInv, NEW s \in Setups, NEW x \in PlanRecord, setup' = [setup EXCEPT ![s] = x],
         UNCHANGED <<disk, wanted>>, undisturbed' \subseteq undisturbed \cup {s},
         x.pc \in {"inspect", "writeDoc"} => x.draft.form = "valid",
         s \in undisturbed' => PlanSound(s)'
  PROVE  SetupInv'
<1>1. /\ setup' \in [Setups -> PlanRecord] /\ setup'[s] = x
      /\ \A t \in Setups : t # s => setup'[t] = setup[t]
  BY PlanUpdate DEF SetupInv, DiskType
<1>2. DiskType'
  BY <1>1 DEF SetupInv, DiskType, disk
<1>3. Selection'
  BY DEF SetupInv, Selection, disk
<1>4. ASSUME NEW t \in undisturbed', t # s
      PROVE  PlanSound(t)'
  BY <1>1, <1>4 DEF SetupInv, DiskType, PlanSound, Parses, disk
<1>5. QED
  BY <1>2, <1>3, <1>4 DEF SetupInv

LEMMA SetupSteps ==
  ASSUME SetupInv, NEW s \in Setups, Setup(s)
  PROVE  SetupInv'
<1>t. setup[s] \in PlanRecord /\ (s \in undisturbed => PlanSound(s)) /\ doc \in Document
  BY DEF SetupInv, DiskType
(* The setup ends without success. *)
<1>e. ASSUME SetupEnds(s, "failed"), UNCHANGED <<disk, wanted>>,
             undisturbed' \in {undisturbed, undisturbed \cup {s}}
      PROVE  SetupInv'
  <2> DEFINE x == Plan("failed", DefaultDocument, Default)
  <2>1. setup' = [setup EXCEPT ![s] = x] /\ x \in PlanRecord /\ x.pc = "failed"
    BY <1>e, EndedType DEF SetupEnds, Plan
  <2> HIDE DEF x
  <2>2. setup'[s] = x
    BY <2>1 DEF SetupInv, DiskType
  <2>3. QED
    BY <1>e, <2>1, <2>2, PlanStep DEF PlanSound
(* The setup goes on to a place. *)
<1>g. ASSUME NEW place \in SetupPlaces, SetupGoes(s, place), UNCHANGED <<disk, wanted>>,
             undisturbed' \in {undisturbed, undisturbed \cup {s}},
             place \in {"inspect", "writeDoc"} =>
               setup[s].pc \in {"inspect", "writeDoc"} /\ undisturbed' = undisturbed,
             place \notin {"writeKey", "check", "done"}
      PROVE  SetupInv'
  <2> DEFINE x == [setup[s] EXCEPT !.pc = place]
  <2>1. /\ setup' = [setup EXCEPT ![s] = x] /\ x \in PlanRecord /\ x.pc = place
        /\ x.draft = setup[s].draft /\ x.target = setup[s].target
    BY <1>g, <1>t DEF SetupGoes, PlanRecord
  <2>2. s \in undisturbed \/ place \notin {"inspect", "writeDoc"} => PlanSound(s)'
    <3>1. setup'[s] = x
      BY <2>1 DEF SetupInv, DiskType
    <3> HIDE DEF x
    <3>2. QED
      BY <1>g, <1>t, <2>1, <3>1 DEF PlanSound, Parses, disk
  <2>3. x.pc \in {"inspect", "writeDoc"} => x.draft.form = "valid"
    BY <1>g, <2>1 DEF SetupInv, DiskType
  <2> HIDE DEF x
  <2>4. CASE s \in undisturbed \/ place \notin {"inspect", "writeDoc"}
    BY <1>g, <2>1, <2>2, <2>3, <2>4, PlanStep
  <2>5. CASE s \notin undisturbed /\ undisturbed' = undisturbed
    BY <1>g, <2>1, <2>3, <2>5, PlanStep
  <2>6. CASE s \notin undisturbed /\ undisturbed' = undisturbed \cup {s} /\ place \in {"inspect", "writeDoc"}
    BY <1>g, <2>6
  <2>7. QED
    BY <1>g, <2>4, <2>5, <2>6
<1>1. CASE StartSetup(s)
  BY <1>1, <1>e, <1>g DEF StartSetup, OnlySetup, SetupPlaces
<1>2. CASE ReadDocument(s)
  <2>1. UNCHANGED <<disk, wanted, undisturbed>> /\ PrepareConfig(s) /\ doc.choice = wanted
    BY <1>2 DEF ReadDocument, OnlySetup, SetupInv, Selection
  <2>2. CASE LoadConfig(doc) = "missing"
    <3> DEFINE x == Plan("writeDoc", DefaultDocument, Default)
    <3>1. setup' = [setup EXCEPT ![s] = x]
      BY <2>1, <2>2 DEF PrepareConfig
    <3>2. /\ x \in PlanRecord /\ x.pc = "writeDoc" /\ x.draft = DefaultDocument /\ x.target = Default
      BY StandaloneAssumption, DefaultDocumentType DEF Plan, PlanRecord, SetupPlaces
    <3>3. setup'[s] = x
      BY <3>1 DEF SetupInv, DiskType
    <3>4. doc.form = "missing" /\ wanted = Stock
      BY <2>1, <2>2 DEF LoadConfig, SetupInv, Selection
    <3> HIDE DEF x
    <3>5. PlanSound(s)'
      BY <2>1, <3>2, <3>3, <3>4 DEF PlanSound, DefaultDocument, Parses, disk
    <3>6. x.draft.form = "valid"
      BY <3>2 DEF DefaultDocument
    <3>7. QED
      BY <2>1, <3>1, <3>2, <3>5, <3>6, PlanStep
  <2>3. CASE LoadConfig(doc) = "defect"
    BY <1>e, <2>1, <2>3 DEF PrepareConfig
  <2>4. CASE LoadConfig(doc) = "loaded" /\ doc.keyFile # None
    <3> DEFINE x == Plan("writeKey", doc, doc.keyFile)
    <3>1. setup' = [setup EXCEPT ![s] = x]
      BY <2>1, <2>4 DEF PrepareConfig
    <3>2. x \in PlanRecord /\ x.pc = "writeKey" /\ x.target = doc.keyFile
      BY <1>t, <2>4 DEF Plan, PlanRecord, SetupPlaces, Document
    <3>3. setup'[s] = x
      BY <3>1 DEF SetupInv, DiskType
    <3>4. Parses(doc)
      BY <2>4 DEF LoadConfig
    <3> HIDE DEF x
    <3>5. PlanSound(s)'
      BY <2>1, <3>2, <3>3, <3>4 DEF PlanSound, Parses, disk
    <3>6. QED
      BY <2>1, <3>1, <3>2, <3>5, PlanStep
  <2>5. CASE LoadConfig(doc) = "loaded" /\ doc.keyFile = None
    <3> DEFINE draft == [doc EXCEPT !.keyFile = Default]
               x == Plan("inspect", draft, Default)
    <3>1. setup' = [setup EXCEPT ![s] = x]
      BY <2>1, <2>5 DEF PrepareConfig
    <3>2. Parses(doc)
      BY <2>5 DEF LoadConfig
    <3>3. draft \in Document /\ draft.form = "valid" /\ draft.choice = wanted /\ draft.keyFile = Default
      BY <1>t, <2>1, <3>2, StandaloneAssumption DEF Document, Parses
    <3> HIDE DEF draft
    <3>4. x \in PlanRecord /\ x.pc = "inspect" /\ x.draft = draft /\ x.target = Default
      BY <3>3, StandaloneAssumption DEF Plan, PlanRecord, SetupPlaces
    <3>5. setup'[s] = x
      BY <3>1 DEF SetupInv, DiskType
    <3> HIDE DEF x
    <3>6. PlanSound(s)'
      BY <2>1, <2>5, <3>3, <3>4, <3>5 DEF PlanSound, disk
    <3>7. QED
      BY <2>1, <3>1, <3>3, <3>4, <3>6, PlanStep
  <2>6. QED
    BY <2>2, <2>3, <2>4, <2>5 DEF LoadConfig
<1>3. CASE InspectDocument(s)
  BY <1>3, <1>e, <1>g DEF InspectDocument, OnlySetup, SetupPlaces
<1>4. CASE WriteDocument(s)
  <2> DEFINE x == [setup[s] EXCEPT !.pc = "writeKey"]
             new == [setup[s].draft EXCEPT !.linked = FALSE]
  <2>1. /\ setup[s].pc = "writeDoc" /\ doc' = new /\ setup' = [setup EXCEPT ![s] = x]
        /\ UNCHANGED cred
        /\ IF s \in undisturbed THEN UNCHANGED <<undisturbed, wanted>>
                                ELSE undisturbed' = {} /\ wanted' = doc'.choice
    BY <1>4, <1>t DEF WriteDocument, SetupGoes, PlanRecord
  <2>2. x \in PlanRecord /\ x.pc = "writeKey" /\ x.target = setup[s].target
    BY <1>t DEF PlanRecord, SetupPlaces
  <2>3. /\ new \in Document /\ new.form = "valid" /\ new.choice = setup[s].draft.choice
        /\ new.keyFile = setup[s].draft.keyFile
    BY <1>t, <2>1 DEF SetupInv, DiskType, PlanRecord, Document
  <2>4. /\ setup' \in [Setups -> PlanRecord] /\ setup'[s] = x
        /\ \A t \in Setups : t # s => setup'[t] = setup[t]
    BY <2>1, <2>2, PlanUpdate DEF SetupInv, DiskType
  <2> HIDE DEF x, new
  <2>5. DiskType'
    BY <2>1, <2>2, <2>3, <2>4 DEF SetupInv, DiskType
  <2>6. CASE s \in undisturbed
    <3>1. new.choice = wanted /\ new.keyFile = Default /\ setup[s].target = Default
          /\ (Parses(doc) => doc.keyFile \in {None, Default})
      BY <1>t, <2>1, <2>3, <2>6 DEF PlanSound
    <3>2. Selection'
      BY <2>1, <2>3, <2>6, <3>1 DEF Selection
    <3>3. Parses(doc)' /\ doc'.keyFile = Default
      BY <2>1, <2>3, <3>1 DEF Parses
    <3>4. ASSUME NEW t \in undisturbed, t # s
          PROVE  PlanSound(t)'
      <4>1. PlanSound(t) /\ setup'[t] = setup[t] /\ setup[t].target \in KeyFiles
        BY <2>4, <3>4 DEF SetupInv, DiskType, PlanRecord
      <4>2. setup[t].pc \in {"writeKey", "check"} => setup[t].target = Default
        BY <3>1, <4>1, StandaloneAssumption DEF PlanSound
      <4>3. setup[t].pc = "done" => cred[Default] \in Keys
        BY <3>1, <4>1 DEF PlanSound
      <4>4. QED
        BY <2>1, <2>6, <3>3, <4>1, <4>2, <4>3, StandaloneAssumption DEF PlanSound
    <3>5. PlanSound(s)'
      BY <2>2, <2>4, <3>1, <3>3 DEF PlanSound
    <3>6. QED
      BY <2>1, <2>5, <2>6, <3>2, <3>4, <3>5 DEF SetupInv
  <2>7. CASE s \notin undisturbed
    BY <2>1, <2>3, <2>5, <2>7 DEF SetupInv, Selection
  <2>8. QED
    BY <2>6, <2>7
<1>5. CASE WriteCredential(s)
  <2> DEFINE x == [setup[s] EXCEPT !.pc = "check"]
  <2>1. /\ setup[s].pc = "writeKey" /\ cred' = [cred EXCEPT ![setup[s].target] = s]
        /\ setup' = [setup EXCEPT ![s] = x] /\ UNCHANGED <<doc, undisturbed, wanted>>
    BY <1>5, <1>t DEF WriteCredential, SetupGoes, PlanRecord, OnlySetup
  <2>2. x \in PlanRecord /\ x.pc = "check" /\ x.target = setup[s].target /\ x.target \in KeyFiles
    BY <1>t DEF PlanRecord, SetupPlaces
  <2>3. /\ setup' \in [Setups -> PlanRecord] /\ setup'[s] = x
        /\ \A t \in Setups : t # s => setup'[t] = setup[t]
    BY <2>1, <2>2, PlanUpdate DEF SetupInv, DiskType
  <2> HIDE DEF x
  <2>4. s \in Keys /\ cred' \in [KeyFiles -> Keys \cup {None, "unsafe", "torn"}]
    BY <2>1, <2>2 DEF SetupInv, DiskType, Keys
  <2>5. \A f \in KeyFiles : cred'[f] = cred[f] \/ cred'[f] = s
    BY <2>1 DEF SetupInv, DiskType
  <2>6. cred'[x.target] = s
    BY <2>1, <2>2 DEF SetupInv, DiskType
  <2>7. DiskType' /\ Selection'
    BY <2>1, <2>2, <2>3, <2>4 DEF SetupInv, DiskType, Selection
  <2>8. ASSUME NEW t \in undisturbed, t # s
        PROVE  PlanSound(t)'
    <3>1. PlanSound(t) /\ setup'[t] = setup[t] /\ setup[t].target \in KeyFiles
          /\ doc.keyFile \in KeyFiles \cup {None}
      BY <2>3, <2>8 DEF SetupInv, DiskType, PlanRecord, Document
    <3>2. QED
      BY <2>1, <2>4, <2>5, <3>1 DEF PlanSound, Parses
  <2>9. s \in undisturbed => PlanSound(s)'
    BY <1>t, <2>1, <2>2, <2>3, <2>4, <2>6 DEF PlanSound, Parses
  <2>10. QED
    BY <2>1, <2>7, <2>8, <2>9 DEF SetupInv
<1>6. CASE FinishSetup(s)
  <2>1. /\ UNCHANGED <<disk, undisturbed, wanted>> /\ setup[s].pc = "check"
        /\ \/ SetupEnds(s, "failed")
           \/ SetupEnds(s, "done") /\ LoadConfig(doc) = "loaded"
    BY <1>6 DEF FinishSetup, OnlySetup
  <2>2. CASE SetupEnds(s, "done")
    <3> DEFINE x == Plan("done", DefaultDocument, Default)
    <3>1. setup' = [setup EXCEPT ![s] = x] /\ x \in PlanRecord /\ x.pc = "done"
      BY <2>2, EndedType DEF SetupEnds, Plan
    <3>2. setup'[s] = x
      BY <3>1 DEF SetupInv, DiskType
    <3> HIDE DEF x
    <3>3. setup[s].target \in KeyFiles
      BY <1>t DEF PlanRecord
    <3>4. s \in undisturbed => PlanSound(s)'
      BY <1>t, <2>1, <3>1, <3>2, <3>3, StandaloneAssumption DEF PlanSound, Parses, disk
    <3>5. QED
      BY <2>1, <3>1, <3>4, PlanStep
  <2>3. CASE SetupEnds(s, "failed")
    BY <1>e, <2>1, <2>3
  <2>4. QED
    BY <2>1, <2>2, <2>3
<1>7. CASE SetupFails(s)
  BY <1>7, <1>e DEF SetupFails, OnlySetup
<1>8. QED
  BY <1>1, <1>2, <1>3, <1>4, <1>5, <1>6, <1>7 DEF Setup

(* The server, its calls and the workspace leave the setups alone. *)
LEMMA OthersLeaveSetups ==
  ASSUME [Next]_vars
  PROVE  \/ \E s \in Setups : Setup(s)
         \/ EditDocument
         \/ \E f \in KeyFiles : TouchCredential(f)
         \/ UNCHANGED <<disk, setup, undisturbed, wanted>>
<1>1. CASE \E c \in Calls : Call(c)
  BY <1>1 DEF Call, Begin, Scan, InspectCredential, ReadCredential, Preflight, Complete,
              RequestEnds, RequestFails, EndOperation, Abort, OnlyCall, disk
<1>2. CASE Serve \/ LoadSelected \/ StopServer \/ LinkWorkspace \/ Waiting \/ UNCHANGED vars
  BY <1>2 DEF Serve, LoadSelected, OnlyServer, StopServer, LinkWorkspace, Waiting, vars, disk, history
<1>3. QED
  BY <1>1, <1>2 DEF Next, User

LEMMA SetupNext == SetupInv /\ [Next]_vars => SetupInv'
<1> SUFFICES ASSUME SetupInv, [Next]_vars
             PROVE  SetupInv'
  OBVIOUS
<1>1. CASE EditDocument
  <2>1. /\ doc' \in Docs /\ wanted' = doc'.choice /\ undisturbed' = {}
        /\ UNCHANGED <<cred, setup>>
    BY <1>1 DEF EditDocument
  <2>2. doc' \in Document /\ (doc'.form = "missing" => doc'.choice = Stock)
    BY <2>1, StandaloneAssumption
  <2>3. QED
    BY <2>1, <2>2 DEF SetupInv, DiskType, Selection
<1>2. ASSUME NEW f \in KeyFiles, TouchCredential(f)
      PROVE  SetupInv'
  <2>1. PICK content \in {None, "unsafe", "torn", Own} : cred' = [cred EXCEPT ![f] = content]
    BY <1>2 DEF TouchCredential
  <2>2. undisturbed' = {} /\ UNCHANGED <<doc, setup, wanted>>
    BY <1>2 DEF TouchCredential
  <2>3. cred' \in [KeyFiles -> Keys \cup {None, "unsafe", "torn"}]
    BY <2>1 DEF SetupInv, DiskType, Keys
  <2>4. QED
    BY <2>2, <2>3 DEF SetupInv, DiskType, Selection
<1>3. CASE UNCHANGED <<disk, setup, undisturbed, wanted>>
  BY <1>3 DEF SetupInv, DiskType, Selection, PlanSound, Parses, disk
<1>4. QED
  BY <1>1, <1>2, <1>3, SetupSteps, OthersLeaveSetups

(* A setup that is complete has connected, whatever other setups did in    *)
(* between: for any number of them, of credential files and of documents.  *)
THEOREM SetupCorrect == Spec => []SetupConnects
<1>1. SetupInv => SetupConnects
  BY DEF SetupInv, Selection, DiskType, PlanSound, SetupConnects
<1>2. QED
  BY <1>1, SetupInit, SetupNext, PTL DEF Spec

-------------------------------------------------------------------------------
(* Calls that rely on a setup.                                             *)

(* The server and the history of what setups stored.  The configuration of *)
(* the server is fixed while a call is under way.                          *)
ServerSound ==
  /\ launch \in Launches
  /\ server \in [mode : {"down", "lazy", "up"}, keyFile : KeyFiles \cup {None}]
  /\ stored \subseteq KeyFiles /\ relies \subseteq Calls
  /\ \A c \in Calls : call[c].pc \notin {"idle", "ended"} => server.mode = "up"
  /\ \A f \in stored : cred[f] \in Setups

(* A call that relies on a stored credential finds it, or has ended.       *)
ReliesSound(c) ==
  /\ call[c].pc # "idle"
  /\ call[c].pc # "ended" => server.keyFile \in stored
  /\ call[c].keyless => launch.key = "spaced"

ServedInv == SetupInv /\ CallsInv /\ ServerSound /\ \A c \in relies : ReliesSound(c)

LEMMA ServedInit == Init => ServedInv
BY SetupInit, CallsInit DEF Init, ServedInv, ServerSound, Down

(* A setup only ever writes keys of its own kind. *)
LEMMA SetupServed ==
  ASSUME ServedInv, NEW s \in Setups, Setup(s)
  PROVE  ServedInv'
<1>1. /\ UNCHANGED <<launch, server, call, relies>>
      /\ stored \subseteq stored' /\ stored' \subseteq KeyFiles
      /\ \A f \in stored' : cred'[f] \in Setups
  <2>1. CASE StartSetup(s) \/ ReadDocument(s) \/ InspectDocument(s) \/ WriteDocument(s) \/ SetupFails(s)
    BY <2>1 DEF StartSetup, ReadDocument, InspectDocument, WriteDocument, SetupFails, OnlySetup,
                ServedInv, ServerSound, disk
  <2>2. CASE WriteCredential(s)
    BY <2>2 DEF WriteCredential, OnlySetup, ServedInv, ServerSound, SetupInv, DiskType
  <2>3. CASE FinishSetup(s)
    <3>1. setup[s].target \in KeyFiles
      BY DEF ServedInv, SetupInv, DiskType, PlanRecord
    <3>2. QED
      BY <2>3, <3>1 DEF FinishSetup, OnlySetup, ServedInv, ServerSound, disk
  <2>4. QED
    BY <2>1, <2>2, <2>3 DEF Setup
<1>2. SetupInv' /\ CallsInv'
  BY <1>1, SetupSteps DEF ServedInv, CallsInv
<1>3. ServerSound'
  BY <1>1 DEF ServedInv, ServerSound
<1>4. \A c \in relies' : ReliesSound(c)'
  BY <1>1 DEF ServedInv, ReliesSound
<1>5. QED
  BY <1>2, <1>3, <1>4 DEF ServedInv

(* A call that relies on a stored credential is not refused for want of    *)
(* one, unless the environment holds a bad key.                            *)
LEMMA CallServed ==
  ASSUME ServedInv, NEW c \in Calls, Call(c)
  PROVE  ServedInv'
<1>t. /\ call \in [Calls -> CallRecord] /\ call[c] \in CallRecord /\ CallSound(call[c])
  BY DEF ServedInv, CallsInv
<1>1. UNCHANGED <<disk, setup, undisturbed, wanted, launch, server, stored>>
  BY DEF Call, Begin, Scan, InspectCredential, ReadCredential, Preflight, Complete,
         RequestEnds, RequestFails, EndOperation, Abort, OnlyCall, disk
<1>2. PICK x \in CallRecord : call' = [call EXCEPT ![c] = x] /\ CallSound(x)
  BY CallSteps DEF ServedInv, Becomes
<1>3. call'[c] = x /\ \A d \in Calls : d # c => call'[d] = call[d]
  BY <1>2, <1>t
<1>4. /\ relies' \subseteq relies \cup {c}
      /\ c \in relies' => x.pc # "idle"
      /\ c \in relies' /\ x.pc # "ended" => server.keyFile \in stored
      /\ x.pc \notin {"idle", "ended"} => server.mode = "up"
      /\ c \in relies' /\ x.keyless => launch.key = "spaced"
  <2>t. /\ c \in relies => ReliesSound(c)
        /\ call[c].pc \notin {"idle", "ended"} => server.mode = "up"
        /\ call[c].pc # "ended" => ~call[c].keyless
        /\ launch.key \in {None, "spaced", "whole"}
        /\ \A f \in stored : cred[f] \in Setups
    BY <1>t, StandaloneAssumption DEF ServedInv, ServerSound, CallSound
  <2>r. ASSUME NEW code, Refuse(c, code)
        PROVE  x.pc = "ended" /\ x.keyless = call[c].keyless
    BY <1>t, <1>3, <2>r DEF Refuse, Answered, CallRecord
  <2>g. ASSUME NEW place, CallGoes(c, place)
        PROVE  x.pc = place /\ x.keyless = call[c].keyless
    BY <1>t, <1>3, <2>g DEF CallGoes, CallRecord
  <2>k. ASSUME Unusable(c) \/ \E key : Keyed(c, key)
        PROVE  x.pc # "idle"
    <3>1. ASSUME NEW code,
                 call' = [call EXCEPT ![c] = [Answered(c, code) EXCEPT !.keyless = TRUE]]
          PROVE  x.pc # "idle"
      <4> DEFINE y == [Answered(c, code) EXCEPT !.keyless = TRUE]
      <4>1. y.pc = "ended"
        BY <1>t DEF Answered, CallRecord
      <4>2. call'[c] = y
        BY <1>t, <3>1
      <4>3. QED
        BY <1>3, <4>1, <4>2
    <3>2. CASE call' = [call EXCEPT ![c] = [call[c] EXCEPT !.pc = "catalogue", !.keyed = TRUE]]
      BY <1>t, <1>3, <3>2 DEF CallRecord
    <3>3. QED
      BY <2>k, <3>1, <3>2 DEF Keyed, Unusable
  <2>1. CASE Begin(c)
    <3>1. x.pc \in {"scan", "ended"} /\ ~x.keyless
      BY <2>t, <2>r, <2>g, <2>1 DEF Begin
    <3>2. QED
      BY <2>t, <2>1, <3>1 DEF Begin, ReliesSound
  <2>2. CASE InspectCredential(c)
    <3>1. relies' = relies /\ call[c].pc = "credential"
      BY <2>2 DEF InspectCredential
    <3>2. x.pc # "idle"
      BY <2>g, <2>k, <2>2 DEF InspectCredential
    <3>3. ASSUME c \in relies, x.keyless
          PROVE  launch.key = "spaced"
      <4>1. server.keyFile \in stored /\ cred[server.keyFile] \in Setups
        BY <2>t, <3>1, <3>3 DEF ReliesSound
      <4>2. server.keyFile # None /\ cred[server.keyFile] \notin {None, "unsafe"}
        BY <4>1, StandaloneAssumption DEF ServedInv, ServerSound
      <4>3. CASE launch.key = None
        <5>1. CallGoes(c, "readKey")
          BY <2>2, <4>2, <4>3 DEF InspectCredential
        <5>2. x.keyless = call[c].keyless
          BY <1>t, <1>3, <5>1 DEF CallGoes, CallRecord
        <5>3. QED
          BY <2>t, <3>1, <3>3, <5>2
      <4>4. CASE launch.key = "whole"
        <5>1. Keyed(c, "whole")
          BY <2>2, <4>4, StandaloneAssumption DEF InspectCredential
        <5>2. x.keyless = call[c].keyless
          BY <1>t, <1>3, <5>1, StandaloneAssumption DEF Keyed, CallRecord
        <5>3. QED
          BY <2>t, <3>1, <3>3, <5>2
      <4>5. QED
        BY <2>t, <4>3, <4>4
    <3>4. QED
      BY <2>t, <3>1, <3>2, <3>3 DEF ReliesSound
  <2>3. CASE ReadCredential(c)
    <3>1. relies' = relies /\ call[c].pc = "readKey"
      BY <2>3 DEF ReadCredential
    <3>2. x.pc # "idle"
      BY <2>k, <2>3 DEF ReadCredential
    <3>3. ASSUME c \in relies
          PROVE  ~x.keyless
      <4>1. cred[server.keyFile] \in Setups
        BY <2>t, <3>1, <3>3 DEF ReliesSound
      <4>2. cred[server.keyFile] \notin {None, "unsafe", "torn", "spaced"}
        BY <4>1, StandaloneAssumption
      <4>3. Keyed(c, cred[server.keyFile])
        BY <2>3, <4>2 DEF ReadCredential
      <4>4. x.keyless = call[c].keyless
        BY <1>t, <1>3, <4>2, <4>3 DEF Keyed, CallRecord
      <4>5. QED
        BY <2>t, <3>1, <4>4
    <3>4. QED
      BY <2>t, <3>1, <3>2, <3>3 DEF ReliesSound
  <2>4. CASE Scan(c) \/ Preflight(c) \/ RequestEnds(c) \/ RequestFails(c)
    <3>1. /\ relies' = relies /\ call[c].pc \notin {"idle", "ended"}
          /\ x.pc # "idle" /\ x.keyless = call[c].keyless
      BY <2>r, <2>g, <2>4 DEF Scan, Preflight, RequestEnds, RequestFails
    <3>2. QED
      BY <2>t, <3>1 DEF ReliesSound
  <2>5. CASE Complete(c) \/ EndOperation(c)
    <3>1. /\ relies' = relies /\ call[c].pc \notin {"idle", "ended"}
          /\ x.pc # "idle" /\ x.keyless = call[c].keyless
      <4>1. CASE Complete(c)
        <5> DEFINE more == call[c].billed + 1
        <5>1. call'[c] = [call[c] EXCEPT !.pc = "request", !.billed = more]
          BY <1>t, <4>1 DEF Complete
        <5> HIDE DEF more
        <5>2. QED
          BY <1>t, <1>3, <4>1, <5>1 DEF Complete, CallRecord
      <4>2. CASE EndOperation(c) /\ call' = [call EXCEPT ![c].pc = "ended", ![c].answer = "result"]
        BY <1>t, <1>3, <4>2 DEF EndOperation, CallRecord
      <4>3. CASE EndOperation(c) /\ Refuse(c, Category("operate"))
        BY <2>r, <4>3 DEF EndOperation
      <4>4. QED
        BY <2>5, <4>1, <4>2, <4>3 DEF EndOperation
    <3>2. QED
      BY <2>t, <3>1 DEF ReliesSound
  <2>6. CASE Abort(c)
    <3>1. /\ relies' = relies /\ x.pc = call[c].pc /\ x.keyless = call[c].keyless
      BY <1>t, <1>2, <2>6 DEF Abort, CallRecord
    <3>2. QED
      BY <2>t, <3>1 DEF ReliesSound
  <2>7. QED
    BY <2>1, <2>2, <2>3, <2>4, <2>5, <2>6 DEF Call
<1>5. SetupInv' /\ CallsInv'
  BY <1>1, SetupNext, CallsNext DEF ServedInv, Next
<1>6. ServerSound'
  BY <1>1, <1>3, <1>4 DEF ServedInv, ServerSound, disk
<1>7. ASSUME NEW d \in relies'
      PROVE  ReliesSound(d)'
  BY <1>1, <1>3, <1>4, <1>7 DEF ServedInv, ServerSound, ReliesSound, disk
<1>8. QED
  BY <1>5, <1>6, <1>7 DEF ServedInv

LEMMA ServedNext == ServedInv /\ [Next]_vars => ServedInv'
<1> SUFFICES ASSUME ServedInv, [Next]_vars
             PROVE  ServedInv'
  OBVIOUS
<1>t. SetupInv' /\ CallsInv'
  BY SetupNext, CallsNext DEF ServedInv
<1>1. CASE \E s \in Setups : Setup(s)
  BY <1>1, SetupServed
<1>2. CASE \E c \in Calls : Call(c)
  BY <1>2, CallServed
<1>3. CASE Serve \/ LoadSelected \/ StopServer
  <2>1. UNCHANGED <<launch, stored, relies, call, cred>>
    BY <1>3 DEF Serve, LoadSelected, OnlyServer, StopServer, disk, history
  <2>2. \A c \in Calls : call[c].pc \in {"idle", "ended"}
    BY <1>3 DEF Serve, LoadSelected, StopServer, Down, Lazy, ServedInv, ServerSound
  <2>3. server' \in [mode : {"down", "lazy", "up"}, keyFile : KeyFiles \cup {None}]
    <3>1. /\ Down \in [mode : {"down", "lazy", "up"}, keyFile : KeyFiles \cup {None}]
          /\ Lazy \in [mode : {"down", "lazy", "up"}, keyFile : KeyFiles \cup {None}]
      BY DEF Down, Lazy
    <3>2. \A d \in Document :
            Selected(d) \in [mode : {"down", "lazy", "up"}, keyFile : KeyFiles \cup {None}]
      BY StandaloneAssumption DEF Selected, Document
    <3>3. server' \in {Down, Lazy} \cup {Selected(d) : d \in Document}
      BY <1>3, DefaultDocumentType DEF Serve, LoadSelected, StopServer, ServedInv, SetupInv, DiskType
    <3>4. QED
      BY <3>1, <3>2, <3>3
  <2>4. ServerSound'
    BY <2>1, <2>2, <2>3 DEF ServedInv, ServerSound
  <2>5. \A c \in relies' : ReliesSound(c)'
    BY <2>1, <2>2 DEF ServedInv, ServerSound, ReliesSound
  <2>6. QED
    BY <1>t, <2>4, <2>5 DEF ServedInv
<1>4. ASSUME NEW f \in KeyFiles, TouchCredential(f)
      PROVE  ServedInv'
  <2>1. /\ stored' = stored \ {f} /\ relies' = {c \in relies : server.keyFile # f}
        /\ UNCHANGED <<launch, server, call>>
        /\ \A g \in KeyFiles : g # f => cred'[g] = cred[g]
    BY <1>4 DEF TouchCredential, ServedInv, SetupInv, DiskType
  <2>2. ServerSound'
    BY <2>1 DEF ServedInv, ServerSound
  <2>3. \A c \in relies' : ReliesSound(c)'
    BY <2>1 DEF ServedInv, ServerSound, ReliesSound
  <2>4. QED
    BY <1>t, <2>2, <2>3 DEF ServedInv
<1>5. CASE EditDocument \/ LinkWorkspace \/ Waiting \/ UNCHANGED vars
  <2>1. UNCHANGED <<launch, server, stored, relies, call, cred>>
    BY <1>5 DEF EditDocument, LinkWorkspace, Waiting, vars, disk, history
  <2>2. QED
    BY <1>t, <2>1 DEF ServedInv, ServerSound, ReliesSound
<1>6. QED
  BY <1>1, <1>2, <1>3, <1>4, <1>5 DEF Next, User

(* After a setup no call is refused for want of a key, while further       *)
(* setups replace it, fail or die: for any number of calls and setups.     *)
THEOREM CredentialCorrect == Spec => []CredentialServed
<1>1. ServedInv => CredentialServed
  BY DEF ServedInv, ReliesSound, CredentialServed
<1>2. QED
  BY <1>1, ServedInit, ServedNext, PTL DEF Spec

-------------------------------------------------------------------------------
(* Types, and the bound.                                                   *)

Bounded == linked \in BOOLEAN /\ meddling \in 0 .. MaxMeddling

LEMMA BoundedInit == Init => Bounded
<1>1. 0 \in 0 .. MaxMeddling
  BY StandaloneAssumption
<1>2. QED
  BY <1>1 DEF Init, Bounded

LEMMA BoundedNext == Bounded /\ [Next]_vars => Bounded'
<1> SUFFICES ASSUME Bounded, [Next]_vars
             PROVE  Bounded'
  OBVIOUS
<1>1. /\ meddling' = meddling \/ (meddling < MaxMeddling /\ meddling' = meddling + 1)
      /\ linked' \in {linked, ~linked}
  BY DEF Next, Setup, StartSetup, ReadDocument, InspectDocument, WriteDocument, WriteCredential,
         FinishSetup, SetupFails, OnlySetup, Serve, LoadSelected, OnlyServer, StopServer, User,
         EditDocument, LinkWorkspace, TouchCredential, Waiting, vars, Call, Begin, Scan,
         InspectCredential, ReadCredential, Preflight, Complete, RequestEnds, RequestFails,
         EndOperation, Abort, OnlyCall
<1>2. linked' \in BOOLEAN
  BY <1>1 DEF Bounded
<1>3. meddling' \in 0 .. MaxMeddling
  <2>1. meddling \in 0 .. MaxMeddling /\ MaxMeddling \in Nat
    BY StandaloneAssumption DEF Bounded
  <2>2. QED
    BY <1>1, <2>1
<1>4. QED
  BY <1>2, <1>3 DEF Bounded

(* Every variable keeps its type: setups, the server, its calls and the    *)
(* user write nothing else, for any number of them.                        *)
THEOREM TypeCorrect == Spec => []TypeOK
<1>1. ServedInv /\ Bounded => TypeOK
  BY DEF ServedInv, SetupInv, DiskType, Selection, CallsInv, ServerSound, Bounded, TypeOK,
         CallRecord, PlanRecord, Document
<1>2. QED
  BY <1>1, ServedInit, ServedNext, BoundedInit, BoundedNext, PTL DEF Spec

-------------------------------------------------------------------------------
(* The console.                                                            *)

ConsoleRecord == [chain : Seq(Calls), calls : Nat, owner : Calls \cup {None}, saved : Seq(Calls),
                  active : SUBSET Calls, muzzled : SUBSET Calls, third : {None}]

(* The calls counted are the scopes that are open; while there are any the *)
(* dispatcher of one that was the first is all there is.                   *)
ChainSound(con) ==
  /\ con \in ConsoleRecord
  /\ IsFiniteSet(con.active) /\ con.calls = Cardinality(con.active)
  /\ con.saved = <<>>
  /\ con.calls = 0 => con.chain = <<>>
  /\ con.calls # 0 => con.owner \in Calls /\ con.chain = <<con.owner>>

LEMMA EnterSound ==
  ASSUME NEW con, ChainSound(con), NEW r \in Calls, r \notin con.active
  PROVE  ChainSound(Scopes!Enter(con, r)) /\ Scopes!Enter(con, r).active = con.active \cup {r}
<1> DEFINE count == con.calls + 1
           scopes == con.active \cup {r}
           opened == [con EXCEPT !.calls = count, !.active = scopes]
           top == <<r>> \o con.chain
           first == [opened EXCEPT !.chain = top, !.owner = r, !.saved = con.chain]
<1>1. con \in ConsoleRecord
  BY DEF ChainSound
<1>2. IsFiniteSet(scopes) /\ count = Cardinality(scopes) /\ scopes \subseteq Calls
  BY <1>1, FS_AddElement DEF ChainSound, ConsoleRecord
<1>3. count \in Nat /\ count # 0
  BY <1>1 DEF ConsoleRecord
<1>4. Scopes!Enter(con, r) = IF con.calls # 0 THEN opened ELSE first
  BY <1>1 DEF Scopes!Enter, ConsoleRecord
<1> HIDE DEF count, scopes
<1>5. /\ opened \in ConsoleRecord /\ opened.calls = count /\ opened.active = scopes
      /\ opened.saved = con.saved /\ opened.chain = con.chain /\ opened.owner = con.owner
  BY <1>1, <1>2, <1>3 DEF ConsoleRecord
<1> HIDE DEF opened
<1>6. CASE con.calls # 0
  BY <1>2, <1>3, <1>4, <1>5, <1>6 DEF ChainSound, scopes
<1>7. CASE con.calls = 0
  <2>1. con.chain = <<>> /\ top = <<r>> /\ top \in Seq(Calls) /\ con.chain \in Seq(Calls)
    <3>1. con.chain = <<>>
      BY <1>7 DEF ChainSound
    <3>2. <<r>> \in Seq(Calls) /\ <<>> \in Seq(Calls)
      OBVIOUS
    <3>3. <<r>> \o <<>> = <<r>>
      BY <3>2
    <3>4. QED
      BY <3>1, <3>2, <3>3
  <2> HIDE DEF top
  <2>2. /\ first \in ConsoleRecord /\ first.calls = count /\ first.active = scopes
        /\ first.saved = <<>> /\ first.chain = <<r>> /\ first.owner = r
    BY <1>5, <2>1 DEF ConsoleRecord
  <2> HIDE DEF first
  <2>3. ChainSound(first)
    BY <1>2, <1>3, <2>2 DEF ChainSound
  <2>4. QED
    BY <1>4, <1>7, <2>2, <2>3 DEF scopes
<1>8. QED
  BY <1>6, <1>7

LEMMA LeaveSound ==
  ASSUME NEW con, ChainSound(con), NEW r \in con.active
  PROVE  ChainSound(Scopes!Leave(con, r)) /\ Scopes!Leave(con, r).active = con.active \ {r}
<1> DEFINE count == con.calls - 1
           scopes == con.active \ {r}
           closed == [con EXCEPT !.calls = count, !.active = scopes]
           under == IF Scopes!OnTop(con) THEN con.saved ELSE con.chain
           last == [closed EXCEPT !.owner = None, !.saved = <<>>, !.chain = under]
<1>1. con \in ConsoleRecord
  BY DEF ChainSound
<1>2. IsFiniteSet(scopes) /\ count = Cardinality(scopes) /\ scopes \subseteq Calls
  BY <1>1, FS_RemoveElement DEF ChainSound, ConsoleRecord
<1>3. count \in Nat
  BY <1>2, FS_CardinalityType
<1>4. con.calls # 0
  BY <1>1, <1>3 DEF ConsoleRecord
<1>5. Scopes!Leave(con, r) = IF closed.calls # 0 THEN closed ELSE last
  BY <1>1 DEF Scopes!Leave, ConsoleRecord
<1>6. under = <<>>
  BY <1>1, <1>4 DEF Scopes!OnTop, ChainSound, ConsoleRecord
<1>e. <<>> \in Seq(Calls)
  OBVIOUS
<1> HIDE DEF count, scopes, under
<1>7. /\ closed \in ConsoleRecord /\ closed.calls = count /\ closed.active = scopes
      /\ closed.saved = con.saved /\ closed.chain = con.chain /\ closed.owner = con.owner
  BY <1>1, <1>2, <1>3 DEF ConsoleRecord
<1> HIDE DEF closed
<1>8. CASE count # 0
  BY <1>2, <1>4, <1>5, <1>7, <1>8 DEF ChainSound, scopes
<1>9. CASE count = 0
  <2>1. /\ last \in ConsoleRecord /\ last.calls = count /\ last.active = scopes
        /\ last.saved = <<>> /\ last.chain = <<>>
    BY <1>6, <1>7, <1>e DEF ConsoleRecord
  <2> HIDE DEF last
  <2>2. ChainSound(last)
    BY <1>2, <1>9, <2>1 DEF ChainSound
  <2>3. QED
    BY <1>5, <1>7, <1>9, <2>1, <2>2 DEF scopes
<1>10. QED
  BY <1>8, <1>9

Operating == {"operate", "request"}

OutputInv ==
  /\ CallsInv
  /\ ChainSound(out)
  /\ out.active = {c \in Calls : call[c].pc \in Operating}

LEMMA OutputInit == Init => OutputInv
<1> SUFFICES ASSUME Init PROVE OutputInv
  OBVIOUS
<1>1. out = [chain |-> <<>>, calls |-> 0, owner |-> None, saved |-> <<>>,
             active |-> {}, muzzled |-> {}, third |-> None]
  BY DEF Init, Scopes!ConsoleInit
<1>2. out \in ConsoleRecord /\ out.active = {} /\ out.calls = 0 /\ out.saved = <<>> /\ out.chain = <<>>
  BY <1>1 DEF ConsoleRecord
<1>3. ChainSound(out)
  BY <1>2, FS_EmptySet DEF ChainSound
<1>4. \A c \in Calls : call[c].pc = "idle"
  BY DEF Init
<1>5. QED
  BY <1>2, <1>3, <1>4, CallsInit DEF OutputInv, Operating

(* An operation enters its scope, and leaves it, with the step in which it *)
(* begins and ends.                                                        *)
LEMMA OutputStep ==
  ASSUME OutputInv, NEW c \in Calls, Call(c)
  PROVE  OutputInv'
<1>t. call \in [Calls -> CallRecord] /\ call[c] \in CallRecord /\ CallsInv
  BY DEF OutputInv, CallsInv
<1>1. PICK x \in CallRecord : call' = [call EXCEPT ![c] = x]
  BY CallSteps DEF OutputInv, Becomes
<1>2. call'[c] = x /\ \A d \in Calls : d # c => call'[d] = call[d]
  BY <1>1, <1>t
<1>3. CallsInv'
  BY CallsNext DEF OutputInv, Next
<1>r. ASSUME NEW code, Refuse(c, code)
      PROVE  x.pc = "ended"
  BY <1>t, <1>2, <1>r DEF Refuse, Answered, CallRecord
<1>g. ASSUME NEW place, CallGoes(c, place)
      PROVE  x.pc = place
  BY <1>t, <1>2, <1>g DEF CallGoes, CallRecord
<1>4. \/ UNCHANGED out /\ (call[c].pc \in Operating <=> x.pc \in Operating)
      \/ EnterScope(c) /\ call[c].pc \notin Operating /\ x.pc \in Operating
      \/ LeaveScope(c) /\ call[c].pc \in Operating /\ x.pc \notin Operating
  <2>1. CASE Begin(c) \/ Preflight(c) \/ RequestEnds(c)
    BY <1>r, <1>g, <2>1 DEF Begin, Preflight, RequestEnds, Operating
  <2>2. CASE Scan(c)
    BY <1>r, <1>g, <2>2 DEF Scan, Operating
  <2>3. CASE RequestFails(c)
    BY <1>r, <2>3 DEF RequestFails, Operating
  <2>4. CASE InspectCredential(c) \/ ReadCredential(c)
    <3>1. UNCHANGED out /\ call[c].pc \notin Operating
      BY <2>4 DEF InspectCredential, ReadCredential, Operating
    <3>2. ASSUME NEW code,
                 call' = [call EXCEPT ![c] = [Answered(c, code) EXCEPT !.keyless = TRUE]]
          PROVE  x.pc \notin Operating
      <4> DEFINE y == [Answered(c, code) EXCEPT !.keyless = TRUE]
      <4>1. y.pc = "ended"
        BY <1>t DEF Answered, CallRecord
      <4>2. call'[c] = y
        BY <1>t, <3>2
      <4>3. QED
        BY <1>2, <4>1, <4>2 DEF Operating
    <3>3. CASE call' = [call EXCEPT ![c] = [call[c] EXCEPT !.pc = "catalogue", !.keyed = TRUE]]
      <4>1. x.pc = "catalogue"
        BY <1>t, <1>2, <3>3 DEF CallRecord
      <4>2. QED
        BY <3>1, <4>1 DEF Operating
    <3>4. ASSUME Unusable(c) \/ (\E key : Keyed(c, key)) \/ CallGoes(c, "readKey")
          PROVE  x.pc \notin Operating
      <4>1. CASE CallGoes(c, "readKey")
        BY <1>g, <4>1 DEF Operating
      <4>2. CASE Unusable(c)
        BY <3>2, <4>2 DEF Unusable
      <4>3. ASSUME NEW key, Keyed(c, key)
            PROVE  x.pc \notin Operating
        <5>1. CASE key \in {None, "spaced"}
          BY <3>2, <4>3, <5>1 DEF Keyed
        <5>2. CASE key \notin {None, "spaced"}
          BY <1>t, <1>2, <4>3, <5>2 DEF Keyed, CallRecord, Operating
        <5>3. QED
          BY <5>1, <5>2
      <4>4. QED
        BY <3>4, <4>1, <4>2, <4>3
    <3>5. Unusable(c) \/ (\E key : Keyed(c, key)) \/ CallGoes(c, "readKey")
      <4>1. CASE ReadCredential(c)
        BY <4>1 DEF ReadCredential
      <4>2. CASE InspectCredential(c)
        BY <4>2 DEF InspectCredential
      <4>3. QED
        BY <2>4, <4>1, <4>2
    <3>6. QED
      BY <3>1, <3>4, <3>5
  <2>5. CASE Complete(c)
    <3> DEFINE more == call[c].billed + 1
    <3>1. call'[c] = [call[c] EXCEPT !.pc = "request", !.billed = more]
      BY <1>t, <2>5 DEF Complete
    <3> HIDE DEF more
    <3>2. x.pc = "request"
      BY <1>t, <1>2, <3>1 DEF CallRecord
    <3>3. QED
      BY <2>5, <3>2 DEF Complete, Operating
  <2>6. CASE EndOperation(c)
    <3>1. CASE call' = [call EXCEPT ![c].pc = "ended", ![c].answer = "result"]
      <4>1. x.pc = "ended"
        BY <1>t, <1>2, <3>1 DEF CallRecord
      <4>2. QED
        BY <2>6, <4>1 DEF EndOperation, Operating
    <3>2. CASE Refuse(c, Category("operate"))
      BY <1>r, <2>6, <3>2 DEF EndOperation, Operating
    <3>3. QED
      BY <2>6, <3>1, <3>2 DEF EndOperation
  <2>7. CASE Abort(c)
    <3>1. x.pc = call[c].pc
      BY <1>t, <1>2, <2>7 DEF Abort, CallRecord
    <3>2. QED
      BY <2>7, <3>1 DEF Abort
  <2>8. QED
    BY <2>1, <2>2, <2>3, <2>4, <2>5, <2>6, <2>7 DEF Call
<1>5. CASE UNCHANGED out /\ (call[c].pc \in Operating <=> x.pc \in Operating)
  BY <1>2, <1>3, <1>5 DEF OutputInv, ChainSound
<1>6. CASE EnterScope(c) /\ call[c].pc \notin Operating /\ x.pc \in Operating
  <2>1. ChainSound(out') /\ out'.active = out.active \cup {c}
    BY <1>6, EnterSound DEF OutputInv, EnterScope
  <2>2. out'.active = {d \in Calls : call'[d].pc \in Operating}
    BY <1>2, <1>6, <2>1 DEF OutputInv
  <2>3. QED
    BY <1>3, <2>1, <2>2 DEF OutputInv, ChainSound
<1>7. CASE LeaveScope(c) /\ call[c].pc \in Operating /\ x.pc \notin Operating
  <2>1. ChainSound(out') /\ out'.active = out.active \ {c}
    BY <1>7, LeaveSound DEF OutputInv, LeaveScope
  <2>2. out'.active = {d \in Calls : call'[d].pc \in Operating}
    BY <1>2, <1>7, <2>1 DEF OutputInv
  <2>3. QED
    BY <1>3, <2>1, <2>2 DEF OutputInv, ChainSound
<1>8. QED
  BY <1>4, <1>5, <1>6, <1>7

LEMMA OutputNext == OutputInv /\ [Next]_vars => OutputInv'
<1> SUFFICES ASSUME OutputInv, [Next]_vars
             PROVE  OutputInv'
  OBVIOUS
<1>1. UNCHANGED <<call, out>> \/ \E c \in Calls : Call(c)
  BY DEF Next, Setup, StartSetup, ReadDocument, InspectDocument, WriteDocument, WriteCredential,
         FinishSetup, SetupFails, OnlySetup, Serve, LoadSelected, OnlyServer, StopServer, User,
         EditDocument, LinkWorkspace, TouchCredential, Waiting, vars
<1>2. CASE UNCHANGED <<call, out>>
  BY <1>2 DEF OutputInv, CallsInv, ChainSound
<1>3. QED
  BY <1>1, <1>2, OutputStep

(* The console is diverted while an operation runs and as it was when none *)
(* does, whatever order any number of calls begin and end in.              *)
THEOREM OutputCorrect == Spec => []OutputScoped
<1>1. OutputInv => OutputScoped
  <2> SUFFICES ASSUME OutputInv PROVE OutputScoped
    OBVIOUS
  <2>1. CASE \E c \in Calls : call[c].pc \in Operating
    <3>1. out.active # {} /\ out.calls # 0
      BY <2>1, FS_EmptySet DEF OutputInv, ChainSound
    <3>2. out.owner \in Calls /\ out.chain = <<out.owner>>
      BY <3>1 DEF OutputInv, ChainSound
    <3>3. 1 \in DOMAIN out.chain /\ out.chain[1] \in Calls /\ 1 .. 1 - 1 = {}
      BY <3>2
    <3>4. Scopes!Reached(out)
      BY <3>3 DEF Scopes!Reached
    <3>5. QED
      BY <2>1, <3>4 DEF OutputScoped, Operating
  <2>2. CASE ~\E c \in Calls : call[c].pc \in Operating
    <3>1. out.active = {} /\ out.calls = 0
      BY <2>2, FS_EmptySet DEF OutputInv, ChainSound
    <3>2. QED
      BY <2>2, <3>1 DEF OutputInv, ChainSound, OutputScoped, Operating
  <2>3. QED
    BY <2>1, <2>2
<1>2. QED
  BY <1>1, OutputInit, OutputNext, PTL DEF Spec
===============================================================================
