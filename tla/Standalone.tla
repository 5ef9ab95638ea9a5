------------------------------ MODULE Standalone ------------------------------
(***************************************************************************)
(* The standalone server beside the setup command: packages/mcp/src.  A    *)
(* setup connects config.json and stores a credential (host.ts, cli.ts);   *)
(* the server loads that file once (cli.ts, config.ts) and each of its     *)
(* calls reads the credential anew, asks the provider for its catalogue    *)
(* and only then operates (runtime.ts, providers/openrouter.ts,            *)
(* workspace.ts), with the console of the process diverted (console.ts).   *)
(*                                                                         *)
(* Setups and the server are processes of their own; what runs between two *)
(* awaits is a step.  McpServer has the queue and the loading of the       *)
(* configuration, ModelCall the retries of a request; here a load and a    *)
(* request are a step each.                                                *)
(***************************************************************************)
EXTENDS Integers, Sequences

CONSTANTS Calls,        \* tool calls of the server
          Setups,       \* runs of the setup command; each stores a key of its own
          Own,          \* a key the user stored
          KeyFiles,     \* files a credential may be in
          Default,      \* the one hostPaths names
          Choices,      \* what models and tuning a document selects
          Stock,        \* the selection of defaultDocument
          Docs,         \* the contents the user may give config.json
          Launches,     \* how the server may be launched: the key in its
                        \* environment, and --host codex, the per-user file
                        \* with its fallbacks, or the same file as --config
          None,         \* no file, no key, no answer
          MaxBilled,    \* bound: completions one call asks for
          MaxMeddling   \* bound: edits and failures in one behaviour

Document == [form : {"missing", "broken", "valid"}, keyFile : KeyFiles \cup {None},
             choice : Choices, linked : BOOLEAN]

Refusals == {"INVALID_ARGUMENTS", "WORKSPACE", "CONFIGURATION"}

(* A document that is missing selects the defaults. *)
ASSUME StandaloneAssumption ==
  /\ Default \in KeyFiles /\ None \notin KeyFiles
  /\ Stock \in Choices
  /\ Own \notin Setups
  /\ None \notin Setups \cup Calls \cup {Own} \cup Refusals
  /\ Docs \subseteq Document
  /\ \A d \in Docs : d.form = "missing" => d.choice = Stock
  /\ Launches \subseteq [key : {None, "spaced", "whole"}, codex : BOOLEAN]
  /\ {"unsafe", "torn", "spaced", "whole"} \cap (Setups \cup {Own, None}) = {}
  /\ MaxBilled \in Nat /\ MaxMeddling \in Nat

Scopes == INSTANCE ConsoleScope WITH Regions <- Calls, Wrapper <- "wrapper", Mute <- "mute",
                                     Nobody <- None

VARIABLES
  doc,        \* config.json
  cred,       \* what each credential file holds
  setup,      \* each setup: where it is, what it will write, and where
  launch,     \* how the server was launched
  server,     \* the server: down, up, or up without a configuration as yet
  call,       \* each call: where it is, what it was charged, its answer
  linked,     \* a link is in the cache folder
  out,        \* the console of the server and the scopes of its calls
  stored,     \* history: files that hold what a completed setup stored
  relies,     \* history: calls that began when theirs did
  undisturbed,\* history: setups since whose start the user edited nothing
  wanted,     \* history: the selection the user last made
  meddling    \* edits and failures so far

disk == <<doc, cred>>
history == <<stored, relies, undisturbed, wanted>>
vars == <<disk, setup, launch, server, call, linked, out, history, meddling>>

Keys == Setups \cup {Own}

SetupPlaces == {"idle", "read", "inspect", "writeDoc", "writeKey", "check", "done", "failed"}
CallPlaces == {"idle", "scan", "credential", "readKey", "catalogue", "scanAgain",
               "operate", "request", "ended"}
Answers == Refusals \cup {None, "result", "CANCELLED", "PROVIDER", "OPERATION"}

TypeOK ==
  /\ doc \in Document
  /\ cred \in [KeyFiles -> Keys \cup {None, "unsafe", "torn"}]
  /\ setup \in [Setups -> [pc : SetupPlaces, draft : Document, target : KeyFiles]]
  /\ launch \in Launches
  /\ server \in [mode : {"down", "lazy", "up"}, keyFile : KeyFiles \cup {None}]
  /\ call \in [Calls -> [pc : CallPlaces, keyed : BOOLEAN, aborted : BOOLEAN,
                         billed : 0 .. MaxBilled, answer : Answers, keyless : BOOLEAN]]
  /\ linked \in BOOLEAN
  /\ stored \subseteq KeyFiles /\ relies \subseteq Calls /\ undisturbed \subseteq Setups
  /\ wanted \in Choices
  /\ meddling \in 0 .. MaxMeddling

-------------------------------------------------------------------------------
(* The configuration.                                                      *)

DefaultDocument == [form |-> "valid", keyFile |-> Default, choice |-> Stock, linked |-> FALSE]

(* parseDocument: everything a document may say wrongly is one case. *)
Parses(d) == d.form = "valid"

(* loadConfig: what a process that reads the file is told. *)
LoadConfig(d) ==
  CASE d.form = "missing" -> "missing"
    [] d.form # "missing" /\ ~Parses(d) -> "defect"
    [] OTHER -> "loaded"

Plan(place, draft, target) == [pc |-> place, draft |-> draft, target |-> target]

Down == [mode |-> "down", keyFile |-> None]
Lazy == [mode |-> "lazy", keyFile |-> None]

Init ==
  /\ doc \in Docs
  /\ cred \in [KeyFiles -> {None}]
  /\ setup = [s \in Setups |-> Plan("idle", DefaultDocument, Default)]
  /\ launch \in Launches
  /\ server = Down
  /\ call = [c \in Calls |-> [pc |-> "idle", keyed |-> FALSE, aborted |-> FALSE, billed |-> 0,
                              answer |-> None, keyless |-> FALSE]]
  /\ linked = FALSE
  /\ out = Scopes!ConsoleInit
  /\ stored = {}
  /\ relies = {}
  /\ undisturbed = {}
  /\ wanted = doc.choice
  /\ meddling = 0

-------------------------------------------------------------------------------
(* mcp-intelli-search setup.                                               *)

SetupGoes(s, place) == setup' = [setup EXCEPT ![s].pc = place]

(* A setup that is over plans nothing. *)
SetupEnds(s, place) == setup' = [setup EXCEPT ![s] = Plan(place, DefaultDocument, Default)]

OnlySetup == UNCHANGED <<launch, server, call, linked, out, relies, wanted>>

(* Path options or a credential that is not one line of text: refused. *)
StartSetup(s) ==
  /\ setup[s].pc = "idle"
  /\ SetupGoes(s, "read") \/ SetupEnds(s, "failed")
  /\ undisturbed' = undisturbed \cup {s}
  /\ OnlySetup /\ UNCHANGED <<disk, stored, meddling>>

(* Mutant: the credential always goes to the default path. *)
PrepareDefault(s) ==
  LET become(place, draft) == setup' = [setup EXCEPT ![s] = Plan(place, draft, Default)]
  IN CASE LoadConfig(doc) = "missing" -> become("writeDoc", DefaultDocument)
       [] LoadConfig(doc) = "defect" -> SetupEnds(s, "failed")
       [] LoadConfig(doc) = "loaded" /\ doc.keyFile # None -> become("writeKey", doc)
       [] OTHER -> become("inspect", [doc EXCEPT !.keyFile = Default])

(* prepareConfig: what is to be written over config.json, if anything, and *)
(* the file the credential goes to.  A defective document is left alone.   *)
PrepareConfig(s) ==
  LET become(place, draft, target) == setup' = [setup EXCEPT ![s] = Plan(place, draft, target)]
  IN CASE LoadConfig(doc) = "missing" -> become("writeDoc", DefaultDocument, Default)
       [] LoadConfig(doc) = "defect" -> SetupEnds(s, "failed")
       [] LoadConfig(doc) = "loaded" /\ doc.keyFile # None -> become("writeKey", doc, doc.keyFile)
       [] OTHER -> become("inspect", [doc EXCEPT !.keyFile = Default], Default)

ReadDocument(s) ==
  /\ setup[s].pc = "read"
  /\ PrepareConfig(s)
  /\ OnlySetup /\ UNCHANGED <<disk, stored, undisturbed, meddling>>

(* A linked document, or one that has gone, is not updated. *)
InspectDocument(s) ==
  /\ setup[s].pc = "inspect"
  /\ IF doc.form = "missing" \/ doc.linked THEN SetupEnds(s, "failed") ELSE SetupGoes(s, "writeDoc")
  /\ OnlySetup /\ UNCHANGED <<disk, stored, undisturbed, meddling>>

(* A private temporary file is renamed over the document, and over what    *)
(* the user has made of it since it was read.                              *)
WriteDocument(s) ==
  /\ setup[s].pc = "writeDoc"
  /\ doc' = [setup[s].draft EXCEPT !.linked = FALSE]
  /\ SetupGoes(s, "writeKey")
  /\ IF s \in undisturbed
     THEN UNCHANGED <<undisturbed, wanted>>
     ELSE undisturbed' = {} /\ wanted' = doc'.choice
  /\ UNCHANGED <<cred, launch, server, call, linked, out, stored, relies, meddling>>

(* Mutant: the file is emptied and written in place. *)
WriteInPlace(s) ==
  /\ setup[s].pc = "writeKey"
  /\ LET f == setup[s].target
     IN IF cred[f] # "torn"
        THEN cred' = [cred EXCEPT ![f] = "torn"] /\ UNCHANGED setup
        ELSE cred' = [cred EXCEPT ![f] = s] /\ SetupGoes(s, "check")
  /\ OnlySetup /\ UNCHANGED <<doc, stored, undisturbed, meddling>>

(* writePrivateAtomic once more: whatever had the name is replaced whole,  *)
(* a link or a file with wrong permissions included.                       *)
WriteCredential(s) ==
  /\ setup[s].pc = "writeKey"
  /\ cred' = [cred EXCEPT ![setup[s].target] = s]
  /\ SetupGoes(s, "check")
  /\ OnlySetup /\ UNCHANGED <<doc, stored, undisturbed, meddling>>

(* The final file is validated, and "Setup complete" is printed. *)
FinishSetup(s) ==
  /\ setup[s].pc = "check"
  /\ IF LoadConfig(doc) = "loaded"
     THEN /\ SetupEnds(s, "done")
          /\ stored' = IF cred[setup[s].target] \in Setups THEN stored \cup {setup[s].target} ELSE stored
     ELSE SetupEnds(s, "failed") /\ UNCHANGED stored
  /\ OnlySetup /\ UNCHANGED <<disk, undisturbed, meddling>>

Writing == {"inspect", "writeDoc", "writeKey", "check"}

(* A file system call fails, or the process dies; there is no way back. *)
SetupFails(s) ==
  /\ meddling < MaxMeddling
  /\ setup[s].pc \in Writing \cup {"read"}
  /\ SetupEnds(s, "failed")
  /\ meddling' = meddling + 1
  /\ OnlySetup /\ UNCHANGED <<disk, stored, undisturbed>>

-------------------------------------------------------------------------------
(* The server and its configuration.                                       *)

(* In codex mode a document without apiKeyFile gets the default one. *)
Selected(d) ==
  [mode |-> "up", keyFile |-> IF launch.codex /\ d.keyFile = None THEN Default ELSE d.keyFile]

OnlyServer == UNCHANGED <<disk, setup, launch, call, linked, out, history, meddling>>

(* main: without a per-user file the built-in defaults do; any other       *)
(* defect of the file is left to the calls, which read it again.           *)
Serve ==
  /\ server = Down
  /\ server' = CASE LoadConfig(doc) = "loaded" -> Selected(doc)
                 [] LoadConfig(doc) = "missing" /\ launch.codex -> Selected(DefaultDocument)
                 [] OTHER -> Lazy
  /\ OnlyServer

LoadSelected ==
  /\ server = Lazy /\ LoadConfig(doc) = "loaded"
  /\ server' = Selected(doc)
  /\ OnlyServer

(* Between calls the server may be restarted. *)
StopServer ==
  /\ server # Down /\ meddling < MaxMeddling
  /\ \A c \in Calls : call[c].pc \in {"idle", "ended"}
  /\ server' = Down
  /\ meddling' = meddling + 1
  /\ UNCHANGED <<disk, setup, launch, call, linked, out, history>>

-------------------------------------------------------------------------------
(* A call: execute of runtime.ts.                                          *)

CallGoes(c, place) == call' = [call EXCEPT ![c].pc = place]

(* The catch clause: an abort is reported as such whatever was thrown. *)
Answered(c, code) ==
  [call[c] EXCEPT !.pc = "ended", !.answer = IF call[c].aborted THEN "CANCELLED" ELSE code]

Refuse(c, code) == call' = [call EXCEPT ![c] = Answered(c, code)]

OnlyCall == UNCHANGED <<disk, setup, launch, server, linked, stored, undisturbed, wanted, meddling>>

(* The arguments are validated and the signal is looked at. *)
Begin(c) ==
  /\ call[c].pc = "idle" /\ server.mode = "up"
  /\ Refuse(c, "INVALID_ARGUMENTS") \/ (~call[c].aborted /\ CallGoes(c, "scan"))
  /\ relies' = IF server.keyFile \in stored THEN relies \cup {c} ELSE relies
  /\ OnlyCall /\ UNCHANGED out

(* Mutant: the category of the second scan is kept for the operation. *)
CategoryKept(place) == IF place = "scan" THEN "WORKSPACE" ELSE
  IF place \in {"credential", "readKey", "catalogue"} THEN "CONFIGURATION" ELSE "WORKSPACE"

(* What an error that names no code of its own is reported as. *)
Category(place) ==
  CASE place \in {"scan", "scanAgain"} -> "WORKSPACE"
    [] place \in {"credential", "readKey", "catalogue"} -> "CONFIGURATION"
    [] OTHER -> "OPERATION"

EnterScope(c) == out' = Scopes!Enter(out, c)
LeaveScope(c) == out' = Scopes!Leave(out, c)

(* assertWorkspaceSafe, before the credential and before the operation.    *)
Scan(c) ==
  /\ call[c].pc \in {"scan", "scanAgain"}
  /\ IF call[c].aborted \/ linked
     THEN Refuse(c, Category(call[c].pc)) /\ UNCHANGED out
     ELSE \/ /\ call[c].pc = "scan"
             /\ CallGoes(c, "credential") /\ UNCHANGED out
          \/ /\ call[c].pc = "scanAgain"
             /\ CallGoes(c, "operate") /\ EnterScope(c)
  /\ OnlyCall /\ UNCHANGED relies

(* key: a call without a key, or with one that holds a space, is refused   *)
(* by the preflight; any other asks for the catalogue.                     *)
Keyed(c, key) ==
  call' = [call EXCEPT ![c] =
    IF key \in {None, "spaced"}
    THEN [Answered(c, "CONFIGURATION") EXCEPT !.keyless = TRUE]
    ELSE [call[c] EXCEPT !.pc = "catalogue", !.keyed = TRUE]]

(* The credential is unusable: not a private regular file, not readable,   *)
(* or not one line of text.                                                *)
Unusable(c) ==
  call' = [call EXCEPT ![c] = [Answered(c, Category(call[c].pc)) EXCEPT !.keyless = TRUE]]

(* resolveCredential: the environment wins, then the file, looked at ...   *)
InspectCredential(c) ==
  /\ call[c].pc = "credential"
  /\ CASE launch.key # None -> Keyed(c, launch.key)
       [] launch.key = None /\ server.keyFile = None -> Keyed(c, None)
       [] OTHER -> CASE cred[server.keyFile] = None -> Keyed(c, None)
                     [] cred[server.keyFile] = "unsafe" -> Unusable(c)
                     [] OTHER -> CallGoes(c, "readKey")
  /\ OnlyCall /\ UNCHANGED <<relies, out>>

(* ... and read.  By then it may have become another file.                 *)
ReadCredential(c) ==
  /\ call[c].pc = "readKey"
  /\ CASE cred[server.keyFile] = None -> Keyed(c, None)
       [] cred[server.keyFile] = "torn" -> Unusable(c)
       [] cred[server.keyFile] = "unsafe" -> Unusable(c) \/ Keyed(c, Own)
       [] OTHER -> Keyed(c, cred[server.keyFile])
  /\ OnlyCall /\ UNCHANGED <<relies, out>>

(* The catalogue of this call, and what it says of the call's models: a    *)
(* model that is missing is refused, one that cannot do what is asked and  *)
(* a request that fails are the provider's.                                *)
Preflight(c) ==
  /\ call[c].pc = "catalogue"
  /\ \/ Refuse(c, "PROVIDER")
     \/ Refuse(c, Category("catalogue"))
     \/ ~call[c].aborted /\ CallGoes(c, "scanAgain")
  /\ OnlyCall /\ UNCHANGED <<relies, out>>

(* The operation asks for a completion. *)
Complete(c) ==
  /\ call[c].pc = "operate" /\ ~call[c].aborted
  /\ call[c].billed < MaxBilled
  /\ call' = [call EXCEPT ![c].pc = "request", ![c].billed = @ + 1]
  /\ OnlyCall /\ UNCHANGED <<relies, out>>

(* The provider answers, or fails and the operation copes with it. *)
RequestEnds(c) ==
  /\ call[c].pc = "request"
  /\ CallGoes(c, "operate")
  /\ OnlyCall /\ UNCHANGED <<relies, out>>

(* It fails, and the operation with it. *)
RequestFails(c) ==
  /\ call[c].pc = "request"
  /\ Refuse(c, "PROVIDER")
  /\ LeaveScope(c)
  /\ OnlyCall /\ UNCHANGED relies

(* The operation returns, aborted or not, or throws. *)
EndOperation(c) ==
  /\ call[c].pc = "operate"
  /\ \/ call' = [call EXCEPT ![c].pc = "ended", ![c].answer = "result"]
     \/ Refuse(c, Category("operate"))
  /\ LeaveScope(c)
  /\ OnlyCall /\ UNCHANGED relies

Abort(c) ==
  /\ call[c].pc # "ended" /\ ~call[c].aborted
  /\ call' = [call EXCEPT ![c].aborted = TRUE]
  /\ OnlyCall /\ UNCHANGED <<relies, out>>

-------------------------------------------------------------------------------
(* The user.                                                               *)

EditDocument ==
  /\ meddling < MaxMeddling
  /\ doc' \in Docs
  /\ wanted' = doc'.choice
  /\ undisturbed' = {}
  /\ meddling' = meddling + 1
  /\ UNCHANGED <<cred, setup, launch, server, call, linked, out, stored, relies>>

TouchCredential(f) ==
  /\ meddling < MaxMeddling
  /\ \E content \in {None, "unsafe", "torn", Own} : cred' = [cred EXCEPT ![f] = content]
  /\ stored' = stored \ {f}
  /\ relies' = {c \in relies : server.keyFile # f}
  /\ undisturbed' = {}
  /\ meddling' = meddling + 1
  /\ UNCHANGED <<doc, setup, launch, server, call, linked, out, wanted>>

LinkWorkspace ==
  /\ meddling < MaxMeddling
  /\ linked' = ~linked
  /\ meddling' = meddling + 1
  /\ UNCHANGED <<disk, setup, launch, server, call, out, history>>

(* The server waits for calls for ever. *)
Waiting ==
  /\ \A c \in Calls : call[c].pc \in {"idle", "ended"}
  /\ \A s \in Setups : setup[s].pc \notin Writing \cup {"read"}
  /\ UNCHANGED vars

Setup(s) ==
  \/ StartSetup(s) \/ ReadDocument(s) \/ InspectDocument(s) \/ WriteDocument(s)
  \/ WriteCredential(s) \/ FinishSetup(s) \/ SetupFails(s)

Call(c) ==
  \/ Begin(c) \/ Scan(c) \/ InspectCredential(c) \/ ReadCredential(c) \/ Preflight(c)
  \/ Complete(c) \/ RequestEnds(c) \/ RequestFails(c) \/ EndOperation(c) \/ Abort(c)

User == EditDocument \/ LinkWorkspace \/ \E f \in KeyFiles : TouchCredential(f)

Next ==
  \/ \E s \in Setups : Setup(s)
  \/ Serve \/ LoadSelected \/ StopServer
  \/ \E c \in Calls : Call(c)
  \/ User \/ Waiting

Spec == Init /\ [][Next]_vars

-------------------------------------------------------------------------------
(* "The next tool call can use this credential when the selected           *)
(* configuration names its path": a call that begins after a setup was     *)
(* completed for the file the server was told to use is not refused for    *)
(* want of a key, while further setups replace it, fail or die, unless the *)
(* user touched the file or the environment holds a bad key.               *)
CredentialServed ==
  \A c \in relies : call[c].keyless => launch.key = "spaced"

(* "Existing model and tuning selections are preserved": when a setup is   *)
(* complete the document is valid, still selects what the user selected,   *)
(* and names a file with a whole key, also beside other setups, finished   *)
(* or broken off, unless the user edits it while a setup is under way.     *)
SetupConnects ==
  \A s \in undisturbed : setup[s].pc = "done" =>
    /\ Parses(doc) /\ doc.choice = wanted
    /\ doc.keyFile # None /\ cred[doc.keyFile] \in Keys

(* A refusal is one: the call has asked for no completion, and so cost     *)
(* nothing; and a call that did ask had a key of its own.  A call aborted  *)
(* before it ended is answered as cancelled or with its result, never as a *)
(* refusal or a failure.                                                   *)
RefusedUnbilled ==
  \A c \in Calls :
    /\ call[c].answer \in Refusals => call[c].billed = 0
    /\ call[c].billed > 0 => call[c].keyed
    /\ call[c].aborted => call[c].answer \in {None, "result", "CANCELLED"}

(* While any operation runs its console output meets a dispatcher, in      *)
(* whatever order operations begin and end; when none runs the console is  *)
(* as it was.                                                              *)
OutputScoped ==
  IF \E c \in Calls : call[c].pc \in {"operate", "request"}
  THEN Scopes!Reached(out) ELSE out.chain = <<>>
===============================================================================
