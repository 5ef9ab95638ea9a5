----------------------------- MODULE ReportStore ------------------------------
(***************************************************************************)
(* What the cache promises to whoever reads it: a folder has at most one   *)
(* report, a report that was published is never lost but goes to an        *)
(* archive before the next one is published, documentation once saved      *)
(* stays, and what is written into the index about a folder is what the    *)
(* folder holds at that moment.  Locks, staging, crashes and errors are    *)
(* invisible here: CacheStore is shown to implement this module, one       *)
(* rename or write at a time, with any number of runs.                     *)
(***************************************************************************)
CONSTANTS Paths,     \* canonical cache folders
          Runs,      \* whose reports there may be
          NoRun,     \* no report, no entry
          MayForget  \* whether an update of the index may lose other entries

VARIABLES current,   \* whose report the folder holds
          archived,  \* whose reports its numbered siblings hold
          listed,    \* whose report the index names for it
          documented \* whether it holds downloaded documentation

svars == <<current, archived, listed, documented>>

Init ==
  /\ current = [q \in Paths |-> NoRun]
  /\ archived = [q \in Paths |-> {}]
  /\ listed = [q \in Paths |-> NoRun]
  /\ documented = [q \in Paths |-> FALSE]

(* A report replaces none: the one before it has been archived. *)
Publish(q, r) ==
  /\ current[q] = NoRun
  /\ current' = [current EXCEPT ![q] = r]
  /\ UNCHANGED <<archived, listed, documented>>

(* A report leaves its folder for an archive and for nowhere else. *)
Retire(q) ==
  /\ current[q] # NoRun
  /\ current' = [current EXCEPT ![q] = NoRun]
  /\ archived' = [archived EXCEPT ![q] = @ \cup {current[q]}]
  /\ UNCHANGED <<listed, documented>>

(* The entry of a folder is brought in line with the folder: its report is *)
(* listed, or the entry of a folder without one is removed.                *)
Register(q) ==
  /\ \E lost \in SUBSET (Paths \ {q}) :
       /\ lost # {} => MayForget
       /\ listed' = [p \in Paths |-> CASE p = q -> current[q]
                                       [] p \in lost -> NoRun
                                       [] OTHER -> listed[p]]
  /\ UNCHANGED <<current, archived, documented>>

Document(q) ==
  /\ documented' = [documented EXCEPT ![q] = TRUE]
  /\ UNCHANGED <<current, archived, listed>>

Next == \E q \in Paths :
  \/ \E r \in Runs : Publish(q, r)
  \/ Retire(q) \/ Register(q) \/ Document(q)

Spec == Init /\ [][Next]_svars
===============================================================================
