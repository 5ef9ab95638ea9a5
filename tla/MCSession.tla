------------------------------ MODULE MCSession -------------------------------
(* A small instance of Session: a process whose tools are called, and one   *)
(* of an earlier release that shares the agent directory with it.           *)
EXTENDS Session, TLC

CONSTANTS new, old

MCCurrent == [p \in {new, old} |-> IF p = new THEN 2100 ELSE 1300]
MCRequired ==
  [p \in {new, old} |-> {"sonar", "sonar-pro"} \cup (IF p = new THEN {"sonar-pro-search"} ELSE {})]

MCRoles == {"searchModel", "extractModel"}
MCValues ==
  {"perplexity/sonar", "minimax/MiniMax-M2.7", "minimax/minimax-m2.7", "minimax/minimax-m3", "custom"}

MCSessions == [p \in {new, old} |-> IF p = new THEN 2 ELSE 1]

NoKeys == [r \in MCRoles |-> Unset]
Extract(value) == [NoKeys EXCEPT !["extractModel"] = value]

(* The user pinned an old default, under the nested key or, older, the flat *)
(* one; the project names a model of its own.                               *)
MCFiles ==
  [d \in Dirs |->
    IF d = "agent"
    THEN {[nested |-> Extract("minimax/minimax-m2.7"), flat |-> Extract("minimax/MiniMax-M2.7")]}
    ELSE {[nested |-> Extract(value), flat |-> NoKeys] : value \in {"custom", Unset}}]

MCMarkers == {1206}
(* The tool calls of a process are interchangeable. *)
ToolSymmetry == Permutations(Tools)

MCModelFiles == {[valid |-> TRUE, ids |-> {"sonar"}], [valid |-> FALSE, ids |-> {}]}
===============================================================================
