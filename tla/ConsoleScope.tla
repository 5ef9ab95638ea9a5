----------------------------- MODULE ConsoleScope -----------------------------
(***************************************************************************)
(* Muzzled regions of src/core/console.ts as operators on a record: what   *)
(* withMuzzledConsole does when a region is entered and left, and what     *)
(* becomes of a tagged line.  One channel stands for both.  The functions  *)
(* behind console.error are a chain, outermost first: each forwards to the *)
(* one it captured, and the empty chain is the original.                   *)
(***************************************************************************)
EXTENDS Integers, Sequences

CONSTANTS Regions,   \* calls of withMuzzledConsole, each with a dispatcher it may install
          Wrapper,   \* a third party's replacement that forwards what it is given
          Mute,      \* one that does not
          Nobody     \* no dispatcher is installed

(* chain: console.error.  calls: activeCalls.  owner and saved: the closure *)
(* in restore.  active, muzzled: the flags of the scopes.  third: what the  *)
(* third party found when it replaced console.error, or Nobody.             *)
ConsoleInit ==
  [chain |-> <<>>, calls |-> 0, owner |-> Nobody, saved |-> <<>>,
   active |-> {}, muzzled |-> {}, third |-> Nobody]

(* Mutant: each region installs a dispatcher and restores what it found. *)
EnterAlways(con, r) ==
  [con EXCEPT !.calls = @ + 1, !.active = @ \cup {r},
              !.chain = <<r>> \o con.chain, !.owner = r, !.saved = con.chain]

(* The first region to be active installs its dispatcher. *)
Enter(con, r) ==
  LET opened == [con EXCEPT !.calls = @ + 1, !.active = @ \cup {r}]
  IN  IF con.calls # 0 THEN opened
      ELSE [opened EXCEPT !.chain = <<r>> \o con.chain, !.owner = r, !.saved = con.chain]

(* Mutant: what was found is put back whoever has replaced it since. *)
OnTopAlways(con) == TRUE

OnTop(con) == con.chain # <<>> /\ Head(con.chain) = con.owner

(* The last one out puts back what the dispatcher captured, unless someone *)
(* has replaced the dispatcher.                                            *)
Leave(con, r) ==
  LET closed == [con EXCEPT !.calls = @ - 1, !.active = @ \ {r}]
  IN  IF closed.calls # 0 THEN closed
      ELSE [closed EXCEPT !.owner = Nobody, !.saved = <<>>,
                          !.chain = IF OnTop(con) THEN con.saved ELSE con.chain]

(* Some dispatcher is reached: none above it keeps the line for itself.    *)
Reached(con) ==
  \E i \in DOMAIN con.chain :
    con.chain[i] \in Regions /\ \A j \in 1 .. i - 1 : con.chain[j] # Mute

(* Mutant: the line is charged to every active region. *)
LogToAll(con, r) ==
  IF Reached(con) /\ r \in con.active THEN [con EXCEPT !.muzzled = @ \cup con.active] ELSE con

(* A line with a muzzled tag, logged by the code of region r: a dispatcher *)
(* swallows it and charges the scope of r, if that is still active.        *)
Log(con, r) ==
  IF Reached(con) /\ r \in con.active THEN [con EXCEPT !.muzzled = @ \cup {r}] ELSE con

(* A third party replaces console.error, and later puts back what it found. *)
Replace(con, layer) == [con EXCEPT !.chain = <<layer>> \o con.chain, !.third = con.chain]

PutBack(con) == [con EXCEPT !.chain = con.third, !.third = Nobody]
===============================================================================
